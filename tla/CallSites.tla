------------------------------- MODULE CallSites -------------------------------
(***************************************************************************)
(* What compiled code remembers of the user functions it calls, while the  *)
(* function API changes them: the pointer in a call site's run-time cache, *)
(* and, up to PHP 8.1, the size of the call frame in ZEND_INIT_FCALL.      *)
(* runkit7 walks the code it can find and clears or corrects the two.      *)
(*                                                                         *)
(* A call of the API is one action, unless the function it takes away      *)
(* holds, in a static variable, the last reference to an object with a     *)
(* destructor: then user code runs in the middle of the call.              *)
(***************************************************************************)
EXTENDS Naturals, Sequences

CONSTANTS
    Name,          \* names of user functions
    Body, Gen,     \* what a function does, and which copy of it this is
    Frame,         \* Frame[b]: the size of a call frame for the body
    Dying,         \* functions whose destruction runs a destructor
    Caller,        \* the op_arrays with a call, one call each
    Target,        \* Target[c]: the name c calls
    Home,          \* Home[c]: where the op_array of c is kept
    CompileByName, \* PHP 8.2: RINIT sets ZEND_COMPILE_IGNORE_USER_FUNCTIONS
    MaxDepth,      \* bound: frames of callers on the stack
    None

Fun == [body : Body, gen : Gen]

(* "table": in a function table, a class or a closure object; "script":    *)
(* the code of a file, only on the stack; "inner": the user function       *)
(* inside an alias, which no table leads to.                               *)
Homes == {"table", "script", "inner"}

(* A call in whose middle a destructor runs: the function being destroyed, *)
(* what replaces it under its name, and the frames below the destructor.   *)
Pending == [name : Name, old : Fun, new : Fun \cup {None}, depth : Nat]

ASSUME CallSitesAssumption ==
    /\ Frame \in [Body -> Nat \ {0}]
    /\ Dying \subseteq Fun
    /\ Target \in [Caller -> Name]
    /\ Home \in [Caller -> Homes]
    /\ CompileByName \in BOOLEAN
    /\ MaxDepth \in Nat
    /\ None \notin Fun \cup Pending

VARIABLES
    function_table, \* the user functions of EG(function_table)
    compiled,       \* the callers that exist
    size,           \* op1.num of the caller's ZEND_INIT_FCALL; 0: INIT_FCALL_BY_NAME
    cached,         \* the function in the run-time cache of the call
    stack,          \* callers that run, innermost last
    pending,        \* that call, or None
    pDestructor,    \* EG(function_table)->pDestructor
    saved           \* __function_table_orig_pDestructor

vars == <<function_table, compiled, size, cached, stack, pending, pDestructor, saved>>
dtors == <<pDestructor, saved>>

OnStack == { stack[i] : i \in DOMAIN stack }

(* The process has not run into runkit7's endless recursion.               *)
Alive == pDestructor # "endless"

(* The innermost frame runs: it is not waiting for the call of the API.    *)
CallerRuns == stack # <<>> /\ (pending # None => Len(stack) > pending.depth)

TypeOK ==
    /\ function_table \in [Name -> Fun \cup {None}]
    /\ compiled \in SUBSET Caller
    /\ size \in [Caller -> Nat]
    /\ cached \in [Caller -> Fun \cup {None}]
    /\ stack \in Seq(Caller)
    /\ pending \in Pending \cup {None}
    /\ pDestructor \in {"zend", "runkit", "null", "endless"}
    /\ saved \in {"zend", "null"}
    /\ OnStack \subseteq compiled
    /\ pending # None => pending.depth <= Len(stack)

Init ==
    /\ function_table = [n \in Name |-> None]
    /\ compiled = {}
    /\ size = [c \in Caller |-> 0]
    /\ cached = [c \in Caller |-> None]
    /\ stack = <<>>
    /\ pending = None
    /\ pDestructor = "zend"
    /\ saved = "null"

-----------------------------------------------------------------------------
(* The engine.                                                             *)

(* A call is compiled to ZEND_INIT_FCALL if its function is known by then. *)
SizeCompiled(c) ==
    IF CompileByName \/ function_table[Target[c]] = None THEN 0
    ELSE Frame[function_table[Target[c]].body]

Compile(c) ==
    /\ Alive
    /\ c \notin compiled
    /\ Home[c] = "script" => Len(stack) < MaxDepth
    /\ compiled' = compiled \cup {c}
    /\ size' = [size EXCEPT ![c] = SizeCompiled(c)]
    /\ stack' = IF Home[c] = "script" THEN Append(stack, c) ELSE stack
    /\ UNCHANGED <<function_table, cached, pending, dtors>>

Enter(c) ==
    /\ Alive
    /\ c \in compiled /\ Home[c] # "script"
    /\ Len(stack) < MaxDepth
    /\ stack' = Append(stack, c)
    /\ UNCHANGED <<function_table, compiled, size, cached, pending, dtors>>

(* The code of a file is gone when it returns.                             *)
Leave ==
    /\ Alive
    /\ CallerRuns
    /\ LET c == stack[Len(stack)]
       IN  IF Home[c] = "script"
           THEN /\ compiled' = compiled \ {c}
                /\ cached' = [cached EXCEPT ![c] = None]
                /\ size' = [size EXCEPT ![c] = 0]
           ELSE UNCHANGED <<compiled, cached, size>>
    /\ stack' = SubSeq(stack, 1, Len(stack) - 1)
    /\ UNCHANGED <<function_table, pending, dtors>>

(* The innermost caller reaches its call: what the cache holds is called,  *)
(* else the function under the name, which the cache then holds.           *)
Execute ==
    /\ Alive
    /\ CallerRuns
    /\ LET c == stack[Len(stack)]
       IN  /\ cached[c] = None
           /\ cached' = [cached EXCEPT ![c] = function_table[Target[c]]]
    /\ UNCHANGED <<function_table, compiled, size, stack, pending, dtors>>

-----------------------------------------------------------------------------
(* Clearing and correcting.                                                *)

(* The code the two walks find: by way of the function table, the classes  *)
(* and the closures, and along the stack.                                  *)
ReachedByTables == { c \in compiled : Home[c] = "table" }
Reached == { c \in compiled : Home[c] = "table" \/ c \in OnStack }

(* php_runkit_clear_all_functions_runtime_cache                            *)
KeepCaches  == cached' = cached
ClearCaches == cached' = [c \in Caller |-> IF c \in Reached THEN None ELSE cached[c]]

(* php_runkit_fix_all_hardcoded_stack_sizes: a size grows where f needs it *)
KeepSizes(n, f) == size' = size
FixSizes(n, f) ==
    size' = [c \in Caller |->
               IF c \in Reached /\ Target[c] = n /\ size[c] \in 1..Frame[f.body]
               THEN Frame[f.body] ELSE size[c]]

(* Every function that enters the table is a new clone.                    *)
New(f) ==
    /\ \A n \in Name : f # function_table[n]
    /\ pending # None => f \notin {pending.old, pending.new}

(* A destructor may call the API too.  Bounds: it leaves the function that *)
(* is being destroyed alone, and runs no other destructor.                 *)
Whole(n)   == function_table[n] # None /\ (pending # None => function_table[n] # pending.old)
MayTake(n) == Whole(n) /\ (pending # None => function_table[n] \notin Dying)

DestroyingAbove(n, f) ==
    [name |-> n, old |-> function_table[n], new |-> f, depth |-> Len(stack) + 1]
Destroying(n, f) ==
    [name |-> n, old |-> function_table[n], new |-> f, depth |-> Len(stack)]

-----------------------------------------------------------------------------
(* The function API, on user functions.                                    *)

(* runkit7 sets a destructor of its own for an update, which passes user   *)
(* functions on to the one it saved; then it puts back what it saved.      *)
(* Saved twice, runkit7's own is what is passed on to.                     *)
SwapEndsNot == UNCHANGED dtors
SwapEnds == pDestructor' = saved /\ saved' = "null"
Swapped  == pDestructor' = "runkit" /\ saved' = pDestructor
SwappedAtOnce == UNCHANGED pDestructor /\ saved' = "null"

(* A plain zend_hash_del.                                                  *)
Destroys == pDestructor = "zend" \/ (pDestructor = "runkit" /\ saved = "zend")

(* Neither clears nor corrects: the name is not in use.                    *)
FunctionAdd(n, f) ==
    /\ Alive
    /\ New(f)
    /\ function_table[n] = None
    /\ function_table' = [function_table EXCEPT ![n] = f]
    /\ SwappedAtOnce
    /\ UNCHANGED <<compiled, size, cached, stack, pending>>

(* Cleared and corrected before the table is updated; the hash destroys    *)
(* the old function before it stores the new one.                          *)
FunctionRedefine(n, f) ==
    /\ Alive
    /\ New(f)
    /\ MayTake(n)
    /\ pDestructor # "runkit"
    /\ ClearCaches
    /\ FixSizes(n, f)
    /\ IF function_table[n] \in Dying /\ pDestructor = "zend"
       THEN /\ pending' = Destroying(n, f)
            /\ Swapped
            /\ UNCHANGED function_table
       ELSE /\ function_table' = [function_table EXCEPT ![n] = f]
            /\ SwappedAtOnce
            /\ UNCHANGED pending
    /\ UNCHANGED <<compiled, stack>>

(* Inside another update runkit7's destructor passes on to itself without  *)
(* end; what the call has cleared and corrected before no longer matters.  *)
FunctionRedefineNested(n) ==
    /\ MayTake(n)
    /\ pDestructor = "runkit"
    /\ pDestructor' = "endless"
    /\ UNCHANGED <<function_table, compiled, size, cached, stack, pending, saved>>

(* Deleted, destroyed, then cleared.                                       *)
FunctionRemove(n) ==
    /\ Alive
    /\ MayTake(n)
    /\ function_table' = [function_table EXCEPT ![n] = None]
    /\ IF function_table[n] \in Dying /\ Destroys
       THEN /\ pending' = Destroying(n, None)
            /\ KeepCaches
       ELSE /\ ClearCaches
            /\ UNCHANGED pending
    /\ UNCHANGED <<compiled, size, stack, dtors>>

FunctionRenameUncorrected(s, d, f) ==
    /\ Alive
    /\ New(f)
    /\ MayTake(s)
    /\ function_table[d] = None
    /\ f.body = function_table[s].body
    /\ function_table' = [function_table EXCEPT ![s] = None, ![d] = f]
    /\ KeepSizes(d, f)
    /\ ClearCaches
    /\ UNCHANGED <<compiled, stack, pending, dtors>>
(* The clone that takes the new name shares the objects in the static      *)
(* variables: destroying the original ends none of them.                   *)
FunctionRename(s, d, f) ==
    /\ Alive
    /\ New(f)
    /\ MayTake(s)
    /\ function_table[d] = None
    /\ f.body = function_table[s].body
    /\ function_table' = [function_table EXCEPT ![s] = None, ![d] = f]
    /\ FixSizes(d, f)
    /\ ClearCaches
    /\ UNCHANGED <<compiled, stack, pending, dtors>>

(* Neither clears nor corrects.                                            *)
FunctionCopy(s, d, f) ==
    /\ Alive
    /\ New(f)
    /\ Whole(s)
    /\ function_table[d] = None
    /\ f.body = function_table[s].body
    /\ function_table' = [function_table EXCEPT ![d] = f]
    /\ UNCHANGED <<compiled, size, cached, stack, pending, dtors>>

(* The destructor returns, and the call that destroyed its object goes on. *)
DestructorReturns ==
    /\ Alive
    /\ pending # None
    /\ Len(stack) = pending.depth
    /\ IF pending.new = None
       THEN ClearCaches /\ UNCHANGED <<function_table, dtors>>
       ELSE /\ function_table' = [function_table EXCEPT ![pending.name] = pending.new]
            /\ KeepCaches
            /\ SwapEnds
    /\ pending' = None
    /\ UNCHANGED <<compiled, size, stack>>

ApiCall ==
    \/ \E n \in Name, f \in Fun : FunctionAdd(n, f) \/ FunctionRedefine(n, f)
    \/ \E n \in Name : FunctionRedefineNested(n) \/ FunctionRemove(n)
    \/ \E s, d \in Name, f \in Fun : FunctionRename(s, d, f) \/ FunctionCopy(s, d, f)

Next ==
    \/ ApiCall
    \/ DestructorReturns
    \/ \E c \in Caller : Compile(c) \/ Enter(c)
    \/ Leave \/ Execute

Spec == Init /\ [][Next]_vars

-----------------------------------------------------------------------------
(* Properties.                                                             *)

Stale(c) == cached[c] \notin {None, function_table[Target[c]]}

(* A call site calls what is under its name.  The exceptions: inside an    *)
(* alias, where the clearing walk does not look, and a function whose      *)
(* destructor reached the site while it was being taken away.              *)
StaleWasDying ==
    \A c \in Caller : Stale(c) /\ Home[c] # "inner" => cached[c] \in Dying

(* A call whose frame would be too small for f.                            *)
TooSmall(c, f) == size[c] \in 1..(Frame[f.body] - 1)

(* A function that a redefinition or a renaming puts under a name gets a   *)
(* frame that is large enough from every call outside an alias, also from  *)
(* one compiled for an earlier function of the name.  (A redefinition with *)
(* a destructor in its middle is over later; code may be compiled between.) *)
ChangedFunctionFits ==
    [][\A n \in Name, c \in Caller :
          (/\ pending' = pending
           /\ function_table'[n] \notin {None, function_table[n]}
           /\ \/ function_table[n] # None
              \/ \E s \in Name : function_table[s] # None /\ function_table'[s] = None
           /\ Target[c] = n
           /\ Home[c] # "inner")
          => ~TooSmall(c, function_table[n])']_vars

(* "When redefining or adding a function (which may have been removed      *)
(* before), update the stack sizes it will be called with"                 *)
(* (runkit_functions.c:1394): no call makes too small a frame.             *)
FramesFit ==
    \A c \in Caller :
        function_table[Target[c]] # None => ~TooSmall(c, function_table[Target[c]])

(* runkit7's destructor is the table's exactly during an update            *)
(* (runkit_functions.c:797-801), whatever the destructors of objects do    *)
(* meanwhile.  What the table gets back is another matter: none, once an   *)
(* add was called inside the update of another.                            *)
NoDtorLeftBehind ==
    Alive => (pDestructor = "runkit" <=> (pending # None /\ pending.new # None))

=============================================================================
