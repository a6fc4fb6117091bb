# runkit7, specified in TLA+

runkit7 is a PHP extension that changes functions, methods and constants of a
running PHP process. It does so by writing directly into tables that the Zend
engine owns and reads elsewhere: the global function table, the method tables
and magic-method slots of class entries, the constant tables, the list of auto
globals, the module registry, and the run-time caches and frame sizes inside
compiled code. One PHP process is one thread. What makes runkit7 hard is
*sequence*: a long run of legal calls meets state that earlier calls, or the
engine's own request life cycle, left behind; several tables hold copies of one
fact; and a call that destroys a function or a value can run a destructor, that
is user code, in its own middle.

The specifications follow the build a current distribution makes: PHP 8.1 or
later, 64 bit, no thread safety, no debug assertions. Where an older or newer
PHP matters to the call sites it is a constant (`CompileByName`). File and line
references are to `src/`.

## Inventory

| Component | State | Operations | What makes it correct | Module |
|---|---|---|---|---|
| Function API (`runkit_functions.c`) | `EG(function_table)`, `replaced_internal_functions`, `misplaced_internal_functions`, `EG(full_tables_cleanup)` | add, redefine, remove, rename, copy | whatever a request does to a function it began with can be undone when it ends | `FunctionTable` |
| Request startup and shutdown (`runkit.c:370-476`) | the same tables | RINIT, RSHUTDOWN | an FPM worker starts each request with the functions it booted with, and with no others (false: see `functions_stray`) | `FunctionTable`, `Process` |
| Superglobals (`runkit.c:297-420`) | the list of registered names, `CG(auto_globals)` | register, unregister | names that were auto globals before survive the request | `Superglobals`, `Process` |
| Module order (`php_runkit_hash.h:57-139`) | the engine's module registry | move runkit7 behind the modules that still run user code, once per request | runkit7 shuts down after them when there is something to restore | `Process` |
| Call sites (`runkit_functions.c:806-942`) | run-time caches and compiled frame sizes of every op_array | clear, correct | no call site uses a function that is gone, or a frame that is too small | `CallSites` |
| Table destructor (`runkit_functions.c:720-803`) | `EG(function_table)->pDestructor` and the saved original | swap, run, put back | it is runkit7's exactly during an update | `CallSites` |
| Method API (`runkit_methods.c`) | `ce->function_table` of every class, prototypes of the entries | add, redefine, remove, rename, copy; the walks over subclasses | a class has only its own and its ancestors' methods; overrides are left alone; inherited copies follow; nothing refers to a freed function | `Methods` |
| Magic method slots (`runkit_common.c`) | `ce->__get`, `ce->constructor`, ... | add to, delete from, inherit | a slot agrees with the method table | `Methods` |
| Reflection cleanup (`runkit_functions.c:989-1078`) | the objects in the object store | turn those that refer to a function about to be freed into a stub | no reflection object refers to a freed function | `Methods` |
| Constant API (`runkit_constants.c`) | global and class constant tables; the `zend_class_constant` objects that classes share | add, redefine, remove; the walk over subclasses | a class or a call site that still holds an object reads NULL, never a value that was destroyed; heirs follow; a private constant stays home; internal constants and enum cases stay; a call does what it was asked whatever a destructor does in its middle | `Constants`, `ConstantDestructors` |
| Alias handler (`runkit_zend_execute_API.c`) | an internal function with an inner user function | call | an alias that exists can be called | `FunctionTable` |
| Zval inspection, object ids (`runkit.c`) | none | read only | | |
| Class adoption (`runkit_classes.c`), default properties (`runkit_props.c`) | class entries | none a script can reach: registered under no function (`runkit.c:115-142`) | | |
| Argument information and stubs | none | generated | | |

How they interact. RINIT empties what the function API keeps and RSHUTDOWN wipes
and restores from it; the engine's `shutdown_executor` then drops the request's
own functions, all of them or only the last ones according to
`full_tables_cleanup`, which the function API sets. The same flag tells the
engine whether to call the modules' shutdown handlers in the order of the
registry, which the function API changes when it takes an internal function
away, or in the order collected at startup. The method and the constant API
clear the run-time caches with the function API's walk, and the method API uses
its clone, reflection and call-stack helpers and the slot macros of
`runkit_common.c`. Aliases are made by the function API and called by the
engine.

Hard behaviours, each with its line in `PROJECT.json` under `hazards`: the
clone kept of an internal function must be the first one of the request, and one
is kept of any internal function, also under a name the request made up; the
wipe and the restore of one name follow each other; a compile error is a fatal
error in the middle of a call, after which destructors and shutdown functions
still run user code; modules call user code while they shut down; a destructor
that runs inside a call may call runkit7 again; a walk over subclasses infers
inheritance from scopes; holes and old versions that removals leave in the
class tree; freed functions and values that prototypes, slots, reflection
objects, frames and caches still refer to. There is no message passing and no
persistence.

## Modules

A call of the API is one step unless user code can run in its middle. A call
that fails before it has changed anything is a stutter. Operators whose name
extends that of the next definition (`UpdatedEverywhere`, `RecordedAgain`,
`KeepCaches`, ...) are variants of it with a plausible bug, kept to show that
each property notices one.

### `FunctionTable`

One worker process and its global function table, over any number of requests.

| Module | Code |
|---|---|
| `function_table`, `replaced`, `misplaced` | `EG(function_table)` and the two request tables; the list of misplaced names is a set because only its members are used |
| `full_tables_cleanup`, `persistent` | the engine's two inputs to its own cleanup |
| `phase` | `idle` between requests; `running`; `late`: runkit7's shutdown handler has run and another module's still calls user code; `down`: all handlers have run |
| `FetchForRemoval`, `Recorded` | `php_runkit_fetch_function`: the permission check, the clone of an internal function kept under its name unless there is one, `full_tables_cleanup` |
| `FunctionAdd`, `FunctionRedefine`, `FunctionRemove`, `FunctionRename`, `FunctionCopy` | the five PHP functions, each in one step with everything it does to these tables |
| `FunctionRedefineFatal` | the new body fails to compile: the fetch's effects stay |
| `Wiped`, `Restored`, `RequestShutdown`, `RequestStartup` | RSHUTDOWN and RINIT |
| `ShutdownExecutor`, `Declare` | the engine: how it drops functions at the end, and a declaration in the script |

A `zend_function` is a record of its kind, its body and the `function_name` it
carries. Three kinds matter: an engine function, an op_array, and an *alias*,
the internal function runkit7 makes around a user function so that a slot that
held an internal function holds an internal one again. Of the two names an
internal function has, its own and that of an alias's inner function, only the
second is kept: by it the alias is called.

Three constants choose the build: `InternalOverride` (the ini setting), `Fpm`
(`Restored` acts only when the SAPI is `fpm-fcgi`), `LateCallbacks` (some module
loaded before runkit7 calls user code from its handler, so that a request may go
through `late`). This module is the abstract specification `Process` implements.

### `Superglobals` and `Process`

`Process` composes `FunctionTable` and `Superglobals` with the module registry
in place of the `LateCallbacks` constant: which module shuts down when follows
from the code that moves runkit7.

| Module | Code |
|---|---|
| `auto_globals`, `superglobals`; `RegisterSuperglobals`, `UnregisterSuperglobals` | `CG(auto_globals)` and the list; `runkit.c:298-366` and `394-420`. The setting lists any subset of `Listable`, another one in each request; a name listed twice, or one that exists, is not registered |
| `position`, `moved` | `module_registry` as the rank of each module; `RUNKIT_G(module_moved_to_front)` |
| `MovedToFront` | `php_runkit_hash_move_runkit_to_front`: first, or second behind core |
| `ApiCall` | a step of `FunctionTable`'s API by the script or by the module that is shutting down; the first one of a request that sets `full_tables_cleanup` moves runkit7 |
| `BeginShutdown` | `zend_deactivate_modules`: `walk` is the registry if `full_tables_cleanup` is set, else the order the process started with |
| `ModuleShutdown` | one handler returns, from the last rank down; runkit7's is `Rshutdown` |
| `Phase` | the refinement mapping: what `FunctionTable` calls `phase` |

Modules stay moved from one request to the next, as in the code, where only the
flag is reset. A handler returns as a step of its own, so that callbacks of a
module run before that.

### `CallSites`

User functions, the code that calls them, and what that code remembers.

| Module | Code |
|---|---|
| `function_table[n]` | a user function by its body and a copy number |
| `compiled`, `size`, `cached` | op_arrays with one call each: `op1.num` of its `ZEND_INIT_FCALL` (0: the call is compiled by name) and its run-time cache slot |
| `Home` | where the op_array is kept: in a table, a class or a closure (`table`); only on the stack (`script`); inside an alias (`inner`) |
| `stack` | the callers that run |
| `pDestructor`, `saved`, `pending` | the table's destructor, `__function_table_orig_pDestructor`, and the call in whose middle a destructor runs |
| `Reached`, `ClearCaches`, `FixSizes` | `php_runkit_clear_all_functions_runtime_cache`, `php_runkit_fix_all_hardcoded_stack_sizes`: function table, class table, closures, stack |
| `FunctionAdd` ... `FunctionCopy` | the five PHP functions in the order of the code: a redefinition clears and corrects before the update, a removal clears after the deletion, an add and a copy do neither |
| `Destroying`, `DestructorReturns` | the old function held the last reference to an object with a destructor: the call is split there, and the destructor may run code and call the API. `zend_hash_del` takes the entry out before it destroys it; `zend_hash_update` destroys the old value before it stores the new one |
| `FunctionRedefineNested` | a redefinition inside the update of another: runkit7's destructor has saved itself and passes on to itself without end. The process stops there (`Alive`), which is why this module's runs do not check deadlock |
| `Compile`, `Enter`, `Leave`, `Execute`; `SizeCompiled` | the engine; from PHP 8.2 on, RINIT makes it compile all calls by name (`runkit.c:382-385`) |

### `Methods`

The method tables of a tree of user classes.

| Module | Code |
|---|---|
| `table[c][m]`, `slot[c][m]`, `proto[f]` | `ce->function_table`, the magic slots, `common.prototype` |
| `reflected`, `active` | what a `ReflectionMethod` object refers to; the method on the call stack |
| `Fun` | a function by scope and name; `gen` tells apart functions made one after the other, and `Fresh` never reuses one that some pointer still refers to |
| `Updated` | `php_runkit_update_children_methods`: goes through the whole tree below the class |
| `Cleaned` | `php_runkit_clean_children_methods`: does not pass a class that has another entry or none |
| `PutTable`, `PutSlot`, `PutProto`; `TakeTable`, `TakeSlot` | what the two walks write |
| `MethodAdd` ... `MethodRenameToSelf` | the PHP functions, each whole; `MethodAddFatal` is the compile error after the inherited entry was dropped |
| `Reflect`, `Call`, `Return` | the script |

A walk visits a class after its parent and writes only that class, so its
result is given as one function of the tables before it. `MethodRename` is a
removal and an addition on intermediate tables, in the order of the code.
Classes are constants with their parent and their set of ancestors, so that no
recursion is needed.

### `Constants`

Global constants and the constants of a tree of classes with interfaces.

| Module | Code |
|---|---|
| `constants_table[c][k]`, `heap[o]` | `ce->constants_table`; a `zend_class_constant` with its value and access. An inherited entry is the ancestor's object itself |
| `declared`, `DeclareClass`, `Inherited`, `MayDeclare` | the engine: a class of the script is declared at any time, with the declarations `Own` allows it, and linked as the engine links it |
| `cached`, `Fetch` | a call site that has read `C::K` |
| `Emptied` | `php_runkit_remove_from_constants_table`: a string, array or object (`Boxed`) is destroyed in the object and reset to null, whoever shares it |
| `Install`, `Uninstall`, `Receivers` | the walk over subclasses: every declared class below gives up its entry and gets an object of its own; implementors of an interface are not visited |
| `Fetchable` | `php_runkit_fetch_class`: an interface is refused before anything else (`runkit_methods.c:70`), so that the interface checks further down in `runkit_constants.c` are never reached |
| `ClassAdd`, `ClassRemove`, `ClassRedefine` | the API for classes. A redefinition removes, then adds with the flags passed or those it found; a value that may not become a constant (`Unfit`) is noticed in between, and the constant stays away |
| `Found`, `GlobalAdd`, `GlobalRemove`, `GlobalRedefine` | the API for global constants, with the second look-up in lower case, which `CONST_CS`, 0 in PHP 8, never prevents |

Clearing the run-time caches is total here; which code the walk reaches is the
subject of `CallSites`. "final" is final and public. A class is declared as PHP
8.1 does it: a class may declare a constant of its interface again unless it is final there.

### `ConstantDestructors`

Extends `Constants` with values that are objects with a destructor.
`zval_ptr_dtor` runs it between two steps of the call that takes the value away,
and what runs is user code.

| Module | Code |
|---|---|
| `Dying` | the values that run code when they are destroyed |
| `remembered` | the run-time cache of a call site that reads a global constant |
| `pending` | the call whose destructor runs, with what it has yet to do |
| `BeginClass`, `EndClass` | `php_runkit_remove_from_constants_table`: the value is destroyed while the entry is still in the table (`runkit_constants.c:169`); then the entry is deleted, the caches are cleared, and a redefinition adds, to the subclasses there are by then |
| `BeginGlobal`, `EndGlobal` | `zend_hash_del` of a global constant, which takes the entry out before it destroys it; then the caches, and a redefinition registers, which is refused where the destructor has defined the name |
| `GentleStep`, `ClearingStep`, `FetchGlobal` | what the destructor, and the script outside of one, does: all of `Constants`, each call one step, and reading |

Between the two steps the entry still holds the dying object. To read it there is
safe in PHP, where an object lives until its destructor has returned; what can go
wrong is that a call site keeps what it read, and that the destructor's own calls
get in the way of what is yet to do. A call whose old value has no destructor, or
whose object is referred to elsewhere too, is the one step it is in `Constants`.

### `MC*`, `*Proofs`

Instances for TLC and the theorems. `ProcessProofs` uses `FunctionTableProofs`
through an instance; `ConstantsSharingProofs` goes on from `ConstantsProofs`, and
`ConstantDestructorsProofs` from both.

## Runs

| Run | Instance | What it shows |
|---|---|---|
| `functions_fpm` | two internal names and a free one, FPM, runkit7's handler last | whatever sequence of calls a request makes, what it began with can be restored (`Recoverable`), is (`RequestUndone`, `BootRestored`), by a wipe that takes nothing the restore does not put back (`WipeIsUndone`); an internal function under any other name is going to be wiped (`StraysAreMisplaced`) |
| `methods_pair` | a class and its child, two names of which one is magic | types; a reflection object never refers to a freed function |
| `methods_tree` | four classes in two branches, one magic method | scopes are ancestors; a declared magic method is in its slot; overrides survive; prototypes lead upwards (`ProtosAbove`), and those of overrides follow a redefinition; a redefinition equals removal and addition, and never frees the method that runs while the class of it still has it (`RedefineSparesDeclared`) |
| `process` | one internal function; core, runkit7 and a module with callbacks on each side of it; `GET` built in, `GET` and `LIVE` listed | the worker implements `FunctionTable`; runkit7 goes last when it must; a changed request ends restored (liveness); auto globals are told apart and undone |
| `constants_tree` | an interface and a chain of three classes of which the second implements it, one constant, one call site in the leaf; a global constant `LOW` of the script and `low` of a module | where an object is shared, one class's loss leaves NULL to the others and touches nothing else (`SharersReadNull`), also in a call site that is stale (`StaleSitesReadNull`), which it is only below an add; private constants stay home; heirs follow; internal constants stay whatever the case of the name |
| `constants_dying` | a class and its child, an enum with a case, `FOO` and `foo`; two values, one of them with a destructor; call sites for a class constant and for `foo` | whatever a destructor reads, no call site is left with a constant that is gone (`SitesFollow`); whatever it adds, removes, redefines or declares, the call it interrupts takes effect (`CallsTakeEffect`); enum cases stay |
| `callsites` | a method, the script and the inner function of an alias, each with one call; two names; bodies of two frame sizes, two copies of each; one copy with a destructor; calls nested two deep; up to PHP 8.1 | outside aliases a call site is stale only through a destructor; the table's destructor is runkit7's exactly during an update; what a redefinition or a renaming puts under a name fits the frames of its callers |

Five runs show that the code does not do what the repository says of it.

- `functions_stray`: a request renames (or copies) an internal function to a new
  name and then redefines or removes it there. That call takes it for a function
  the request began with and clones it under the new name
  (`runkit_functions.c:127`; the comment at 124 calls such a name "originally
  internal"). RSHUTDOWN wipes the name and then restores the clone there
  (`runkit.c:425`, 445), and the engine's cleanup keeps internal functions: the
  next request of the FPM worker finds an extra function. `StraysAreMisplaced`
  says that the list of names to wipe is right, and two theorems that the restore
  alone is to blame.
- `functions_alias`: an alias is called through the name its inner function was
  made with (`runkit_zend_execute_API.c:101`). After it was renamed onto the name
  of another removed internal function, that look-up fails and the call is not
  made.
- `methods_active`: "Cannot redefine a method while that method is active"
  (`runkit_methods.c:370`) is checked for one function, while the walk below
  frees every function of the same scope, among them an older version that a
  subclass kept and that is running. Needs a chain of four classes.
  `RedefineSparesDeclared` says that this is the only way: what a redefinition
  frees has the class and name of what it looked for, so that a running method
  is in danger only once its class no longer has it.
- `constants_case`: as `CONST_CS` is 0 in PHP 8, every constant counts as
  case insensitive, so that redefining `FOO` where only `foo` exists takes `foo`
  away (`runkit_constants.c:216`, against the comment at line 521).
- `callsites_frames`: the comment at `runkit_functions.c:1394` says that frame
  sizes are updated also for an added function "which may have been removed
  before"; the code does so for a redefinition only (line 1388). Up to PHP 8.1 a
  call compiled for the function before makes a frame that is too small.

What else the models allow, without a run of its own, since nothing in the
repository promises otherwise:

- the list of misplaced names is filled under numeric keys and searched by name
  (`runkit_functions.c:194`), so it never loses one: a name whose misplaced
  function has since been replaced by a user's is wiped all the same. This is
  harmless at the end of a request, and is why `WipeIsUndone` is needed;
- an add above a class with a method from yet another class further up leaves
  the class with the upper one (`runkit_methods.c:213`);
- the slot of a constructor is not filled in every case
  (`runkit_common.c:53`), and below an override the slot of a class may keep a
  function that was freed (`runkit_methods.c:153`);
- removing or redefining a constant that a class inherits resets the value its
  ancestor holds too, for the object is shared (`Emptied`);
- a redefinition to a value that may not become a constant (a recursive array)
  is refused only after the old constant is gone (`runkit_constants.c:459`);
- a call of the API inside a destructor that an update runs saves runkit7's own
  table destructor as the original one. An add that ends inside it puts that one
  back and leaves nothing saved: what the table had before is lost for good, and
  the outer update ends with a table that has no destructor. A redefinition ends
  in endless recursion (`Alive`). `NoDtorLeftBehind` claims only that runkit7's
  own destructor is not left in the table.

**Bounds.** Two internal names and one free one are the least with which
functions can change places, which is what the order of wipe and restore is
about; a body is only compared, so one is enough there. `gen` (methods,
constants, functions at call sites) bounds how many versions of one thing are
referred to at a time, not how long a behaviour is: a new version is any that
nothing refers to, and a call that needs one waits while none is free. All runs
have two, an older version and a newer one; the theorems hold for any number.
Where `GenSymmetry` is set, versions are interchangeable and no liveness is
checked. Two branches, or three levels with an override in the middle, are the
least with which a walk can go wrong; `methods_active` needs four levels. One
method is active at a time, because what is freed depends on the function and
not on the depth; `MaxDepth` is 2 at the call sites, the least with a caller
below the running one. One destructor runs at a time and it leaves the function
that is being destroyed alone. A caller has one call. With constants, too, one destructor runs at a time
(`pending`), and it spares the entries of the object that is dying
(`DyingIsSpared`): that a call destroys the same value twice is not modelled.
Two values are enough there, one with a destructor and one without, since values
are only compared; so is one class below another, the walk over longer chains
being the subject of `constants_tree`. Four modules are the least
with callbacks on both sides of runkit7 and a core before it, which is what the
two branches of `Front` and of the walk need. Requests are not bounded: the
state is finite without it. Deadlock is checked in every run except those of
`CallSites`, where the endless recursion stops the process.

**Fairness and liveness.** Only `Process` states fairness, weak fairness of
`BeginShutdown`, `ModuleShutdown` and `ShutdownExecutor`: a script ends by
itself or by `max_execution_time`, a handler returns (a fatal error inside one
module's handler does not keep the engine from calling the next), and the engine
goes on to the end of the request. A script that calls runkit7 for ever is cut
off, since `BeginShutdown` stays enabled while it runs. With it
`ModifiedIsRestored`: from the moment a script has taken an internal function
away, the request gets to its end with all it began with in place. The other
modules describe what a single thread does when it is asked to, and a script
may always stop asking.

**Refinement.** `process` checks `FunctionTableSpec`, `FunctionTable`'s own
specification under the mapping `phase <- Phase`; steps of other modules'
handlers are stutters of it or the step into `down`. It is also proved, and used
to carry `FunctionTable`'s theorems over to the worker.

## Proofs

The theorems hold for all values of the constants that satisfy the named
assumptions, which TLC evaluates in every run: `FunctionTableAssumption` (the
boot names are names, `None` is not a function, three settings are Booleans) and
`FunctionNamesAssumption`, the same for the worker; `MethodsAssumption` (`Super`
is the ancestor relation of the tree `Parent` describes); `ProcessAssumption`
(finitely many modules, loaded at different ranks; core and runkit7 have no
callbacks of their own); `ConstantsAssumption` (as for methods; the marks `None`,
`Null` and `Unfit` are not values; `Parent` and `Super` relate classes,
interfaces being in `Implements`; and only an enum, which the language lets
neither extend nor be extended, declares a case); `DestructorsAssumption` (values with a
destructor are objects, and `None` is not a call); `CallSitesAssumption`.
tlapm checks every leaf.

`FunctionTableProofs`
- `TypeCorrect`, `AlwaysRecoverable`, `WipesAreUndone`, `RequestsAreUndone`,
  `BootAlwaysRestored`, `StraysAreAlwaysMisplaced`, `OnlyTheRestoreLeavesStrays`,
  `NoStrayWithoutRestore`, `OverrideAlwaysRespected`.
- `Recoverable` is not inductive alone. The wipe is undone only because a name
  becomes misplaced when it is empty, and a name the request began with can
  only be empty after it was recorded; and the engine's short cleanup is enough
  only because `full_tables_cleanup` is set whenever something of `persistent`
  was touched. The invariant `RequestInv` is the conjunction of these, with the
  fact that between requests only internal functions are left.
  `RequestsAreUndone` follows for FPM; `BootAlwaysRestored` also needs that no
  user code runs after runkit7's handler, a hypothesis of the theorem.
- The three about strays have `StrayInv`: not only an internal function under a
  new name but also a clone kept for such a name has the name in the list, since
  a clone is taken where an internal function stands and an alias is made only
  where there is one or a clone of one. What RSHUTDOWN leaves internal under a
  new name is then exactly a clone it has itself restored there, and a SAPI other
  than FPM, which restores nothing, leaves none: `NoStrayInternal` holds there.
- `OverrideAlwaysRespected` has an invariant of its own, `OffInv`: with the
  setting off nothing is ever replaced or misplaced, so neither cleanup finds an
  internal function to keep. It has no run: one guard decides it.

`ProcessProofs`
- `ImplementsFunctionTable`: every step of the worker is one of `FunctionTable`
  or a stutter. The only invariant it needs is that runkit7's handler is still
  to come while the script runs.
- `RequestsStayRecoverable` and `LastShutdownUndoesAll` are `AlwaysRecoverable`
  and `RequestsAreUndone` through the refinement. The second takes the place of
  the hypothesis of no late callbacks: in a shutdown where no module with
  callbacks comes after runkit7, everything the request began with is back.
- `ChangedAlwaysLast`: for any modules in any order. The invariant `OrderInv`:
  no two modules share a rank; once runkit7 has moved, every module with
  callbacks ranks above it, in this and in later requests; `moved` and
  `full_tables_cleanup` agree within a request, and while neither is set nothing
  is recorded.
- `OnlyOwnSuperglobals`, `SuperglobalsAlwaysUndone`, for every setting: the
  names remembered are empty once runkit7's handler has run.
- `CourseEndsRestored`, for FPM, is the safety half of `ModifiedIsRestored`. A
  request that has taken an internal function away is *on course* while its
  script runs and while it shuts down with runkit7 last. No call, by the script
  or by any module's handler, leads off the course; the one step that leaves it
  is the end of the request, and everything it began with is in place then. What
  stays with TLC is that the end comes.
- `StraysAndTargetsAreWiped`, `WorkerKeepsBoot` and `WorkerRespectsOverride` carry the
  other results about `FunctionTable` over. `WorkerKeepsBoot` has the hypothesis
  of `BootAlwaysRestored` as one about the modules: none with callbacks was
  loaded before runkit7. It cannot be dropped: a request that takes nothing away
  leaves runkit7 where it was, and what such a module then does in its handler
  nobody undoes.
- `TypeCorrect`: the tables by refinement; the ranks stay between 1 and the
  number of modules because what moves back moves no further than to where
  runkit7 was.

`MethodsProofs`
- `TablesSound`: `TypeOK`, `ScopeIsAncestor` and `OwnMagicInSlot` together, from
  which `TypeCorrect`, `ScopesAreAncestors` and `OwnMagicAlwaysInSlot` follow.
  They need each other, because a walk starts from the scope found in an entry:
  that this scope is the class or an ancestor makes the walk pass by every class
  that declares the method (`WalksPassOverrides`), which keeps slots and tables
  in step. The invariant is stated of any pair of tables (`Sound`), for a rename
  goes through intermediate ones; `PutKeepsSound` and `TakeKeepsSound` are the
  two lemmas about walks.
- `OverridesAlwaysSurvive`: the action property, from the same lemma.
- `RedefinitionIsRemovalThenAddition`: of any tables (`PutAfterTake`); the walk
  of the removal reaches only classes the update fills again.
- `ReflectionStaysAlive`: whatever is not among the deleted functions stays
  where it was (`PutKeepsTheRest`, `TakeKeepsTheRest`), and the deleted ones
  were taken out of the object first.
- `PrototypesAreAbove`: every lookup of a prototype starts at the parent
  (`PrototypeFacts`), and a function whose prototype is not looked up again
  keeps it or loses it (`InstallProtos`, `FewerProtos`). It holds of freed
  prototypes too, which removals do leave behind.
- `RedefinitionKeepsProtos`: what a redefinition of an own method frees has that
  class and name. By the invariant before, whoever has such a prototype is
  below the class, hence an override the walk comes to, and is looked up again.
- `RedefinitionSparesDeclared`: the walk starts at the class or below it, so it
  can only come to a method in that method's own class if this is the one just
  looked for on the stack (`RedefinitionFrees`).

`ConstantsProofs`
- `TypeCorrect`: an object that a table or a call site refers to is there.
  `InstallFacts` and `UninstallFacts` say what an addition and a removal leave in
  tables and objects, of any set of receivers.
- `HeirsAlwaysFollow`, `PrivateAlwaysStaysHome`: an entry changes either when
  its class is declared or together with those of all receivers
  (`ChangedEntry`), and a receiver's heirs are receivers.
- `InternalsAlwaysStay`: what is under a name is found before what is under the
  name in lower case, so nothing is put over an internal constant; and what is
  refused is the constant that was found, not the name that was given.

`ConstantsSharingProofs`
- They rest on `Sharing`: the object under a name of a class carries that name
  and belongs to the class, an ancestor or an interface.
- `SitesStaleOnlyBelowAnAdd`. The property alone is not inductive: a later add
  might give the ancestor another value while the call site stays stale.
  `StaleInv` adds why it cannot. The class of a stale site has an object of its
  own, and there is a class above with the same value such that every class of
  the script below that one has an entry which is not private (`AddedAbove`).
  Whatever would change the value there takes a constant away, which empties
  the caches, or is an add, which is refused where there is an entry.
- `CasesAlwaysStay`: a case is only ever in its enum (`CaseInv`); a call on the
  enum refuses it, and no other class is above for a walk to come from.
- `StaleSitesAlwaysReadNull`, from `StaleInv`: a call site becomes stale only when
  an add takes its class's entry away, which empties the object; an object that
  exists is never written again but to be emptied.
- `SharersAlwaysReadNull`, from `Sharing`: by the name and class an object carries,
  whoever holds it holds it under the one name, and an object that nobody loses
  is none of those a call empties.

`ConstantDestructorsProofs`
- `DestructorsTypeCorrect`, `SitesAlwaysFollow`, `CallsAlwaysTakeEffect`. A call of
  one step is one of `Constants`, so `StaleInv` and `Sharing` carry over
  (`OneStep`); the two halves of a split call are dealt with by `TablesKept` and
  `EndClassFacts`. What call sites of global constants hold is only claimed while
  no destructor runs, and is inductive because the end of the call clears them.
  The second half installs in the subclasses that are declared by then.

`CallSitesProofs`
- `TypeCorrect`, `NoDtorIsLeftBehind`, `StaleAlwaysWasDying`,
  `ChangedFunctionAlwaysFits`, and `FramesFitByName` for PHP 8.2 and later. The
  invariant `Inv` adds that code that is not compiled remembers nothing, that a
  script is on the stack from its compilation on, so that the walk over the
  stack finds it, and that a pending destruction is of a function with a
  destructor. The lemmas about `ClearCaches` and `FixSizes` say which code they
  reach.

Only model-checked is the liveness in `ModifiedIsRestored`, which the prover does
not reach. The five properties of the runs that end in a violation are false of
the code, so there is nothing to prove. Three of them have theorems beside them
that say how far the code goes: `OnlyTheRestoreLeavesStrays` and
`NoStrayWithoutRestore` for strays, `RedefinitionSparesDeclared` for the method
that runs, and `ChangedFunctionAlwaysFits` with `FramesFitByName` for frame sizes.

## Not modelled

- What the inner function of an alias is made of: a copy of an alias shares it
  with the original (`runkit_functions.c:1667`), and who frees it is not told.
- Destructors that the walk over the subclasses runs, when an add replaces the
  constants below, or that run because an array is destroyed that holds the
  object: in `ConstantDestructors` only the value of the constant that the call
  names runs code. A destructor that takes the dying object out of its entry.
- Code of a fiber that is suspended, which the walks do not find either.
- A method that is removed while it runs (`runkit_methods.c:586`): the frame is
  in `Methods`, but the code promises nothing and what follows is undefined.
- The scan for `ReflectionFunction` and `ReflectionParameter` objects, the same
  as for methods.
- The table destructor at the end of a request (`runkit_functions.c:763-791`,
  called for the wipe and the restore): what they take and put back is in
  `FunctionTable`, but `CallSites` has one script and no end of request.
- PHP before 8.1 where constants are concerned: the flag `CONST_CS` of PHP 7,
  which each constant has for itself, and the rule for redeclaring a constant of
  an interface.
- Docblocks, return types, flags and argument parsing of new functions: data
  that no property depends on. Final, abstract and visibility flags of methods
  change only the entry that is made.
- Traits and interfaces in `Methods`: `Parent` is single inheritance, as in the
  walks.
- Zval inspection (`runkit7_zval_inspect`, object ids), which only reads;
  argument information and stubs, which are generated; class adoption and
  default properties (`runkit_classes.c`, `runkit_props.c`), whose PHP functions
  are registered nowhere or only refuse, so that no script reaches them.

## What is left

1. Ownership of an alias's inner function, with copies.
2. The destructors that the walk over subclasses runs, class by class.
3. An abstract specification of the call sites' function table (names and what
   they stand for, each call one step) that `CallSites` implements in spite of
   the call that a destructor splits, with the refinement proved.
4. With (1) and (2), the invariants about who owns a function or a value, for
   any number of aliases and destructors.
