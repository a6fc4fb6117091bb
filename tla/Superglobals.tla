------------------------------ MODULE Superglobals ------------------------------
(***************************************************************************)
(* The superglobals that the ini setting runkit.superglobal adds to a      *)
(* request: RINIT registers the listed names as auto globals, RSHUTDOWN    *)
(* takes them out of the engine's table, which outlives the request.       *)
(***************************************************************************)

CONSTANTS
    Builtin, \* the auto globals the engine and the modules register at startup
    Listable \* the names an ini setting may list

VARIABLES
    auto_globals, \* CG(auto_globals)
    superglobals  \* the list RUNKIT_G(superglobals)

SuperglobalsTypeOK ==
    /\ auto_globals \in SUBSET (Builtin \cup Listable)
    /\ superglobals \in SUBSET (Builtin \cup Listable)

SuperglobalsInit ==
    /\ auto_globals = Builtin
    /\ superglobals = {}

(* A name that is an auto global already is not registered, and so not     *)
(* remembered: the mutant form remembers every listed name.                *)
RememberedAll(listed) == listed
Registered(listed) == listed \ auto_globals

(* RINIT: the setting can change from one request to the next.             *)
RegisterSuperglobals(listed) ==
    /\ auto_globals' = auto_globals \cup Registered(listed)
    /\ superglobals' = Registered(listed)

(* RSHUTDOWN.  The list is freed and RINIT makes a new one; the mutant     *)
(* form frees it and leaves the names registered.                          *)
ForgetSuperglobals ==
    /\ UNCHANGED auto_globals
    /\ superglobals' = {}
UnregisterSuperglobals ==
    /\ auto_globals' = auto_globals \ superglobals
    /\ superglobals' = {}

-----------------------------------------------------------------------------
(* What the request added is told apart from what was there before: every  *)
(* auto global is either built in or remembered for removal, never both,   *)
(* so that the end of a request takes away its own names and leaves        *)
(* $_GET and $_SERVER to the next one (the test in                         *)
(* php_runkit_register_auto_global).                                       *)
OwnSuperglobalsOnly ==
    /\ auto_globals = Builtin \cup superglobals
    /\ Builtin \cap superglobals = {}
=================================================================================
