-------------------------- MODULE ConstantDestructors --------------------------
(***************************************************************************)
(* Constants whose value is an object with a destructor.  To take such a   *)
(* constant away may run the destructor, which is code of the script: it   *)
(* reads and changes constants between two steps of the call that          *)
(* destroyed the value.                                                    *)
(*                                                                         *)
(* A class keeps its entry, with the object in it, until the destructor    *)
(* has returned; a global constant has left EG(zend_constants) by then.    *)
(* The caches are cleared after that, and only then is anything added.     *)
(***************************************************************************)
EXTENDS Constants

CONSTANTS
    Dying,  \* the values that may run code when they are destroyed
    Reader  \* the names of global constants that a call site reads

ASSUME DestructorsAssumption ==
    /\ Dying \subseteq Boxed /\ Reader \subseteq Global
    /\ None \notin [ce : Class \cup {None}, name : Const \cup Global,
                    value : Value \cup {Unfit}, access : Access \cup {None}]

VARIABLES
    remembered, \* the value of the constant in the run-time cache of its call site
    pending     \* the call whose destructor runs: what it has yet to do, or None

dvars == <<vars, remembered, pending>>

Call == [ce : Class \cup {None},         \* None: a global constant
         name : Const \cup Global,
         value : Value \cup {Unfit},     \* Unfit: nothing is to be added
         access : Access \cup {None}]

DestructorsTypeOK ==
    /\ TypeOK
    /\ remembered \in [Reader -> Value \cup {Null, None}]
    /\ pending \in Call \cup {None}
    /\ pending # None =>
          IF pending.ce = None THEN pending.name \in Global /\ pending.access = None
          ELSE /\ pending.ce \in declared \ Interface
               /\ pending.name \in Const
               /\ pending.access \in Access \ {"case"}

DestructorsInit ==
    /\ Init
    /\ remembered = [n \in Reader |-> None]
    /\ pending = None

KeepSites  == KeepCaches /\ remembered' = remembered
ClearSites == ClearCaches /\ remembered' = [n \in Reader |-> None]

(* When the caches are cleared: once the constant is "gone", not while it  *)
(* is "dying".                                                             *)
SitesWhenFirst(stage) == IF stage = "dying" THEN ClearSites ELSE KeepSites
SitesWhen(stage) == IF stage = "gone" THEN ClearSites ELSE KeepSites

(* Whether an entry leaves its table before its value is destroyed.        *)
AlwaysGoneFirst(c) == TRUE
GoneFirst(c) == c = None

-----------------------------------------------------------------------------
(* The calls whose destructor runs.                                        *)

BeginClass(c, k, v, flags) ==
    /\ pending = None
    /\ Removable(c, k)
    /\ Seen(c, k) \in Dying
    /\ pending' = [ce |-> c, name |-> k, value |-> v, access |-> Flags(c, k, flags)]
    /\ SitesWhen("dying")
    /\ IF GoneFirst(c) THEN Uninstall(c, k) ELSE UNCHANGED <<constants_table, heap>>
    /\ UNCHANGED <<declared, zend_constants>>

(* The entry is deleted, and an add refused if the class has another.      *)
EndClass(c, k) ==
    LET a == pending.access
    IN  /\ pending # None
        /\ pending.ce = c /\ pending.name = k
        /\ pending' = None
        /\ SitesWhen("gone")
        /\ IF GoneFirst(c) /\ constants_table[c][k] # None
           THEN UNCHANGED constants_table /\ SettleHeap(heap)
           ELSE IF pending.value = Unfit THEN Uninstall(c, k)
           ELSE Install(Receivers(c, a), k, pending.value, a)
        /\ UNCHANGED <<declared, zend_constants>>

BeginGlobal(n, v) ==
    \E m \in GlobalRemovable(n) :
        /\ pending = None
        /\ zend_constants[m] \in Dying
        /\ pending' = [ce |-> None, name |-> n, value |-> v, access |-> None]
        /\ zend_constants' = [zend_constants EXCEPT ![m] = None]
        /\ SitesWhen("dying")
        /\ UNCHANGED <<declared, constants_table, heap>>

(* zend_register_constant refuses a name that the destructor has taken.    *)
EndGlobal(n) ==
    /\ pending # None
    /\ pending.ce = None /\ pending.name = n
    /\ pending' = None
    /\ zend_constants' =
          IF pending.value # Unfit /\ zend_constants[n] = None
          THEN [zend_constants EXCEPT ![n] = pending.value]
          ELSE zend_constants
    /\ SitesWhen("gone")
    /\ UNCHANGED <<declared, constants_table>>
    /\ SettleHeap(heap)

-----------------------------------------------------------------------------
(* Everything else a script or its destructor does, one step a call.       *)

GentleStep ==
    /\ \/ \E c \in Class : DeclareClass(c)
       \/ \E c \in Site, k \in Const : Fetch(c, k)
       \/ \E c \in Class, k \in Const, v \in Value, a \in Flag : ClassAdd(c, k, v, a)
       \/ \E n \in Global, v \in Value : GlobalAdd(n, v)
    /\ UNCHANGED remembered

ClearingStep ==
    /\ \/ \E c \in Class, k \in Const :
             \/ ClassRemove(c, k)
             \/ \E v \in Value \cup {Unfit}, flags \in Flag \cup {None} :
                   ClassRedefine(c, k, v, flags)
       \/ \E n \in Global :
             \/ GlobalRemove(n)
             \/ \E v \in Value \cup {Unfit} : GlobalRedefine(n, v)
    /\ remembered' = [n \in Reader |-> None]

(* A call site evaluates the global constant n; one that has evaluated it  *)
(* before takes what its cache holds.                                      *)
FetchGlobal(n) ==
    /\ zend_constants[n] # None
    /\ remembered[n] = None
    /\ remembered' = [remembered EXCEPT ![n] = zend_constants[n]]
    /\ UNCHANGED vars

(* Bound: the destructor leaves the entries of the dying object alone.     *)
DyingIsSpared ==
    pending # None /\ pending.ce # None =>
        LET o == constants_table[pending.ce][pending.name]
        IN  \A d \in Class : o # None /\ constants_table[d][pending.name] = o =>
                                constants_table'[d][pending.name] = o

DestructorsNext ==
    \/ (GentleStep \/ ClearingStep) /\ DyingIsSpared /\ UNCHANGED pending
    \/ \E n \in Reader : FetchGlobal(n) /\ UNCHANGED pending
    \/ \E c \in Class, k \in Const :
          \/ EndClass(c, k)
          \/ \E v \in Value \cup {Unfit}, flags \in Flag \cup {None} : BeginClass(c, k, v, flags)
    \/ \E n \in Global :
          \/ EndGlobal(n)
          \/ \E v \in Value \cup {Unfit} : BeginGlobal(n, v)

DestructorsSpec == DestructorsInit /\ [][DestructorsNext]_dvars
-----------------------------------------------------------------------------
(* Properties.                                                             *)

(* "php_runkit_clear_all_functions_runtime_cache" comes after the          *)
(* destructor (runkit_constants.c:326 and :353): whatever it read, once    *)
(* the call has ended no call site holds a global constant that is gone or *)
(* has another value, and none a class constant that is gone.              *)
SitesFollow ==
    /\ pending = None => \A n \in Reader : remembered[n] \in {None, zend_constants[n]}
    /\ StaleOnlyBelowAnAdd

(* A call does what it was asked whatever the destructor did meanwhile: a  *)
(* class constant that was removed is gone; one that was redefined has the *)
(* new value in its class and in those below, the ones the destructor      *)
(* declared among them; a global one that was redefined is defined.  With  *)
(* its entry gone first, a constant the destructor adds would be in the    *)
(* way of the new one (runkit_constants.c:169-174).                        *)
CallsTakeEffect ==
    [][\A p \in {pending} \ {None} : pending' = None =>
          IF p.ce = None THEN p.value # Unfit => zend_constants'[p.name] # None
          ELSE IF p.value = Unfit THEN constants_table'[p.ce][p.name] = None
          ELSE \A d \in Receivers(p.ce, p.access) : Seen(d, p.name)' = p.value]_dvars

================================================================================
