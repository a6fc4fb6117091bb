------------------------------- MODULE Constants -------------------------------
(***************************************************************************)
(* Global and class constants, as runkit7_constant_add, _remove and        *)
(* _redefine change them.  A class holds an entry for every constant it    *)
(* declares or inherits, and an inherited entry is the same                *)
(* zend_class_constant as the ancestor's or the interface's.  runkit7      *)
(* gives each subclass an object of its own when it adds a constant above  *)
(* it; when it takes an entry away it destroys the value in the object,    *)
(* whoever else holds it.                                                  *)
(*                                                                         *)
(* Destroying a value here runs no user code, so one call is one action.   *)
(* Objects with a destructor are in module ConstantDestructors.            *)
(***************************************************************************)

CONSTANTS
    Class,     \* the classes, interfaces and enums of the script
    Interface, \* those that are interfaces
    Parent,    \* ce->parent, or None
    Super,     \* the strict ancestors along ce->parent
    Implements,\* the interfaces a class declares, directly
    Const,     \* names of class constants, "class" not among them
    Own,       \* Own[c][k]: the declarations [value, access] c may have for k
    Site,      \* the classes with a call site that reads their constants
    Flag,      \* the visibilities a call may pass
    Gen,       \* tells apart the objects made for one class and name
    Value,     \* values a constant may have
    Boxed,     \* those whose type is string, array or object
    Unfit,     \* a value that may not become a constant: a recursive array
    Null, None,
    Global,    \* names of global constants
    Folded,    \* Folded[n]: n in lower case
    Internal   \* the global constants of the engine and the modules

Access    == {"public", "protected", "private", "final", "case"}
Object    == [ce : Class, name : Const, gen : Gen]

ASSUME ConstantsAssumption ==
    /\ Interface \subseteq Class /\ Site \subseteq Class
    /\ Flag \subseteq {"public", "protected", "private"}
    /\ Parent \in [Class -> Class \cup {None}]
    /\ Super \in [Class -> SUBSET Class]
    /\ \A c \in Class :
          /\ c \notin Super[c]
          /\ Super[c] = IF Parent[c] = None THEN {} ELSE {Parent[c]} \cup Super[Parent[c]]
          /\ \A p \in Super[c] : Super[p] \subseteq Super[c]
          /\ \A p, q \in Super[c] : p = q \/ p \in Super[q] \/ q \in Super[p]
    /\ Implements \in [Class -> SUBSET Interface]
    /\ \A c \in Class : \A p \in Super[c] : Implements[c] \cap Implements[p] = {}
    /\ \A c \in Class : Super[c] \cap Interface = {}
    /\ \A c \in Interface : Parent[c] = None
    /\ Own \in [Class -> [Const -> SUBSET [value : Value, access : Access]]]
    /\ \A c \in Class, k \in Const : \A own \in Own[c][k] :
          /\ c \in Interface => own.access \in {"public", "final"}
          /\ own.access = "case" => Parent[c] = None /\ \A d \in Class : c \notin Super[d]
    /\ None \notin Class \cup Object \cup Access
    /\ None \notin [value : Value \cup {Null}, access : Access]
    /\ Boxed \subseteq Value
    /\ {Unfit, Null} \cap Value = {}
    /\ Folded \in [Global -> Global]
    /\ Internal \subseteq Global
    /\ None \notin Value \cup {Null}

VARIABLES
    declared,        \* the classes in EG(class_table)
    constants_table, \* constants_table[c][k]: ce->constants_table, an object or None
    heap,            \* what an object holds; None if nothing refers to it
    cached,          \* the object a call site of c::k has in its run-time cache
    zend_constants   \* EG(zend_constants): None, Internal names hold Null

class_vars == <<declared, constants_table, heap, cached>>
vars       == <<class_vars, zend_constants>>

Referenced ==
    { constants_table[c][k] : c \in Class, k \in Const }
        \cup { cached[c][k] : c \in Site, k \in Const }

TypeOK ==
    /\ declared \in SUBSET Class
    /\ constants_table \in [Class -> [Const -> Object \cup {None}]]
    /\ heap \in [Object -> [value : Value \cup {Null}, access : Access] \cup {None}]
    /\ cached \in [Site -> [Const -> Object \cup {None}]]
    /\ zend_constants \in [Global -> Value \cup {Null, None}]
    /\ \A o \in Referenced \ {None} : heap[o] # None

NoEntries(S) == [c \in S |-> [k \in Const |-> None]]

Init ==
    /\ declared = {}
    /\ constants_table = NoEntries(Class)
    /\ heap = [o \in Object |-> None]
    /\ cached = NoEntries(Site)
    /\ zend_constants = [n \in Global |-> IF n \in Internal THEN Null ELSE None]

Below(c) == { d \in Class : c \in Super[d] }

(* The value of c::k as a script sees it.                                  *)
Seen(c, k) == IF constants_table[c][k] = None THEN None ELSE heap[constants_table[c][k]].value

-----------------------------------------------------------------------------
(* The objects.                                                            *)

Fresh(c, k) == { g \in Gen : [ce |-> c, name |-> k, gen |-> g] \notin Referenced }
New(c, k) == [ce |-> c, name |-> k, gen |-> CHOOSE g \in Fresh(c, k) : TRUE]

(* php_runkit_remove_from_constants_table: the value of the entry is       *)
(* destroyed, and "reset to NULL so that the entry won't be corrupted".    *)
(* The object itself is never freed.  The mutant forms free the object,    *)
(* and forget the reset.                                                   *)
Released(o)    == None
NotReset(o)    == heap[o]
Emptied(o) ==
    IF heap[o] # None /\ heap[o].value \in Boxed THEN [heap[o] EXCEPT !.value = Null]
    ELSE heap[o]

Entries(R, k) == { constants_table[d][k] : d \in R }

(* An object that is in no table and no cache is out of reach for good.    *)
SettleHeap(h) == heap' = [o \in Object |-> IF o \in Referenced' THEN h[o] ELSE None]

(* Each class of R loses its entry for k and gets an object of its own.    *)
Install(R, k, v, a) ==
    /\ \A d \in R : Fresh(d, k) # {}
    /\ constants_table' =
          [d \in Class |-> IF d \in R THEN [constants_table[d] EXCEPT ![k] = New(d, k)]
                           ELSE constants_table[d]]
    /\ SettleHeap([o \in Object |->
          IF o \in { New(d, k) : d \in R } THEN [value |-> v, access |-> a]
          ELSE IF o \in Entries(R, k) THEN Emptied(o)
          ELSE heap[o]])

Uninstall(c, k) ==
    /\ constants_table' = [constants_table EXCEPT ![c][k] = None]
    /\ SettleHeap([o \in Object |-> IF o = constants_table[c][k] THEN Emptied(o) ELSE heap[o]])

KeepCaches  == cached' = cached
ClearCaches == cached' = NoEntries(Site)

-----------------------------------------------------------------------------
(* The class constant API.                                                 *)

(* An added constant goes into all the classes below, unless it is         *)
(* private; classes that implement an interface are not below it.          *)
ReceiversPrivateToo(c, a) == {c} \cup (Below(c) \cap declared)
ReceiversChildrenOnly(c, a) ==
    {c} \cup IF a = "private" THEN {} ELSE { d \in declared : Parent[d] = c }
Receivers(c, a) ==
    {c} \cup IF a = "private" THEN {} ELSE Below(c) \cap declared

(* php_runkit_fetch_class: classes and enums, but no interface.            *)
Fetchable(c) == c \in declared \ Interface

ClassAdd(c, k, v, a) ==
    /\ Fetchable(c)
    /\ constants_table[c][k] = None
    /\ KeepCaches
    /\ Install(Receivers(c, a), k, v, a)
    /\ UNCHANGED <<declared, zend_constants>>

(* An enum case is refused.                                                *)
RemovableCaseToo(c, k) == Fetchable(c) /\ constants_table[c][k] # None
Removable(c, k) ==
    /\ Fetchable(c)
    /\ constants_table[c][k] # None
    /\ heap[constants_table[c][k]].access # "case"

ClassRemove(c, k) ==
    /\ Removable(c, k)
    /\ ClearCaches
    /\ Uninstall(c, k)
    /\ UNCHANGED <<declared, zend_constants>>

(* The flags passed, or those of the constant that goes away.              *)
FlagsDefault(c, k, flags) == IF flags = None THEN "public" ELSE flags
Flags(c, k, flags) ==
    IF flags = None THEN heap[constants_table[c][k]].access ELSE flags

(* Removed, then added if the value may be a constant: gone if it may not. *)
ClassRedefine(c, k, v, flags) ==
    LET a == Flags(c, k, flags)
    IN  /\ Removable(c, k)
        /\ ClearCaches
        /\ IF v # Unfit THEN Install(Receivers(c, a), k, v, a) ELSE Uninstall(c, k)
        /\ UNCHANGED <<declared, zend_constants>>

ClassCall(c) ==
    \E k \in Const :
        \/ \E v \in Value, a \in Flag : ClassAdd(c, k, v, a)
        \/ ClassRemove(c, k)
        \/ \E v \in Value \cup {Unfit}, flags \in Flag \cup {None} :
              ClassRedefine(c, k, v, flags)

-----------------------------------------------------------------------------
(* The engine.                                                             *)

ParentEntry(c, k)      == { constants_table[p][k] : p \in {Parent[c]} \ {None} } \ {None}
InterfaceEntries(c, k) == { constants_table[i][k] : i \in Implements[c] } \ {None}

(* What a class inherits for k: the object of its parent unless private,   *)
(* else that of an interface.                                              *)
Inherited(c, k) ==
    LET up == { o \in ParentEntry(c, k) : heap[o].access # "private" }
    IN  IF up # {} THEN up ELSE InterfaceEntries(c, k)

(* Linking fails when what is inherited is not what each interface has,    *)
(* when a final constant is declared again, or when a declaration makes    *)
(* the parent's constant less visible.                                     *)
MayDeclare(c, k, own) ==
    IF own = None
    THEN \A o \in Inherited(c, k), i \in InterfaceEntries(c, k) : o.ce = i.ce
    ELSE /\ \A o \in ParentEntry(c, k) \cup InterfaceEntries(c, k) : heap[o].access # "final"
         /\ \A o \in ParentEntry(c, k) :
               /\ heap[o].access \in {"public", "case"} => own.access \in {"public", "final"}
               /\ heap[o].access = "protected" => own.access # "private"

DeclareClass(c) ==
    \E own \in [Const -> UNION { Own[c][k] : k \in Const } \cup {None}] :
        /\ c \notin declared
        /\ Implements[c] \cup ({Parent[c]} \ {None}) \subseteq declared
        /\ \A k \in Const : own[k] \in Own[c][k] \cup {None} /\ MayDeclare(c, k, own[k])
        /\ declared' = declared \cup {c}
        /\ KeepCaches
        /\ \A k \in Const : own[k] # None => Fresh(c, k) # {}
        /\ constants_table' =
              [constants_table EXCEPT ![c] = [k \in Const |->
                  IF own[k] # None THEN New(c, k)
                  ELSE IF Inherited(c, k) # {} THEN CHOOSE o \in Inherited(c, k) : TRUE
                  ELSE None]]
        /\ SettleHeap([o \in Object |->
              IF \E k \in Const : own[k] # None /\ o = New(c, k) THEN own[o.name] ELSE heap[o]])
        /\ UNCHANGED zend_constants

(* A call site evaluates c::k.                                             *)
Fetch(c, k) ==
    /\ constants_table[c][k] # None
    /\ cached' = [cached EXCEPT ![c][k] = constants_table[c][k]]
    /\ UNCHANGED constants_table
    /\ SettleHeap(heap)
    /\ UNCHANGED <<declared, zend_constants>>

-----------------------------------------------------------------------------
(* Global constants.                                                       *)

(* php_runkit_fetch_const: the name as written, else in lower case.  The   *)
(* flag CONST_CS, with which a constant would not be found the second      *)
(* time, is 0.                                                             *)
Found(n) ==
    IF zend_constants[n] # None THEN {n} ELSE { m \in {Folded[n]} : zend_constants[m] # None }

(* Who owns the constant that was found is looked at, not the name given.  *)
GlobalRemovableByName(n) == IF n \in Internal THEN {} ELSE Found(n)
GlobalRemovable(n) == Found(n) \ Internal

GlobalAdd(n, v) ==
    /\ zend_constants[n] = None
    /\ zend_constants' = [zend_constants EXCEPT ![n] = v]
    /\ UNCHANGED class_vars

GlobalRemove(n) ==
    \E m \in GlobalRemovable(n) :
        /\ zend_constants' = [zend_constants EXCEPT ![m] = None]
        /\ ClearCaches
        /\ UNCHANGED constants_table
        /\ SettleHeap(heap)
        /\ UNCHANGED declared

(* Nothing is added for a value that may not become a constant.            *)
GlobalRedefine(n, v) ==
    \E m \in GlobalRemovable(n) :
        /\ zend_constants' =
              IF v = Unfit THEN [zend_constants EXCEPT ![m] = None]
              ELSE [zend_constants EXCEPT ![m] = None, ![n] = v]
        /\ ClearCaches
        /\ UNCHANGED constants_table
        /\ SettleHeap(heap)
        /\ UNCHANGED declared

-----------------------------------------------------------------------------
Next ==
    \/ \E c \in Class : ClassCall(c) \/ DeclareClass(c)
    \/ \E c \in Site, k \in Const : Fetch(c, k)
    \/ \E n \in Global, v \in Value : GlobalAdd(n, v)
    \/ \E n \in Global : GlobalRemove(n)
    \/ \E n \in Global, v \in Value \cup {Unfit} : GlobalRedefine(n, v)

Spec == Init /\ [][Next]_vars
-----------------------------------------------------------------------------
(* Properties.                                                             *)

(* Adding a constant destroys the values of classes below and clears no    *)
(* cache: a call site that still holds such an entry reads NULL there, or  *)
(* a value that needs no destroying, as "the entry won't be corrupted"     *)
(* (runkit_constants.c:165) has it.                                        *)
StaleSitesReadNull ==
    \A c \in Site, k \in Const :
        LET o == cached[c][k]
        IN  o \notin {None, constants_table[c][k]} =>
               heap[o] # None /\ heap[o].value \notin Boxed

(* Taking a constant away from one class destroys the value in an object   *)
(* that others may hold.  A class that keeps the object has its value from *)
(* before, unless in this step another that shares it lost it: then it     *)
(* reads NULL, or a value that needs no destroying.                        *)
LostBy(d, k) == constants_table[d][k] # None /\ constants_table'[d][k] # constants_table[d][k]
SharersReadNull ==
    [][\A c \in declared, k \in Const :
          LET o == constants_table[c][k]
          IN  o # None /\ constants_table'[c][k] = o =>
                IF \E d \in declared : constants_table[d][k] = o /\ LostBy(d, k)
                THEN heap'[o] # None /\ heap'[o].value \notin Boxed
                ELSE heap'[o] = heap[o]]_vars

(* "Don't add this constant to subclasses if this constant is private"     *)
(* (runkit_constants.c:445): when a class gets a private constant, by an   *)
(* add or by a redefinition that kept the visibility it found, every other *)
(* class keeps the entry it had.                                           *)
PrivateStaysHome ==
    [][\A c \in Class, k \in Const :
          LET o == constants_table'[c][k]
          IN  o \notin {None, constants_table[c][k]} /\ heap'[o].access = "private" =>
                \A d \in Class \ {c} : constants_table'[d] = constants_table[d]]_vars

(* A call site holds another constant than the class has now only when a   *)
(* constant has been added above its class since it was filled, which      *)
(* clears no cache: everything that takes a constant away does.            *)
StaleOnlyBelowAnAdd ==
    \A c \in Site, k \in Const :
        cached[c][k] \notin {None, constants_table[c][k]} =>
            \E p \in Super[c] :
                /\ constants_table[p][k] # None
                /\ constants_table[p][k].ce = p
                /\ Seen(c, k) = Seen(p, k)

(* When a class of the script gets a new constant that is not private,     *)
(* every class below it has the same value from then on: none is skipped   *)
(* because a class between, or the class itself, had its own.              *)
HeirsFollow ==
    [][\A c \in declared, k \in Const :
          LET o == constants_table'[c][k]
          IN  o \notin {None, constants_table[c][k]} /\ heap'[o].access # "private" =>
                \A d \in Below(c) \cap declared : Seen(d, k)' = heap'[o].value]_vars

(* "Make runkit_constant_remove/redefine fail on enum cases"               *)
(* (package.xml:300): a case keeps its object, its value and its kind.     *)
CasesStay ==
    [][\A c \in Class, k \in Const :
          LET o == constants_table[c][k]
          IN  o # None /\ heap[o].access = "case" =>
                constants_table'[c][k] = o /\ heap'[o] = heap[o]]_vars

(* The constants of the engine and the modules outlive every call,         *)
(* whatever name in whatever case it is given.                             *)
InternalsStay == \A n \in Internal : zend_constants[n] = Null

(* "If the constant doesn't exist, constant_redefine should fail"          *)
(* (runkit_constants.c:521).                                               *)
RedefineNeedsConstant ==
    [][\A n \in Global, v \in Value :
          GlobalRedefine(n, v) => zend_constants[n] # None]_vars

===============================================================================
