------------------------------- MODULE Methods -------------------------------
(***************************************************************************)
(* The method tables of a tree of user classes, as runkit7's method API    *)
(* changes them at run time.  A class holds an entry for every method it   *)
(* declares or inherits; an inherited entry is the same zend_function as   *)
(* the ancestor's.  A call that installs or takes away a method walks the  *)
(* class table below the class and decides, from the scope of each entry,  *)
(* whether it is an inherited copy to follow or an override to leave.      *)
(*                                                                         *)
(* A walk visits every class after its parent and writes only that class,  *)
(* so its outcome is written as one function of the tables before it.      *)
(***************************************************************************)

CONSTANTS
    Class,        \* the user classes
    Parent,       \* the direct parent of a class, or None
    Super,        \* the set of all strict ancestors of a class
    Method,       \* lowercased method names
    Magic,        \* those kept in a slot of the class entry as well (__get, ...)
    Constructors, \* __construct, whose slot is only filled when free
    Gen,          \* tells apart functions that had the same class and name
    None          \* NULL

ASSUME MethodsAssumption ==
    /\ Parent \in [Class -> Class \cup {None}]
    /\ Super \in [Class -> SUBSET Class]
    /\ None \notin Class
    /\ None \notin [scope : Class, name : Method, gen : Gen]
    /\ Constructors \subseteq Magic /\ Magic \subseteq Method
    /\ \A c \in Class :
          /\ c \notin Super[c]
          /\ Super[c] = IF Parent[c] = None THEN {} ELSE {Parent[c]} \cup Super[Parent[c]]
          /\ \A p \in Super[c] : Super[p] \subseteq Super[c]
          /\ \A p, q \in Super[c] : p = q \/ p \in Super[q] \/ q \in Super[p]

(* A zend_function of a method: common.scope and the name it was made for. *)
Fun == [scope : Class, name : Method, gen : Gen]

VARIABLES
    table,     \* table[c][m]: ce->function_table
    slot,      \* slot[c][m]: ce->__get, ce->constructor, ... for m in Magic
    proto,     \* proto[f]: f->common.prototype, None for a freed function
    reflected, \* the function a ReflectionMethod object refers to; None once
               \* runkit7 has turned it into the "removed" stub
    active     \* the method running on the call stack

vars == <<table, slot, proto, reflected, active>>

Entries(t) == { t[c][m] : c \in Class, m \in Method } \ {None}
Live       == Entries(table)

(* A function some pointer refers to, freed or not: its place in memory    *)
(* is told apart from a new one.                                           *)
Referenced ==
    Live \cup Entries(slot) \cup { proto[f] : f \in Live } \cup {reflected, active}

Fresh(c, m) == { f \in Fun : f.scope = c /\ f.name = m /\ f \notin Referenced }

TypeOK ==
    /\ table \in [Class -> [Method -> Fun \cup {None}]]
    /\ slot \in [Class -> [Method -> Fun \cup {None}]]
    /\ \A c \in Class, m \in Method :
          /\ table[c][m] # None => table[c][m].name = m
          /\ slot[c][m] # None => slot[c][m].name = m
    /\ proto \in [Fun -> Fun \cup {None}]
    /\ reflected \in Fun \cup {None}
    /\ active \in Fun \cup {None}

Init ==
    /\ table = [c \in Class |-> [m \in Method |-> None]]
    /\ slot = table
    /\ proto = [f \in Fun |-> None]
    /\ reflected = None
    /\ active = None

-----------------------------------------------------------------------------
(* The walks over the classes below c.                                     *)

Below(c)   == { d \in Class : c \in Super[d] }
Path(c, d) == (Super[d] \cap Below(c)) \cup {d}

(* _php_runkit_get_method_prototype(c->parent, m); the mutant form starts   *)
(* from c itself.                                                          *)
PrototypeFromSelf(t, c, m) ==
    LET having == { p \in {c} \cup Super[c] : t[p][m] # None }
    IN  IF having = {} THEN None
        ELSE t[CHOOSE p \in having : having \ {p} \subseteq Super[p]][m]
Prototype(t, c, m) ==
    LET having  == { p \in Super[c] : t[p][m] # None }
        nearest == { p \in having : having \ {p} \subseteq Super[p] }
    IN  IF nearest = {} THEN None ELSE t[CHOOSE p \in nearest : TRUE][m]

(* php_runkit_update_children_methods goes through all of the tree below   *)
(* c, and gives the new function to a class without an entry and to one    *)
(* whose entry comes from the ancestor class a.                            *)
UpdatedEverywhere(t, c, a, m) == Below(c)
Updated(t, c, a, m) == { d \in Below(c) : t[d][m] = None \/ t[d][m].scope = a }

(* php_runkit_clean_children_methods does not go past a class that has no  *)
(* entry or one from elsewhere.                                            *)
CleanedOverridesToo(t, c, a, m) ==
    { d \in Below(c) : \A x \in Path(c, d) : t[x][m] # None }
Cleaned(t, c, a, m) ==
    { d \in Below(c) : \A x \in Path(c, d) : t[x][m] # None /\ t[x][m].scope = a }

PutTable(t, c, a, m, fe) ==
    [d \in Class |-> IF d \in {c} \cup Updated(t, c, a, m)
                     THEN [t[d] EXCEPT ![m] = fe] ELSE t[d]]

TakeTable(t, c, a, m) ==
    [d \in Class |-> IF d \in {c} \cup Cleaned(t, c, a, m)
                     THEN [t[d] EXCEPT ![m] = None] ELSE t[d]]

(* PHP_RUNKIT_ADD_MAGIC_METHOD on c, where only the constructor looks at   *)
(* what the slot holds, then php_runkit_inherit_magic on the way down: a   *)
(* class takes its parent's new method if its slot held the old one.       *)
AddMagicWhenFree(s, c, m, fe, orig_fe) ==
    IF m \in Magic /\ s[c][m] \in {None, orig_fe} THEN fe ELSE s[c][m]
AddMagic(s, c, m, fe, orig_fe) ==
    IF m \in Magic /\ (m \in Constructors => s[c][m] \in {None, orig_fe}) THEN fe ELSE s[c][m]

PutSlot(t, s, c, a, m, fe, orig_fe) ==
    LET own  == AddMagic(s, c, m, fe, orig_fe)
        heir(d) == /\ own = fe
                   /\ d \in Below(c)
                   /\ \A x \in Path(c, d) : x \in Updated(t, c, a, m) /\ s[x][m] = orig_fe
    IN  [d \in Class |->
            IF d = c THEN [s[d] EXCEPT ![m] = own]
            ELSE IF heir(d) THEN [s[d] EXCEPT ![m] = fe] ELSE s[d]]

(* PHP_RUNKIT_DEL_MAGIC_METHOD on c and on every class the walk cleans     *)
TakeSlot(t, s, c, a, m, fe) ==
    [d \in Class |-> IF d \in {c} \cup Cleaned(t, c, a, m) /\ s[d][m] = fe
                     THEN [s[d] EXCEPT ![m] = None] ELSE s[d]]

(* The new function and every override the update leaves in place get      *)
(* their prototype anew; what is freed loses it.                           *)
PutProtoOfNewOnly(t, p, c, a, m, fe) ==
    LET after == PutTable(t, c, a, m, fe)
    IN  [f \in Fun |->
            IF f \notin Entries(after) THEN None
            ELSE IF f = fe THEN Prototype(after, f.scope, m) ELSE p[f]]
PutProto(t, p, c, a, m, fe) ==
    LET after == PutTable(t, c, a, m, fe)
        anew  == {fe} \cup ({ t[d][m] : d \in Below(c) \ Updated(t, c, a, m) } \ {None})
    IN  [f \in Fun |->
            IF f \notin Entries(after) THEN None
            ELSE IF f \in anew THEN Prototype(after, f.scope, m) ELSE p[f]]

(* The functions a walk deletes a table entry of: each is first taken out  *)
(* of the reflection objects.                                              *)
Deleted(t, classes, m) == { t[d][m] : d \in classes } \ {None}

Reflected(gone) == IF reflected \in gone THEN None ELSE reflected

-----------------------------------------------------------------------------
(* The method API.                                                         *)

(* The shared ending of add, redefine, copy and rename: fe goes into c and *)
(* down to the classes that have it from a.                                *)
Install(t, s, c, a, m, fe, orig_fe) ==
    /\ table' = PutTable(t, c, a, m, fe)
    /\ slot' = PutSlot(t, s, c, a, m, fe, orig_fe)
    /\ proto' = PutProto(t, proto, c, a, m, fe)

(* php_runkit_check_call_stack *)
NeverRunsNow(fe) == FALSE
RunsNow(fe) == active = fe

Declares(c, m) == table[c][m] # None /\ table[c][m].scope = c

(* runkit7_method_add: an inherited entry is dropped first.                *)
MethodAdd(c, m) ==
    /\ ~Declares(c, m)
    /\ \E fe \in Fresh(c, m) : Install(table, slot, c, c, m, fe, None)
    /\ reflected' = Reflected(Deleted(table, {c} \cup Updated(table, c, c, m), m))
    /\ UNCHANGED active

(* The new code does not compile: a fatal error after the inherited entry  *)
(* was dropped.  It unwinds the call stack; shutdown functions and          *)
(* destructors still run.                                                  *)
MethodAddFatal(c, m) ==
    /\ table[c][m] # None /\ ~Declares(c, m)
    /\ table' = [table EXCEPT ![c][m] = None]
    /\ proto' = [f \in Fun |-> IF f \in Entries(table') THEN proto[f] ELSE None]
    /\ reflected' = Reflected({table[c][m]})
    /\ active' = None
    /\ UNCHANGED slot

(* runkit7_method_redefine: also of an inherited method, which then        *)
(* becomes c's own.  Refused while the method runs.                        *)
MethodRedefine(c, m) ==
    LET orig_fe == table[c][m]
        a == orig_fe.scope
    IN  /\ orig_fe # None
        /\ ~RunsNow(orig_fe)
        /\ \E fe \in Fresh(c, m) : Install(table, slot, c, a, m, fe, orig_fe)
        /\ reflected' = Reflected(Deleted(table, {c} \cup Updated(table, c, a, m), m))
        /\ UNCHANGED active

(* runkit7_method_copy: the new entry is made like an added one.           *)
MethodCopyScopeKept(c, m, sc, sm) ==
    /\ table[sc][sm] # None
    /\ ~Declares(c, m)
    /\ \E fe \in Fresh(table[sc][sm].scope, m) : Install(table, slot, c, c, m, fe, None)
    /\ reflected' = Reflected(Deleted(table, {c} \cup Updated(table, c, c, m), m))
    /\ UNCHANGED active
MethodCopy(c, m, sc, sm) ==
    /\ table[sc][sm] # None
    /\ MethodAdd(c, m)

(* runkit7_method_remove: also of an inherited entry.                      *)
MethodRemove(c, m) ==
    LET fe == table[c][m]
        a == fe.scope
    IN  /\ fe # None
        /\ table' = TakeTable(table, c, a, m)
        /\ slot' = TakeSlot(table, slot, c, a, m, fe)
        /\ proto' = [f \in Fun |-> IF f \in Entries(table') THEN proto[f] ELSE None]
        /\ reflected' = Reflected(Deleted(table, {c} \cup Cleaned(table, c, a, m), m))
        /\ UNCHANGED active

(* runkit7_method_rename to another name.                                  *)
MethodRenameNameKept(c, m, n) ==
    /\ m # n /\ table[c][m] # None /\ ~Declares(c, n)
    /\ \E new \in Fresh(c, m) :
          Install(TakeTable(table, c, table[c][m].scope, m),
                  TakeSlot(table, slot, c, table[c][m].scope, m, table[c][m]),
                  c, c, n, new, None)
    /\ reflected' = Reflected({table[c][m], table[c][n]})
    /\ UNCHANGED active
MethodRenameReflectionKept(c, m, n) ==
    LET fe == table[c][m]
        t  == TakeTable([table EXCEPT ![c][n] = None], c, fe.scope, m)
    IN  /\ m # n /\ fe # None /\ ~Declares(c, n)
        /\ \E new \in Fresh(c, n) :
              Install(t, TakeSlot(table, slot, c, fe.scope, m, fe), c, c, n, new, None)
        /\ reflected' = Reflected(Deleted(table, {c} \cup Updated(t, c, c, n), n))
        /\ UNCHANGED active
MethodRename(c, m, n) ==
    LET fe == table[c][m]
        a  == fe.scope
        t0 == [table EXCEPT ![c][n] = None]
        t  == TakeTable(t0, c, a, m)
        s  == TakeSlot(t0, slot, c, a, m, fe)
    IN  /\ m # n
        /\ fe # None
        /\ ~Declares(c, n)
        /\ \E new \in Fresh(c, n) : Install(t, s, c, c, n, new, None)
        /\ reflected' = Reflected(Deleted(table, {c} \cup Cleaned(table, c, a, m), m)
                                  \cup Deleted(table, {c} \cup Updated(t, c, c, n), n))
        /\ UNCHANGED active

(* runkit7_method_rename of an inherited method to its own name: the clone *)
(* is added and then removed again as the old name.  The call returns      *)
(* FALSE, and the method is gone.                                          *)
MethodRenameToSelf(c, m) ==
    /\ ~Declares(c, m)
    /\ MethodRemove(c, m)

-----------------------------------------------------------------------------
(* The script: it reflects on methods and runs them.                       *)

Reflect(c, m) ==
    /\ table[c][m] # None
    /\ reflected' = table[c][m]
    /\ UNCHANGED <<table, slot, proto, active>>

Call(c, m) ==
    /\ active = None /\ table[c][m] # None
    /\ active' = table[c][m]
    /\ UNCHANGED <<table, slot, proto, reflected>>

Return ==
    /\ active # None
    /\ active' = None
    /\ UNCHANGED <<table, slot, proto, reflected>>

(* A call of the API on class c *)
Change(c) ==
    \E m \in Method :
        \/ MethodAdd(c, m) \/ MethodAddFatal(c, m) \/ MethodRedefine(c, m)
        \/ MethodRemove(c, m) \/ MethodRenameToSelf(c, m)
        \/ \E n \in Method : MethodRename(c, m, n)
        \/ \E sc \in Class, sm \in Method : MethodCopy(c, m, sc, sm)

Next ==
    \/ \E c \in Class : Change(c)
    \/ \E c \in Class, m \in Method : Reflect(c, m) \/ Call(c, m)
    \/ Return

Spec == Init /\ [][Next]_vars

-----------------------------------------------------------------------------
(* Properties.                                                             *)

(* Whatever the order of the calls, a class only ever runs a method of its *)
(* own or of an ancestor of it.                                            *)
ScopeIsAncestor ==
    \A c \in Class, m \in Method :
        table[c][m] # None => table[c][m].scope \in {c} \cup Super[c]

(* What a class declares is only ever changed by a call on that class: the *)
(* walks from its ancestors, which go by the scope of an entry, leave      *)
(* every override as it is.                                                *)
OverridesSurvive ==
    [][\A d \in Class, m \in Method :
          Declares(d, m) /\ table'[d][m] # table[d][m] => Change(d)]_vars

(* A ReflectionMethod never refers to a function no class has any more:    *)
(* every path that frees one has turned the object into the stub before.   *)
ReflectionAlive == reflected # None => reflected \in Live

(* The slot the engine calls a class's own magic method through, which it  *)
(* reads instead of the table, holds the method of the table.              *)
OwnMagicInSlot ==
    \A c \in Class, m \in Magic \ Constructors :
        Declares(c, m) => slot[c][m] = table[c][m]

(* A method's prototype has its name and belongs to a class above the one  *)
(* that declares it, whatever the tree has been through since it was set:  *)
(* what ReflectionMethod::getPrototype follows always ends.                *)
ProtosAbove ==
    \A f \in Fun : proto[f] # None =>
        proto[f].name = f.name /\ proto[f].scope \in Super[f.scope]

ProtosAlive == \A f \in Live : proto[f] # None => proto[f] \in Live

(* "runkit7_method_redefine() must also update children methods'           *)
(* prototypes" (tests/runkit_method_redefine_update_proto.phpt:2): when a  *)
(* class redefines its own method, no override of it anywhere is left with *)
(* the freed one for a prototype.                                          *)
RedefineKeepsProtos ==
    [][ProtosAlive /\ ~ProtosAlive' =>
          ~(\E c \in Class, m \in Method : Declares(c, m) /\ MethodRedefine(c, m))]_vars

(* Redefining a method a class declares is "equivalent to remove() then    *)
(* add()" (runkit-api.php:225): it leaves every class with the entry that  *)
(* the two calls would have left it with.                                  *)
RedefineIsRemoveThenAdd ==
    \A c \in Class, m \in Method :
        Declares(c, m) =>
            \A fe \in Fresh(c, m) :
                PutTable(table, c, c, m, fe) =
                    PutTable(TakeTable(table, c, c, m), c, c, m, fe)

ActiveAlive == active # None => active \in Live

(* "Cannot redefine a method while that method is active."                *)
(* (runkit_methods.c:370): a redefinition, which frees the entry of every  *)
(* class that inherits the method, never frees the one that runs.          *)
RedefineSparesActive ==
    [][ActiveAlive /\ ~ActiveAlive' =>
          ~(\E c \in Class, m \in Method : MethodRedefine(c, m))]_vars

(* What the check does secure: through whatever class a method is          *)
(* redefined, the walk never frees the one that runs while the class of it *)
(* still has it.                                                           *)
ActiveDeclared == active # None /\ table[active.scope][active.name] = active
RedefineSparesDeclared ==
    [][ActiveDeclared /\ ~ActiveAlive' =>
          ~(\E c \in Class, m \in Method : MethodRedefine(c, m))]_vars

=============================================================================
