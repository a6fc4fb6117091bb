---------------------------- MODULE MethodsProofs ----------------------------
(* Theorems of Methods, for every tree of classes and every set of methods. *)
EXTENDS Methods, TLAPS

(***************************************************************************)
(* What the calls of the API keep of the two tables, stated of any pair of *)
(* tables, because a rename goes through intermediate ones.                *)
(***************************************************************************)
Tables    == [Class -> [Method -> Fun \cup {None}]]
Named(t)  == \A c \in Class, m \in Method : t[c][m] # None => t[c][m].name = m
Scoped(t) == \A c \in Class, m \in Method :
                t[c][m] # None => t[c][m].scope \in {c} \cup Super[c]
Own(t, s) == \A c \in Class, m \in Magic \ Constructors :
                t[c][m] # None /\ t[c][m].scope = c => s[c][m] = t[c][m]

Sound(t, s) ==
    /\ t \in Tables /\ Named(t) /\ Scoped(t)
    /\ s \in Tables /\ Named(s) /\ Own(t, s)

-----------------------------------------------------------------------------
(* The tree of classes.                                                    *)

LEMMA NoneIsNoFunction == \A f \in Fun : f # None /\ f.scope \in Class
    BY MethodsAssumption DEF Fun

LEMMA WalksGoDown ==
    ASSUME NEW t \in Tables, NEW c \in Class, NEW a \in Class, NEW m
    PROVE  /\ \A d \in Below(c) : d \in Class /\ c \in Super[d] /\ d # c
           /\ Updated(t, c, a, m) \subseteq Below(c)
           /\ Cleaned(t, c, a, m) \subseteq Below(c)
    BY MethodsAssumption DEF Below, Updated, Cleaned

(* A walk that follows the methods of c or of an ancestor of c passes by   *)
(* every class below c that declares the method itself.                    *)
LEMMA WalksPassOverrides ==
    ASSUME NEW t \in Tables, NEW c \in Class, NEW a \in {c} \cup Super[c], NEW m \in Method,
           NEW d \in Below(c), t[d][m] # None, t[d][m].scope = d
    PROVE  d \notin Updated(t, c, a, m) /\ d \notin Cleaned(t, c, a, m)
<1>1. d \in Class /\ c \in Super[d]
    BY DEF Below
<1>2. a \in Super[d]
    BY <1>1, MethodsAssumption
<1>3. a # d
    BY <1>1, <1>2, MethodsAssumption
<1> QED
    BY <1>1, <1>3 DEF Updated, Cleaned, Path

-----------------------------------------------------------------------------
(* What the walks write.                                                   *)

LEMMA PutTableAt ==
    ASSUME NEW t \in Tables, NEW c \in Class, NEW a \in Class, NEW m \in Method, NEW fe \in Fun
    PROVE  /\ PutTable(t, c, a, m, fe) \in Tables
           /\ \A d \in Class, x \in Method :
                 PutTable(t, c, a, m, fe)[d][x] =
                     IF x = m /\ d \in {c} \cup Updated(t, c, a, m) THEN fe ELSE t[d][x]
    BY DEF PutTable, Tables

LEMMA TakeTableAt ==
    ASSUME NEW t \in Tables, NEW c \in Class, NEW a \in Class, NEW m \in Method
    PROVE  /\ TakeTable(t, c, a, m) \in Tables
           /\ \A d \in Class, x \in Method :
                 TakeTable(t, c, a, m)[d][x] =
                     IF x = m /\ d \in {c} \cup Cleaned(t, c, a, m) THEN None ELSE t[d][x]
    BY DEF TakeTable, Tables

LEMMA PutSlotAt ==
    ASSUME NEW t \in Tables, NEW s \in Tables, NEW c \in Class, NEW a \in Class, NEW m \in Method,
           NEW fe \in Fun, NEW orig_fe \in Fun \cup {None}
    PROVE  /\ PutSlot(t, s, c, a, m, fe, orig_fe) \in Tables
           /\ \A d \in Class, x \in Method :
                 \/ PutSlot(t, s, c, a, m, fe, orig_fe)[d][x] = s[d][x]
                 \/ /\ PutSlot(t, s, c, a, m, fe, orig_fe)[d][x] = fe
                    /\ x = m /\ d \in {c} \cup Updated(t, c, a, m)
           /\ m \in Magic \ Constructors => PutSlot(t, s, c, a, m, fe, orig_fe)[c][m] = fe
<1> DEFINE own == AddMagic(s, c, m, fe, orig_fe)
           heir(d) == /\ own = fe
                      /\ d \in Below(c)
                      /\ \A x \in Path(c, d) : x \in Updated(t, c, a, m) /\ s[x][m] = orig_fe
           after == PutSlot(t, s, c, a, m, fe, orig_fe)
<1>1. own \in {fe, s[c][m]} /\ (m \in Magic \ Constructors => own = fe)
    BY DEF AddMagic
<1>2. \A d \in Class : heir(d) => d \in Updated(t, c, a, m)
    BY DEF Path
<1>3. after = [d \in Class |->
                 IF d = c THEN [s[d] EXCEPT ![m] = own]
                 ELSE IF heir(d) THEN [s[d] EXCEPT ![m] = fe] ELSE s[d]]
    BY DEF PutSlot
<1> HIDE DEF own, heir, after
<1>4. after \in Tables
    BY <1>1, <1>3 DEF Tables
<1>5. \A d \in Class, x \in Method :
         \/ after[d][x] = s[d][x]
         \/ after[d][x] = fe /\ x = m /\ d \in {c} \cup Updated(t, c, a, m)
    BY <1>1, <1>2, <1>3 DEF Tables
<1>6. m \in Magic \ Constructors => after[c][m] = fe
    BY <1>1, <1>3 DEF Tables
<1> QED
    BY <1>4, <1>5, <1>6 DEF after

LEMMA TakeSlotAt ==
    ASSUME NEW t \in Tables, NEW s \in Tables, NEW c \in Class, NEW a \in Class, NEW m \in Method, NEW fe \in Fun
    PROVE  /\ TakeSlot(t, s, c, a, m, fe) \in Tables
           /\ \A d \in Class, x \in Method :
                 \/ TakeSlot(t, s, c, a, m, fe)[d][x] = s[d][x]
                 \/ /\ TakeSlot(t, s, c, a, m, fe)[d][x] = None
                    /\ x = m /\ d \in {c} \cup Cleaned(t, c, a, m)
    BY DEF TakeSlot, Tables

LEMMA PutProtoType ==
    ASSUME NEW t \in Tables, NEW c \in Class, NEW a \in Class, NEW m \in Method, NEW fe \in Fun,
           proto \in [Fun -> Fun \cup {None}]
    PROVE  PutProto(t, proto, c, a, m, fe) \in [Fun -> Fun \cup {None}]
<1>1. \A u \in Tables, d \in Class : Prototype(u, d, m) \in Fun \cup {None}
    BY MethodsAssumption DEF Prototype, Tables
<1>2. PutTable(t, c, a, m, fe) \in Tables
    BY PutTableAt
<1> QED
    BY <1>1, <1>2, NoneIsNoFunction DEF PutProto

-----------------------------------------------------------------------------
(* Installing a function and taking one away keep the tables sound.        *)

LEMMA PutKeepsSound ==
    ASSUME NEW t, NEW s, Sound(t, s), NEW c \in Class, NEW a \in {c} \cup Super[c],
           NEW m \in Method, NEW fe \in Fun, fe.scope = c, fe.name = m,
           NEW orig_fe \in Fun \cup {None}
    PROVE  Sound(PutTable(t, c, a, m, fe), PutSlot(t, s, c, a, m, fe, orig_fe))
<1> DEFINE t2 == PutTable(t, c, a, m, fe)
           s2 == PutSlot(t, s, c, a, m, fe, orig_fe)
<1>1. t \in Tables /\ s \in Tables /\ a \in Class
    BY MethodsAssumption DEF Sound
<1>2. /\ t2 \in Tables
      /\ \A d \in Class, x \in Method :
            t2[d][x] = IF x = m /\ d \in {c} \cup Updated(t, c, a, m) THEN fe ELSE t[d][x]
    BY <1>1, PutTableAt
<1>3. /\ s2 \in Tables
      /\ \A d \in Class, x \in Method :
            \/ s2[d][x] = s[d][x]
            \/ s2[d][x] = fe /\ x = m /\ d \in {c} \cup Updated(t, c, a, m)
      /\ m \in Magic \ Constructors => s2[c][m] = fe
    BY <1>1, PutSlotAt
<1> HIDE DEF t2, s2
<1>4. \A d \in Updated(t, c, a, m) : d # c /\ c \in Super[d]
    BY <1>1, WalksGoDown
<1>5. Named(t2) /\ Named(s2)
    BY <1>2, <1>3 DEF Sound, Named
<1>6. Scoped(t2)
    BY <1>2, <1>4 DEF Sound, Scoped
<1>7. Own(t2, s2)
  <2> SUFFICES ASSUME NEW d \in Class, NEW x \in Magic \ Constructors,
                      t2[d][x] # None, t2[d][x].scope = d
               PROVE  s2[d][x] = t2[d][x]
      BY DEF Own
  <2>1. x \in Method
      BY MethodsAssumption
  <2>2. CASE x = m /\ d = c
      BY <2>1, <2>2, <1>2, <1>3
  <2>3. CASE x = m /\ d \in Updated(t, c, a, m)
      BY <2>1, <2>3, <1>2, <1>4
  <2>4. CASE ~(x = m /\ d \in {c} \cup Updated(t, c, a, m))
      BY <2>1, <2>4, <1>2, <1>3 DEF Sound, Own
  <2> QED
      BY <2>2, <2>3, <2>4
<1> QED
    BY <1>2, <1>3, <1>5, <1>6, <1>7 DEF Sound, t2, s2

LEMMA TakeKeepsSound ==
    ASSUME NEW t, NEW s, Sound(t, s), NEW c \in Class, NEW a \in {c} \cup Super[c],
           NEW m \in Method, NEW fe \in Fun
    PROVE  Sound(TakeTable(t, c, a, m), TakeSlot(t, s, c, a, m, fe))
<1> DEFINE t2 == TakeTable(t, c, a, m)
           s2 == TakeSlot(t, s, c, a, m, fe)
<1>1. t \in Tables /\ s \in Tables /\ a \in Class
    BY MethodsAssumption DEF Sound
<1>2. /\ t2 \in Tables
      /\ \A d \in Class, x \in Method :
            t2[d][x] = IF x = m /\ d \in {c} \cup Cleaned(t, c, a, m) THEN None ELSE t[d][x]
    BY <1>1, TakeTableAt
<1>3. /\ s2 \in Tables
      /\ \A d \in Class, x \in Method :
            \/ s2[d][x] = s[d][x]
            \/ s2[d][x] = None /\ x = m /\ d \in {c} \cup Cleaned(t, c, a, m)
    BY <1>1, TakeSlotAt
<1> HIDE DEF t2, s2
<1>4. Named(t2) /\ Named(s2) /\ Scoped(t2)
    BY <1>2, <1>3 DEF Sound, Named, Scoped
<1>5. Own(t2, s2)
    BY <1>2, <1>3, MethodsAssumption DEF Sound, Own
<1> QED
    BY <1>2, <1>3, <1>4, <1>5 DEF Sound, t2, s2

LEMMA DropKeepsSound ==
    ASSUME NEW t, NEW s, Sound(t, s), NEW c \in Class, NEW m \in Method
    PROVE  Sound([t EXCEPT ![c][m] = None], s)
<1> DEFINE t2 == [t EXCEPT ![c][m] = None]
<1>1. t \in Tables
    BY DEF Sound
<1>2. /\ t2 \in Tables
      /\ \A d \in Class, x \in Method :
            t2[d][x] = IF x = m /\ d = c THEN None ELSE t[d][x]
    BY <1>1 DEF Tables
<1> HIDE DEF t2
<1>3. Named(t2) /\ Scoped(t2) /\ Own(t2, s)
    BY <1>2, MethodsAssumption DEF Sound, Named, Scoped, Own
<1> QED
    BY <1>2, <1>3 DEF Sound, t2

-----------------------------------------------------------------------------
(* The inductive invariant: TypeOK, ScopeIsAncestor and OwnMagicInSlot     *)
(* need each other, because a walk goes by the scopes it finds.            *)
Inv ==
    /\ Sound(table, slot)
    /\ proto \in [Fun -> Fun \cup {None}]
    /\ reflected \in Fun \cup {None}
    /\ active \in Fun \cup {None}

LEMMA InvIsParts == Inv <=> TypeOK /\ ScopeIsAncestor /\ OwnMagicInSlot
    BY MethodsAssumption
    DEF Inv, Sound, Tables, Named, Scoped, Own, TypeOK, ScopeIsAncestor, OwnMagicInSlot, Declares

LEMMA InitInv == Init => Inv
    BY MethodsAssumption DEF Init, Inv, Sound, Tables, Named, Scoped, Own

LEMMA FreshIs == \A c \in Class, m \in Method : \A f \in Fresh(c, m) :
                    f \in Fun /\ f.scope = c /\ f.name = m
    BY DEF Fresh

LEMMA ReflectedType == ASSUME Inv, NEW gone PROVE Reflected(gone) \in Fun \cup {None}
    BY DEF Inv, Reflected

(* The scope of an entry, from which a redefinition or removal walks.      *)
LEMMA AncestorOfEntry ==
    ASSUME Inv, NEW c \in Class, NEW m \in Method, table[c][m] # None
    PROVE  /\ table[c][m] \in Fun
           /\ table[c][m].scope \in {c} \cup Super[c]
    BY DEF Inv, Sound, Scoped, Tables

-----------------------------------------------------------------------------
(* Every call keeps the invariant.                                         *)

LEMMA InstallInv ==
    ASSUME Inv, NEW t, NEW s, Sound(t, s), NEW c \in Class, NEW a \in {c} \cup Super[c],
           NEW m \in Method, NEW fe \in Fresh(c, m), NEW orig_fe \in Fun \cup {None},
           Install(t, s, c, a, m, fe, orig_fe)
    PROVE  Sound(table', slot') /\ proto' \in [Fun -> Fun \cup {None}]
<1>1. fe \in Fun /\ fe.scope = c /\ fe.name = m
    BY FreshIs
<1>2. t \in Tables /\ a \in Class
    BY MethodsAssumption DEF Sound
<1>3. Sound(table', slot')
    BY <1>1, PutKeepsSound DEF Install
<1>4. proto' \in [Fun -> Fun \cup {None}]
    BY <1>1, <1>2, PutProtoType DEF Install, Inv
<1> QED
    BY <1>3, <1>4

LEMMA AddInv ==
    ASSUME Inv, NEW c \in Class, NEW m \in Method, MethodAdd(c, m)
    PROVE  Inv'
<1>1. PICK fe \in Fresh(c, m) : Install(table, slot, c, c, m, fe, None)
    BY DEF MethodAdd
<1>2. Sound(table', slot') /\ proto' \in [Fun -> Fun \cup {None}]
    BY <1>1, InstallInv DEF Inv
<1>3. reflected' \in Fun \cup {None} /\ active' = active
    BY DEF Inv, MethodAdd, Reflected
<1> QED
    BY <1>2, <1>3 DEF Inv

LEMMA AddFatalInv ==
    ASSUME Inv, NEW c \in Class, NEW m \in Method, MethodAddFatal(c, m)
    PROVE  Inv'
<1>1. Sound(table', slot')
    BY DropKeepsSound DEF Inv, MethodAddFatal
<1>2. proto' \in [Fun -> Fun \cup {None}] /\ reflected' \in Fun \cup {None}
    BY DEF Inv, MethodAddFatal, Reflected
<1> QED
    BY <1>1, <1>2 DEF Inv, MethodAddFatal

LEMMA RedefineInv ==
    ASSUME Inv, NEW c \in Class, NEW m \in Method, MethodRedefine(c, m)
    PROVE  Inv'
<1> DEFINE orig_fe == table[c][m]
           a == orig_fe.scope
<1>1. orig_fe \in Fun /\ a \in {c} \cup Super[c]
    BY AncestorOfEntry DEF MethodRedefine
<1>2. PICK fe \in Fresh(c, m) : Install(table, slot, c, a, m, fe, orig_fe)
    BY DEF MethodRedefine
<1>3. Sound(table', slot') /\ proto' \in [Fun -> Fun \cup {None}]
    BY <1>1, <1>2, InstallInv DEF Inv
<1>4. reflected' \in Fun \cup {None} /\ active' = active
    BY DEF Inv, MethodRedefine, Reflected
<1> QED
    BY <1>3, <1>4 DEF Inv

LEMMA RemoveInv ==
    ASSUME Inv, NEW c \in Class, NEW m \in Method, MethodRemove(c, m)
    PROVE  Inv'
<1> DEFINE fe == table[c][m]
           a == fe.scope
<1>1. fe \in Fun /\ a \in {c} \cup Super[c]
    BY AncestorOfEntry DEF MethodRemove
<1>2. Sound(table', slot')
    BY <1>1, TakeKeepsSound DEF Inv, MethodRemove
<1>3. /\ proto' \in [Fun -> Fun \cup {None}]
      /\ reflected' \in Fun \cup {None} /\ active' = active
    BY DEF Inv, MethodRemove, Reflected
<1> QED
    BY <1>2, <1>3 DEF Inv

LEMMA RenameInv ==
    ASSUME Inv, NEW c \in Class, NEW m \in Method, NEW n \in Method, MethodRename(c, m, n)
    PROVE  Inv'
<1> DEFINE fe == table[c][m]
           a  == fe.scope
           t0 == [table EXCEPT ![c][n] = None]
           t  == TakeTable(t0, c, a, m)
           s  == TakeSlot(t0, slot, c, a, m, fe)
<1>1. fe \in Fun /\ a \in {c} \cup Super[c]
    BY AncestorOfEntry DEF MethodRename
<1>2. Sound(t0, slot)
    BY DropKeepsSound DEF Inv
<1>3. Sound(t, s)
    BY <1>1, <1>2, TakeKeepsSound
<1>4. PICK new \in Fresh(c, n) : Install(t, s, c, c, n, new, None)
    BY DEF MethodRename
<1>5. Sound(table', slot') /\ proto' \in [Fun -> Fun \cup {None}]
    BY <1>3, <1>4, InstallInv
<1>6. reflected' \in Fun \cup {None} /\ active' = active
    BY DEF Inv, MethodRename, Reflected
<1> QED
    BY <1>5, <1>6 DEF Inv

LEMMA NextInv == Inv /\ [Next]_vars => Inv'
<1> SUFFICES ASSUME Inv, [Next]_vars PROVE Inv'
    OBVIOUS
<1>1. ASSUME NEW c \in Class, Change(c) PROVE Inv'
  <2> PICK m \in Method :
        \/ MethodAdd(c, m) \/ MethodAddFatal(c, m) \/ MethodRedefine(c, m)
        \/ MethodRemove(c, m) \/ MethodRenameToSelf(c, m)
        \/ \E n \in Method : MethodRename(c, m, n)
        \/ \E sc \in Class, sm \in Method : MethodCopy(c, m, sc, sm)
      BY <1>1 DEF Change
  <2>1. CASE MethodAdd(c, m)
      BY <2>1, AddInv
  <2>2. CASE MethodAddFatal(c, m)
      BY <2>2, AddFatalInv
  <2>3. CASE MethodRedefine(c, m)
      BY <2>3, RedefineInv
  <2>4. CASE MethodRemove(c, m) \/ MethodRenameToSelf(c, m)
      BY <2>4, RemoveInv DEF MethodRenameToSelf
  <2>5. CASE \E n \in Method : MethodRename(c, m, n)
      BY <2>5, RenameInv
  <2>6. CASE \E sc \in Class, sm \in Method : MethodCopy(c, m, sc, sm)
      BY <2>6, AddInv DEF MethodCopy
  <2> QED
      BY <2>1, <2>2, <2>3, <2>4, <2>5, <2>6
<1>2. ASSUME NEW c \in Class, NEW m \in Method, Reflect(c, m) \/ Call(c, m) PROVE Inv'
    BY <1>2, AncestorOfEntry DEF Inv, Reflect, Call
<1>3. CASE Return
    BY <1>3 DEF Inv, Return
<1>4. CASE UNCHANGED vars
    BY <1>4 DEF Inv, vars
<1> QED
    BY <1>1, <1>2, <1>3, <1>4 DEF Next

(* The method tables, slots and prototypes stay well typed for any tree of  *)
(* classes.                                                                *)
THEOREM TypeCorrect == Spec => []TypeOK
<1>1. Init => Inv
    BY InitInv
<1>2. Inv /\ [Next]_vars => Inv'
    BY NextInv
<1>3. Inv => TypeOK
    BY InvIsParts
<1> QED
    BY <1>1, <1>2, <1>3, PTL DEF Spec

(* In any tree of classes the scope of an entry is the class or one above it. *)
THEOREM ScopesAreAncestors == Spec => []ScopeIsAncestor
<1>1. Init => Inv
    BY InitInv
<1>2. Inv /\ [Next]_vars => Inv'
    BY NextInv
<1>3. Inv => ScopeIsAncestor
    BY InvIsParts
<1> QED
    BY <1>1, <1>2, <1>3, PTL DEF Spec

(* The slot of a magic method that a class declares itself holds that method: *)
(* the two copies of the fact agree where they matter most.                 *)
THEOREM OwnMagicAlwaysInSlot == Spec => []OwnMagicInSlot
<1>1. Init => Inv
    BY InitInv
<1>2. Inv /\ [Next]_vars => Inv'
    BY NextInv
<1>3. Inv => OwnMagicInSlot
    BY InvIsParts
<1> QED
    BY <1>1, <1>2, <1>3, PTL DEF Spec

-----------------------------------------------------------------------------
(* Overrides survive the calls on other classes.                           *)

LEMMA PutSpares ==
    ASSUME NEW t \in Tables, NEW c \in Class, NEW a \in {c} \cup Super[c], NEW m \in Method,
           NEW fe \in Fun
    PROVE  \A d \in Class \ {c}, x \in Method :
              t[d][x] # None /\ t[d][x].scope = d => PutTable(t, c, a, m, fe)[d][x] = t[d][x]
<1>0. a \in Class
    BY MethodsAssumption
<1> SUFFICES ASSUME NEW d \in Class \ {c}, NEW x \in Method,
                    t[d][x] # None, t[d][x].scope = d
             PROVE  PutTable(t, c, a, m, fe)[d][x] = t[d][x]
    OBVIOUS
<1>1. x = m => d \notin Updated(t, c, a, m)
  <2>1. CASE d \in Below(c)
      BY <2>1, WalksPassOverrides
  <2>2. CASE d \notin Below(c)
      BY <2>2 DEF Updated
  <2> QED
      BY <2>1, <2>2
<1> QED
    BY <1>0, <1>1, PutTableAt

LEMMA TakeSpares ==
    ASSUME NEW t \in Tables, NEW c \in Class, NEW a \in {c} \cup Super[c], NEW m \in Method
    PROVE  \A d \in Class \ {c}, x \in Method :
              t[d][x] # None /\ t[d][x].scope = d => TakeTable(t, c, a, m)[d][x] = t[d][x]
<1>0. a \in Class
    BY MethodsAssumption
<1> SUFFICES ASSUME NEW d \in Class \ {c}, NEW x \in Method,
                    t[d][x] # None, t[d][x].scope = d
             PROVE  TakeTable(t, c, a, m)[d][x] = t[d][x]
    OBVIOUS
<1>1. x = m => d \notin Cleaned(t, c, a, m)
  <2>1. CASE d \in Below(c)
      BY <2>1, WalksPassOverrides
  <2>2. CASE d \notin Below(c)
      BY <2>2 DEF Cleaned
  <2> QED
      BY <2>1, <2>2
<1>2. \A e \in Class, y \in Method :
          TakeTable(t, c, a, m)[e][y] =
              IF y = m /\ e \in {c} \cup Cleaned(t, c, a, m) THEN None ELSE t[e][y]
    BY <1>0, TakeTableAt
<1> QED
    BY <1>1, <1>2

LEMMA ChangeSpares ==
    ASSUME Inv, NEW c \in Class, Change(c),
           NEW d \in Class \ {c}, NEW x \in Method, Declares(d, x)
    PROVE  table'[d][x] = table[d][x]
<1>1. table \in Tables
    BY DEF Inv, Sound
<1>2. table[d][x] # None /\ table[d][x].scope = d
    BY DEF Declares
<1>3. ASSUME NEW m \in Method, MethodAdd(c, m) PROVE table'[d][x] = table[d][x]
  <2>1. PICK fe \in Fresh(c, m) : Install(table, slot, c, c, m, fe, None)
      BY <1>3 DEF MethodAdd
  <2>2. fe \in Fun /\ table' = PutTable(table, c, c, m, fe)
      BY <2>1, FreshIs DEF Install
  <2>3. PutTable(table, c, c, m, fe)[d][x] = table[d][x]
      BY <1>1, <1>2, <2>2, PutSpares
  <2> QED
      BY <2>2, <2>3
<1>4. ASSUME NEW m \in Method, MethodAddFatal(c, m) PROVE table'[d][x] = table[d][x]
    BY <1>1, <1>4 DEF MethodAddFatal, Tables
<1>5. ASSUME NEW m \in Method, MethodRedefine(c, m) PROVE table'[d][x] = table[d][x]
  <2> DEFINE a == table[c][m].scope
  <2>1. a \in {c} \cup Super[c]
      BY <1>5, AncestorOfEntry DEF MethodRedefine
  <2>2. PICK fe \in Fresh(c, m) : Install(table, slot, c, a, m, fe, table[c][m])
      BY <1>5 DEF MethodRedefine
  <2>3. fe \in Fun /\ table' = PutTable(table, c, a, m, fe)
      BY <2>2, FreshIs DEF Install
  <2> HIDE DEF a
  <2>4. PutTable(table, c, a, m, fe)[d][x] = table[d][x]
      BY <1>1, <1>2, <2>1, <2>3, PutSpares
  <2> QED
      BY <2>3, <2>4
<1>6. ASSUME NEW m \in Method, MethodRemove(c, m) PROVE table'[d][x] = table[d][x]
  <2>1. table[c][m] \in Fun /\ table[c][m].scope \in {c} \cup Super[c]
      BY <1>6, AncestorOfEntry DEF MethodRemove
  <2>2. TakeTable(table, c, table[c][m].scope, m)[d][x] = table[d][x]
      BY <1>1, <1>2, <2>1, TakeSpares
  <2> QED
      BY <1>6, <2>2 DEF MethodRemove
<1>7. ASSUME NEW m \in Method, NEW n \in Method, MethodRename(c, m, n)
      PROVE  table'[d][x] = table[d][x]
  <2> DEFINE t0 == [table EXCEPT ![c][n] = None]
             a  == table[c][m].scope
             t  == TakeTable(t0, c, a, m)
  <2>1. table[c][m] \in Fun /\ a \in {c} \cup Super[c] /\ a \in Class
      BY <1>7, AncestorOfEntry, MethodsAssumption DEF MethodRename
  <2>2. t0 \in Tables /\ t0[d][x] = table[d][x]
      BY <1>1 DEF Tables
  <2>5. PICK new \in Fresh(c, n) : table' = PutTable(t, c, c, n, new)
      BY <1>7 DEF MethodRename, Install
  <2>6. new \in Fun
      BY FreshIs
  <2> HIDE DEF t0, a
  <2>3. t[d][x] = table[d][x]
    <3>1. \A e \in Class \ {c}, y \in Method :
              t0[e][y] # None /\ t0[e][y].scope = e => t[e][y] = t0[e][y]
        BY <2>1, <2>2, TakeSpares
    <3> QED
        BY <1>2, <2>2, <3>1
  <2>4. t \in Tables
      BY <2>1, <2>2, TakeTableAt
  <2> HIDE DEF t
  <2>7. \A e \in Class \ {c}, y \in Method :
            t[e][y] # None /\ t[e][y].scope = e => PutTable(t, c, c, n, new)[e][y] = t[e][y]
      BY <2>4, <2>6, PutSpares
  <2> QED
      BY <1>2, <2>3, <2>5, <2>7
<1> QED
    BY <1>3, <1>4, <1>5, <1>6, <1>7 DEF Change, MethodRenameToSelf, MethodCopy

(* Only a call on a class changes what it declares itself.                 *)
THEOREM OverridesAlwaysSurvive == Spec => OverridesSurvive
<1>1. Init => Inv
    BY InitInv
<1>2. Inv /\ [Next]_vars => Inv'
    BY NextInv
<1>3. Inv /\ [Next]_vars =>
          [\A d \in Class, m \in Method :
              Declares(d, m) /\ table'[d][m] # table[d][m] => Change(d)]_vars
  <2> SUFFICES ASSUME Inv, [Next]_vars, NEW d \in Class, NEW m \in Method,
                      Declares(d, m), table'[d][m] # table[d][m]
               PROVE  Change(d)
      OBVIOUS
  <2>1. PICK c \in Class : Change(c)
      BY DEF Next, Reflect, Call, Return, vars
  <2>2. c # d => table'[d][m] = table[d][m]
      BY <2>1, ChangeSpares
  <2> QED
      BY <2>1, <2>2
<1> QED
    BY <1>1, <1>2, <1>3, PTL DEF Spec, OverridesSurvive

-----------------------------------------------------------------------------
(* Redefinition against removal and addition.                              *)

(* The walk down of the removal reaches only classes the update would give *)
(* the new function to, and those it empties the update of the addition    *)
(* fills again.                                                            *)
LEMMA PutAfterTake ==
    ASSUME NEW t \in Tables, NEW c \in Class, NEW m \in Method, NEW fe \in Fun
    PROVE  PutTable(TakeTable(t, c, c, m), c, c, m, fe) = PutTable(t, c, c, m, fe)
<1> DEFINE u == TakeTable(t, c, c, m)
<1>1. /\ u \in Tables
      /\ \A d \in Class, x \in Method :
            u[d][x] = IF x = m /\ d \in {c} \cup Cleaned(t, c, c, m) THEN None ELSE t[d][x]
    BY TakeTableAt
<1>2. Cleaned(t, c, c, m) \subseteq Updated(t, c, c, m)
    BY DEF Cleaned, Updated, Path
<1> HIDE DEF u
<1>3. Updated(u, c, c, m) = Updated(t, c, c, m)
  <2>1. \A d \in Below(c) : d \in Class /\ d # c
      BY WalksGoDown
  <2>2. \A d \in Below(c) :
            u[d][m] = IF d \in Cleaned(t, c, c, m) THEN None ELSE t[d][m]
      BY <1>1, <2>1
  <2> QED
      BY <1>2, <2>2 DEF Updated
<1>4. \A v \in Tables : \A d \in Class, x \in Method :
          PutTable(v, c, c, m, fe)[d][x] =
              IF x = m /\ d \in {c} \cup Updated(v, c, c, m) THEN fe ELSE v[d][x]
    BY PutTableAt
<1>5. \A d \in Class, x \in Method :
          PutTable(u, c, c, m, fe)[d][x] = PutTable(t, c, c, m, fe)[d][x]
    BY <1>1, <1>2, <1>3, <1>4
<1>6. PutTable(u, c, c, m, fe) \in Tables /\ PutTable(t, c, c, m, fe) \in Tables
    BY <1>1, PutTableAt
<1>7. \A v, w \in Tables :
          (\A d \in Class, x \in Method : v[d][x] = w[d][x]) => v = w
    BY DEF Tables
<1> QED
    BY <1>5, <1>6, <1>7 DEF u

(* Redefining an own method leaves the tables as removal then addition do. *)
THEOREM RedefinitionIsRemovalThenAddition == Spec => []RedefineIsRemoveThenAdd
<1>1. Init => Inv
    BY InitInv
<1>2. Inv /\ [Next]_vars => Inv'
    BY NextInv
<1>3. Inv => RedefineIsRemoveThenAdd
    BY PutAfterTake, FreshIs DEF Inv, Sound, RedefineIsRemoveThenAdd
<1> QED
    BY <1>1, <1>2, <1>3, PTL DEF Spec

-----------------------------------------------------------------------------
(* Reflection objects: what stays a reflected function stays in the table. *)

LEMMA PutKeepsTheRest ==
    ASSUME NEW t \in Tables, NEW c \in Class, NEW a \in Class, NEW m \in Method, NEW fe \in Fun
    PROVE  \A d \in Class, x \in Method :
              t[d][x] # None /\ t[d][x] \notin Deleted(t, {c} \cup Updated(t, c, a, m), m)
                  => PutTable(t, c, a, m, fe)[d][x] = t[d][x]
<1>1. \A d \in Class, x \in Method :
          PutTable(t, c, a, m, fe)[d][x] =
              IF x = m /\ d \in {c} \cup Updated(t, c, a, m) THEN fe ELSE t[d][x]
    BY PutTableAt
<1> QED
    BY <1>1 DEF Deleted

LEMMA TakeKeepsTheRest ==
    ASSUME NEW t \in Tables, NEW c \in Class, NEW a \in Class, NEW m \in Method
    PROVE  \A d \in Class, x \in Method :
              t[d][x] # None /\ t[d][x] \notin Deleted(t, {c} \cup Cleaned(t, c, a, m), m)
                  => TakeTable(t, c, a, m)[d][x] = t[d][x]
<1>1. \A d \in Class, x \in Method :
          TakeTable(t, c, a, m)[d][x] =
              IF x = m /\ d \in {c} \cup Cleaned(t, c, a, m) THEN None ELSE t[d][x]
    BY TakeTableAt
<1> QED
    BY <1>1 DEF Deleted

LEMMA StillReflected ==
    ASSUME Inv, ReflectionAlive, NEW gone, reflected' = Reflected(gone),
           \A d \in Class, x \in Method :
               table[d][x] # None /\ table[d][x] \notin gone => table'[d][x] = table[d][x]
    PROVE  ReflectionAlive'
<1> SUFFICES ASSUME reflected' # None PROVE reflected' \in Live'
    BY DEF ReflectionAlive
<1>1. reflected' = reflected /\ reflected \notin gone /\ reflected \in Live
    BY DEF Reflected, ReflectionAlive
<1>2. PICK d \in Class, x \in Method : table[d][x] = reflected /\ reflected # None
    BY <1>1 DEF Live, Entries
<1>3. table'[d][x] = reflected'
    BY <1>1, <1>2
<1> QED
    BY <1>1, <1>2, <1>3 DEF Live, Entries

LEMMA ChangeKeepsReflection ==
    ASSUME Inv, ReflectionAlive, NEW c \in Class, Change(c)
    PROVE  ReflectionAlive'
<1>1. table \in Tables
    BY DEF Inv, Sound
<1>2. ASSUME NEW m \in Method, MethodAdd(c, m) PROVE ReflectionAlive'
  <2>0. PICK fe \in Fresh(c, m) : Install(table, slot, c, c, m, fe, None)
      BY <1>2 DEF MethodAdd
  <2> DEFINE gone == Deleted(table, {c} \cup Updated(table, c, c, m), m)
  <2>1. fe \in Fun /\ table' = PutTable(table, c, c, m, fe)
      BY <2>0, FreshIs DEF Install
  <2>2. \A d \in Class, x \in Method :
            table[d][x] # None /\ table[d][x] \notin gone => table'[d][x] = table[d][x]
      BY <1>1, <2>1, PutKeepsTheRest
  <2>3. reflected' = Reflected(gone)
      BY <1>2 DEF MethodAdd
  <2> QED
      BY <2>2, <2>3, StillReflected
<1>3. ASSUME NEW m \in Method, MethodAddFatal(c, m) PROVE ReflectionAlive'
  <2>1. \A d \in Class, x \in Method :
            table[d][x] # None /\ table[d][x] \notin {table[c][m]}
                => table'[d][x] = table[d][x]
      BY <1>1, <1>3 DEF MethodAddFatal, Tables
  <2> QED
      BY <1>3, <2>1, StillReflected DEF MethodAddFatal
<1>4. ASSUME NEW m \in Method, MethodRedefine(c, m) PROVE ReflectionAlive'
  <2> DEFINE a    == table[c][m].scope
             gone == Deleted(table, {c} \cup Updated(table, c, a, m), m)
  <2>1. a \in Class
      BY <1>4, AncestorOfEntry, MethodsAssumption DEF MethodRedefine
  <2>0. PICK fe \in Fresh(c, m) : Install(table, slot, c, a, m, fe, table[c][m])
      BY <1>4 DEF MethodRedefine
  <2>2. fe \in Fun /\ table' = PutTable(table, c, a, m, fe)
      BY <2>0, FreshIs DEF Install
  <2>3. \A d \in Class, x \in Method :
            table[d][x] # None /\ table[d][x] \notin gone => table'[d][x] = table[d][x]
      BY <1>1, <2>1, <2>2, PutKeepsTheRest
  <2>4. reflected' = Reflected(gone)
      BY <1>4 DEF MethodRedefine
  <2> QED
      BY <2>3, <2>4, StillReflected
<1>5. ASSUME NEW m \in Method, MethodRemove(c, m) PROVE ReflectionAlive'
  <2> DEFINE a    == table[c][m].scope
             gone == Deleted(table, {c} \cup Cleaned(table, c, a, m), m)
  <2>1. a \in Class /\ table[c][m] \in Fun
      BY <1>5, AncestorOfEntry, MethodsAssumption DEF MethodRemove
  <2>2. table' = TakeTable(table, c, a, m)
      BY <1>5 DEF MethodRemove
  <2>3. \A d \in Class, x \in Method :
            table[d][x] # None /\ table[d][x] \notin gone => table'[d][x] = table[d][x]
      BY <1>1, <2>1, <2>2, TakeKeepsTheRest
  <2>4. reflected' = Reflected(gone)
      BY <1>5 DEF MethodRemove
  <2> QED
      BY <2>3, <2>4, StillReflected
<1>6. ASSUME NEW m \in Method, NEW n \in Method, MethodRename(c, m, n)
      PROVE  ReflectionAlive'
  <2> DEFINE a    == table[c][m].scope
             t0   == [table EXCEPT ![c][n] = None]
             t    == TakeTable(t0, c, a, m)
             gone == Deleted(table, {c} \cup Cleaned(table, c, a, m), m)
                     \cup Deleted(table, {c} \cup Updated(t, c, c, n), n)
  <2>1. a \in Class /\ m # n
      BY <1>6, AncestorOfEntry, MethodsAssumption DEF MethodRename
  <2>2. /\ t0 \in Tables
        /\ \A d \in Class, x \in Method :
              t0[d][x] = IF x = n /\ d = c THEN None ELSE table[d][x]
      BY <1>1 DEF Tables
  <2>3. Cleaned(t0, c, a, m) = Cleaned(table, c, a, m)
      BY <1>1, <2>1, <2>2, MethodsAssumption DEF Cleaned, Path, Below
  <2>5. PICK new \in Fresh(c, n) : table' = PutTable(t, c, c, n, new)
      BY <1>6 DEF MethodRename, Install
  <2>6. reflected' = Reflected(gone)
      BY <1>6 DEF MethodRename
  <2> HIDE DEF t0, a
  <2>4. /\ t \in Tables
        /\ \A d \in Class, x \in Method :
              t[d][x] = IF x = m /\ d \in {c} \cup Cleaned(t0, c, a, m)
                        THEN None ELSE t0[d][x]
      BY <2>1, <2>2, TakeTableAt
  <2> HIDE DEF t
  <2>0. new \in Fun
      BY FreshIs
  <2>7. \A d \in Class, x \in Method :
            table'[d][x] = IF x = n /\ d \in {c} \cup Updated(t, c, c, n)
                           THEN new ELSE t[d][x]
      BY <2>0, <2>4, <2>5, PutTableAt
  <2>8. \A d \in Class, x \in Method :
            table[d][x] # None /\ table[d][x] \notin gone => table'[d][x] = table[d][x]
    <3> SUFFICES ASSUME NEW d \in Class, NEW x \in Method,
                        table[d][x] # None, table[d][x] \notin gone
                 PROVE  table'[d][x] = table[d][x]
        OBVIOUS
    <3>1. ~(x = m /\ d \in {c} \cup Cleaned(table, c, a, m))
        BY DEF Deleted
    <3>2. ~(x = n /\ d \in {c} \cup Updated(t, c, c, n))
        BY DEF Deleted
    <3>3. t[d][x] = t0[d][x]
        BY <2>3, <2>4, <3>1
    <3> QED
        BY <2>2, <2>7, <3>2, <3>3
  <2> QED
      BY <2>6, <2>8, StillReflected
<1> QED
    BY <1>2, <1>3, <1>4, <1>5, <1>6 DEF Change, MethodRenameToSelf, MethodCopy

(* No ReflectionMethod object ever refers to a function that was freed.    *)
THEOREM ReflectionStaysAlive == Spec => []ReflectionAlive
<1>1. Init => Inv /\ ReflectionAlive
    BY InitInv DEF Init, ReflectionAlive
<1>2. Inv /\ ReflectionAlive /\ [Next]_vars => (Inv /\ ReflectionAlive)'
  <2> SUFFICES ASSUME Inv, ReflectionAlive, [Next]_vars PROVE (Inv /\ ReflectionAlive)'
      OBVIOUS
  <2>1. Inv'
      BY NextInv
  <2>2. ASSUME NEW c \in Class, Change(c) PROVE ReflectionAlive'
      BY <2>2, ChangeKeepsReflection
  <2>3. ASSUME NEW c \in Class, NEW m \in Method, Reflect(c, m) PROVE ReflectionAlive'
      BY <2>3 DEF Reflect, ReflectionAlive, Live, Entries
  <2>4. ASSUME UNCHANGED <<table, reflected>> PROVE ReflectionAlive'
      BY <2>4 DEF ReflectionAlive, Live, Entries
  <2>5. \/ \E c \in Class : Change(c)
        \/ \E c \in Class, m \in Method : Reflect(c, m)
        \/ UNCHANGED <<table, reflected>>
      BY DEF Next, Call, Return, vars
  <2>6. ReflectionAlive'
      BY <2>2, <2>3, <2>4, <2>5
  <2> QED
      BY <2>1, <2>6
<1> QED
    BY <1>1, <1>2, PTL DEF Spec

-----------------------------------------------------------------------------
(* Prototypes.                                                             *)

(* The prototype looked up for a method of c is an entry of a class above. *)
LEMMA PrototypeFacts ==
    ASSUME NEW t \in Tables, Named(t), Scoped(t), NEW c \in Class, NEW m \in Method,
           Prototype(t, c, m) # None
    PROVE  /\ Prototype(t, c, m) \in Entries(t)
           /\ Prototype(t, c, m).name = m
           /\ Prototype(t, c, m).scope \in Super[c]
<1> DEFINE having  == { p \in Super[c] : t[p][m] # None }
           nearest == { p \in having : having \ {p} \subseteq Super[p] }
<1>1. PICK p \in having : Prototype(t, c, m) = t[p][m]
    BY DEF Prototype
<1>2. p \in Class /\ p \in Super[c] /\ t[p][m] # None
    BY <1>1, MethodsAssumption
<1>3. t[p][m].name = m /\ t[p][m].scope \in {p} \cup Super[p]
    BY <1>2 DEF Named, Scoped
<1>4. Super[p] \subseteq Super[c]
    BY <1>2, MethodsAssumption
<1> QED
    BY <1>1, <1>2, <1>3, <1>4 DEF Entries

(* The functions whose prototype an Install looks up anew.                 *)
Anew(t, c, a, m, fe) == {fe} \cup ({ t[d][m] : d \in Below(c) \ Updated(t, c, a, m) } \ {None})

LEMMA PutProtoAt ==
    ASSUME NEW t, NEW p, NEW c, NEW a, NEW m, NEW fe, NEW f \in Fun
    PROVE  PutProto(t, p, c, a, m, fe)[f] =
               IF f \notin Entries(PutTable(t, c, a, m, fe)) THEN None
               ELSE IF f \in Anew(t, c, a, m, fe)
                    THEN Prototype(PutTable(t, c, a, m, fe), f.scope, m) ELSE p[f]
    BY DEF PutProto, Anew

LEMMA InstallProtos ==
    ASSUME Inv, ProtosAbove, NEW t, NEW s, Sound(t, s), NEW c \in Class,
           NEW a \in {c} \cup Super[c], NEW m \in Method, NEW fe \in Fresh(c, m),
           NEW orig_fe \in Fun \cup {None}, Install(t, s, c, a, m, fe, orig_fe)
    PROVE  ProtosAbove'
<1>1. fe \in Fun /\ fe.scope = c /\ fe.name = m
    BY FreshIs
<1> DEFINE after == PutTable(t, c, a, m, fe)
<1>2. after \in Tables /\ Named(after) /\ Scoped(after)
    BY <1>1, PutKeepsSound DEF Sound
<1>3. \A f \in Anew(t, c, a, m, fe) : f.name = m
    BY <1>1 DEF Anew, Sound, Named, Below
<1> HIDE DEF after
<1> SUFFICES ASSUME NEW f \in Fun, proto'[f] # None
             PROVE  proto'[f].name = f.name /\ proto'[f].scope \in Super[f.scope]
    BY DEF ProtosAbove
<1>4. proto'[f] = IF f \notin Entries(after) THEN None
                  ELSE IF f \in Anew(t, c, a, m, fe) THEN Prototype(after, f.scope, m)
                       ELSE proto[f]
    BY PutProtoAt DEF Install, after
<1>5. CASE f \in Anew(t, c, a, m, fe)
    BY <1>2, <1>3, <1>4, <1>5, PrototypeFacts, NoneIsNoFunction
<1>6. CASE f \notin Anew(t, c, a, m, fe)
    BY <1>4, <1>6 DEF ProtosAbove
<1> QED
    BY <1>5, <1>6

LEMMA FewerProtos ==
    ASSUME ProtosAbove, NEW kept, proto' = [f \in Fun |-> IF f \in kept THEN proto[f] ELSE None]
    PROVE  ProtosAbove'
    BY DEF ProtosAbove

LEMMA ChangeProtos ==
    ASSUME Inv, ProtosAbove, NEW c \in Class, Change(c)
    PROVE  ProtosAbove'
<1>1. ASSUME NEW m \in Method, MethodAdd(c, m) PROVE ProtosAbove'
  <2>1. PICK fe \in Fresh(c, m) : Install(table, slot, c, c, m, fe, None)
      BY <1>1 DEF MethodAdd
  <2> QED
      BY <2>1, InstallProtos DEF Inv
<1>2. ASSUME NEW m \in Method, MethodAddFatal(c, m) PROVE ProtosAbove'
    BY <1>2, FewerProtos DEF MethodAddFatal
<1>3. ASSUME NEW m \in Method, MethodRedefine(c, m) PROVE ProtosAbove'
  <2>1. table[c][m] \in Fun /\ table[c][m].scope \in {c} \cup Super[c]
      BY <1>3, AncestorOfEntry DEF MethodRedefine
  <2>2. PICK fe \in Fresh(c, m) : Install(table, slot, c, table[c][m].scope, m, fe, table[c][m])
      BY <1>3 DEF MethodRedefine
  <2> QED
      BY <2>1, <2>2, InstallProtos DEF Inv
<1>4. ASSUME NEW m \in Method, MethodRemove(c, m) PROVE ProtosAbove'
    BY <1>4, FewerProtos DEF MethodRemove
<1>5. ASSUME NEW m \in Method, NEW n \in Method, MethodRename(c, m, n) PROVE ProtosAbove'
  <2> DEFINE fe == table[c][m]
             a  == fe.scope
             t0 == [table EXCEPT ![c][n] = None]
             t  == TakeTable(t0, c, a, m)
             s  == TakeSlot(t0, slot, c, a, m, fe)
  <2>1. fe \in Fun /\ a \in {c} \cup Super[c]
      BY <1>5, AncestorOfEntry DEF MethodRename
  <2>2. Sound(t0, slot)
      BY DropKeepsSound DEF Inv
  <2>3. Sound(t, s)
      BY <2>1, <2>2, TakeKeepsSound
  <2>4. PICK new \in Fresh(c, n) : Install(t, s, c, c, n, new, None)
      BY <1>5 DEF MethodRename
  <2> QED
      BY <2>3, <2>4, InstallProtos
<1> QED
    BY <1>1, <1>2, <1>3, <1>4, <1>5 DEF Change, MethodRenameToSelf, MethodCopy

LEMMA InvProtos == Spec => [](Inv /\ ProtosAbove)
<1>1. Init => Inv /\ ProtosAbove
    BY InitInv DEF Init, ProtosAbove
<1>2. Inv /\ ProtosAbove /\ [Next]_vars => (Inv /\ ProtosAbove)'
  <2> SUFFICES ASSUME Inv, ProtosAbove, [Next]_vars PROVE (Inv /\ ProtosAbove)'
      OBVIOUS
  <2>1. Inv'
      BY NextInv
  <2>2. ASSUME NEW c \in Class, Change(c) PROVE ProtosAbove'
      BY <2>2, ChangeProtos
  <2>3. ASSUME UNCHANGED proto PROVE ProtosAbove'
      BY <2>3 DEF ProtosAbove
  <2>4. (\E c \in Class : Change(c)) \/ UNCHANGED proto
      BY DEF Next, Reflect, Call, Return, vars
  <2> QED
      BY <2>1, <2>2, <2>3, <2>4
<1> QED
    BY <1>1, <1>2, PTL DEF Spec

(* However a tree of classes is changed, a prototype has the method's name *)
(* and comes from a strict ancestor of its class: what ReflectionMethod's  *)
(* getPrototype follows always ends.                                       *)
THEOREM PrototypesAreAbove == Spec => []ProtosAbove
    BY InvProtos, PTL

(* A redefinition of an own method frees functions of that class and name  *)
(* only; whoever has one for a prototype is an override below, and gets it *)
(* anew.                                                                   *)
LEMMA RedefineProtos ==
    ASSUME Inv, ProtosAbove, ProtosAlive, NEW c \in Class, NEW m \in Method,
           Declares(c, m), MethodRedefine(c, m)
    PROVE  ProtosAlive'
<1>1. table[c][m] \in Fun /\ table[c][m].scope = c
    BY AncestorOfEntry DEF MethodRedefine, Declares
<1>2. PICK fe \in Fresh(c, m) : Install(table, slot, c, c, m, fe, table[c][m])
    BY <1>1 DEF MethodRedefine
<1>3. fe \in Fun /\ table \in Tables /\ Sound(table, slot) /\ Sound(table', slot')
    BY <1>1, <1>2, FreshIs, InstallInv DEF Inv, Sound
<1>4. \A d \in Class, x \in Method :
         table'[d][x] = IF x = m /\ d \in {c} \cup Updated(table, c, c, m) THEN fe ELSE table[d][x]
    BY <1>2, <1>3, PutTableAt DEF Install
<1>5. Live' = Entries(table')
    BY DEF Live, Entries
<1> SUFFICES ASSUME NEW f \in Live', proto'[f] # None, proto'[f] \notin Live'
             PROVE  FALSE
    BY DEF ProtosAlive
<1>6. PICK e \in Class, x \in Method : f = table'[e][x] /\ f # None
    BY <1>5 DEF Entries
<1>7. f \in Fun /\ f.scope \in Class
    BY <1>3, <1>6, NoneIsNoFunction DEF Sound, Tables
<1>8. proto'[f] = IF f \in Anew(table, c, c, m, fe) THEN Prototype(table', f.scope, m) ELSE proto[f]
    BY <1>2, <1>5, <1>7, PutProtoAt DEF Install
<1>9. f \notin Anew(table, c, c, m, fe)
    BY <1>3, <1>5, <1>7, <1>8, PrototypeFacts DEF Sound
<1>10. /\ f = table[e][x]
       /\ ~(x = m /\ e \in {c} \cup Updated(table, c, c, m))
       /\ proto'[f] = proto[f]
    BY <1>4, <1>6, <1>8, <1>9 DEF Anew
<1>11. proto[f] \in Live /\ proto[f] # None
    BY <1>6, <1>10 DEF ProtosAlive, Live, Entries
<1>12. PICK d \in Class, y \in Method : proto[f] = table[d][y] /\ table[d][y] # None
    BY <1>11 DEF Live, Entries
<1>13. y = m /\ d \in {c} \cup Updated(table, c, c, m)
    BY <1>4, <1>5, <1>10, <1>11, <1>12 DEF Entries
<1>14. proto[f].scope = c /\ proto[f].name = m
    BY <1>1, <1>3, <1>12, <1>13 DEF Updated, Sound, Named
<1>15. f.name = m /\ c \in Super[f.scope]
    BY <1>7, <1>11, <1>14 DEF ProtosAbove
<1>16. x = m /\ f.scope \in {e} \cup Super[e]
    BY <1>3, <1>6, <1>10, <1>15 DEF Sound, Named, Scoped
<1>17. e \in Below(c)
    BY <1>15, <1>16, MethodsAssumption DEF Below
<1> QED
    BY <1>6, <1>9, <1>10, <1>16, <1>17 DEF Anew

(* Redefining an own method leaves no override with a freed prototype.     *)
THEOREM RedefinitionKeepsProtos == Spec => RedefineKeepsProtos
<1>1. Inv /\ ProtosAbove =>
         [ProtosAlive /\ ~ProtosAlive' =>
             ~(\E c \in Class, m \in Method : Declares(c, m) /\ MethodRedefine(c, m))]_vars
    BY RedefineProtos
<1> QED
    BY <1>1, InvProtos, PTL DEF Spec, RedefineKeepsProtos

(* A redefinition frees functions of one class and name only.              *)
LEMMA RedefinitionFrees ==
    ASSUME Inv, NEW c \in Class, NEW m \in Method, MethodRedefine(c, m),
           NEW f \in Live, f \notin Live'
    PROVE  f.scope = table[c][m].scope /\ f.name = m
<1> DEFINE a == table[c][m].scope
<1>1. table[c][m] \in Fun /\ a \in Class
    BY AncestorOfEntry, NoneIsNoFunction DEF MethodRedefine
<1>2. PICK fe \in Fresh(c, m) : table' = PutTable(table, c, a, m, fe)
    BY DEF MethodRedefine, Install
<1>3. PICK e \in Class, x \in Method : f = table[e][x] /\ f # None
    BY DEF Live, Entries
<1>4. table \in Tables /\ fe \in Fun
    BY FreshIs DEF Inv, Sound
<1>5. table'[e][x] # f
    BY <1>3 DEF Live, Entries
<1>6. x = m /\ e \in {c} \cup Updated(table, c, a, m)
    BY <1>1, <1>2, <1>3, <1>4, <1>5, PutTableAt
<1>7. f.scope = a
    BY <1>3, <1>6 DEF Updated
<1> QED
    BY <1>3, <1>6, <1>7 DEF Inv, Sound, Named

(* For any tree: a redefinition of a method, of its own class or through a *)
(* class that inherits it, never frees the running one while the class of  *)
(* that has it.  The walk starts at the class or below it, so it can only  *)
(* meet the function in its own class if that is the one just checked.     *)
THEOREM RedefinitionSparesDeclared == Spec => RedefineSparesDeclared
<1>1. ASSUME Inv, ActiveDeclared, ~ActiveAlive',
             NEW c \in Class, NEW m \in Method, MethodRedefine(c, m)
      PROVE  FALSE
  <2> DEFINE a == table[c][m].scope
  <2>1. /\ table[c][m] \in Fun /\ a \in Class /\ a \in {c} \cup Super[c]
        /\ active' = active /\ active # table[c][m]
      BY <1>1, AncestorOfEntry, NoneIsNoFunction DEF MethodRedefine, RunsNow
  <2>2. active \in Fun /\ active.scope \in Class /\ active.name \in Method
      BY <1>1, MethodsAssumption DEF Inv, ActiveDeclared, Fun
  <2>3. active \in Live /\ active \notin Live'
      BY <1>1, <2>1, <2>2 DEF ActiveDeclared, ActiveAlive, Live, Entries
  <2>4. active.scope = a /\ active.name = m
      BY <1>1, <2>3, RedefinitionFrees
  <2>5. table[a][m] = active /\ a # c
      BY <1>1, <2>1, <2>4 DEF ActiveDeclared
  <2>6. a \notin {c} \cup Updated(table, c, a, m)
      BY <2>1, <2>5, MethodsAssumption DEF Updated, Below
  <2>7. table'[a][m] = active
    <3>1. PICK fe \in Fresh(c, m) : table' = PutTable(table, c, a, m, fe)
        BY <1>1 DEF MethodRedefine, Install
    <3>2. table \in Tables /\ fe \in Fun
        BY <1>1, FreshIs DEF Inv, Sound
    <3> QED
        BY <2>1, <2>5, <2>6, <3>1, <3>2, PutTableAt
  <2> QED
      BY <1>1, <2>1, <2>3, <2>7 DEF ActiveDeclared, Live, Entries
<1>2. Inv =>
         [ActiveDeclared /\ ~ActiveAlive' =>
             ~(\E c \in Class, m \in Method : MethodRedefine(c, m))]_vars
    BY <1>1
<1> QED
    BY <1>2, InitInv, NextInv, PTL DEF Spec, RedefineSparesDeclared

=============================================================================
