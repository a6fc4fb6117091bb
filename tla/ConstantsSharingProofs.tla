------------------------ MODULE ConstantsSharingProofs ------------------------
(* Which class shares an entry with which, and what follows for the cases  *)
(* of an enum and for the call sites that hold an entry of old.             *)
EXTENDS ConstantsProofs

(* The object a class has for a constant carries that name, and is its own, *)
(* an ancestor's or an interface's.                                         *)
Sharing ==
    \A c \in Class, k \in Const :
        LET o == constants_table[c][k]
        IN  o # None => /\ c \in declared
                        /\ o.name = k
                        /\ o.ce = c \/ o.ce \in Super[c] \/ o.ce \in Interface

(* A class has a constant the classes below it inherit.                     *)
Offers(c, k) == constants_table[c][k] # None /\ heap[constants_table[c][k]].access # "private"

(* What an add to p leaves behind, and no later step breaks while c keeps   *)
(* the entry it was given: c and p agree, and every class below p has an    *)
(* entry of its own to offer, so a later add there would be refused.        *)
AddedAbove(c, k, p) ==
    /\ Offers(p, k)
    /\ constants_table[p][k].ce = p
    /\ Seen(c, k) = Seen(p, k)
    /\ \A d \in Below(p) \cap declared : Offers(d, k)

StaleInv ==
    \A c \in Site, k \in Const :
        cached[c][k] \notin {None, constants_table[c][k]} =>
            /\ constants_table[c][k] # None
            /\ constants_table[c][k].ce = c
            /\ \E p \in Super[c] : AddedAbove(c, k, p)

(* Only an enum has a case, and nothing is above or below an enum.          *)
IsEnum(c) == c \notin Interface /\ Super[c] = {} /\ \A d \in Class : c \notin Super[d]
CaseInv ==
    \A c \in Class, k \in Const :
        constants_table[c][k] # None /\ heap[constants_table[c][k]].access = "case" => IsEnum(c)

SharingOK == TypeOK /\ Sharing
-----------------------------------------------------------------------------
LEMMA Entry ==
    ASSUME TypeOK, NEW c \in Class, NEW k \in Const, constants_table[c][k] # None
    PROVE  constants_table[c][k] \in Object /\ constants_table[c][k] \in Referenced
    BY DEF TypeOK, Referenced

LEMMA EmptiedKeepsAccess ==
    ASSUME TypeOK, NEW o \in Object, o \in Referenced
    PROVE  Emptied(o).access = heap[o].access
<1>1. heap[o] \in Content
    BY ContentOfReferenced
<1>2. QED
    BY <1>1 DEF Emptied, Content

(* The objects that were there before an Install or an Uninstall.           *)
LEMMA InstallHeap ==
    ASSUME TypeOK, NEW R \in SUBSET Class, NEW k \in Const, NEW v, NEW a, Install(R, k, v, a),
           NEW o \in Object, o \in Referenced, o \in Referenced'
    PROVE  heap'[o] = IF o \in Entries(R, k) THEN Emptied(o) ELSE heap[o]
<1>1. o \notin { New(d, k) : d \in R }
    BY NewIsFresh DEF Install
<1>2. QED
    BY <1>1 DEF Install, SettleHeap

LEMMA UninstallHeap ==
    ASSUME TypeOK, NEW c \in Class, NEW k \in Const, Uninstall(c, k),
           NEW o \in Object, o \in Referenced'
    PROVE  heap'[o] = IF o = constants_table[c][k] THEN Emptied(o) ELSE heap[o]
    BY DEF Uninstall, SettleHeap

(* A class linked into the table has, for each name, the object of its own  *)
(* declaration, one it inherits, or nothing if there is nothing to inherit. *)
Declares(c, k, own) ==
    /\ constants_table'[c][k] \in Object
    /\ constants_table'[c][k].ce = c
    /\ constants_table'[c][k].name = k
    /\ heap'[constants_table'[c][k]] = own
    /\ MayDeclare(c, k, own)

LEMMA DeclaredEntry ==
    ASSUME TypeOK, NEW c \in Class, DeclareClass(c), NEW k \in Const
    PROVE  /\ Implements[c] \cup ({Parent[c]} \ {None}) \subseteq declared
           /\ \/ \E own \in Own[c][k] : own # None /\ Declares(c, k, own)
              \/ constants_table'[c][k] \in Inherited(c, k)
              \/ constants_table'[c][k] = None /\ Inherited(c, k) = {}
<1>1. PICK own \in [Const -> UNION { Own[c][j] : j \in Const } \cup {None}] :
        /\ Implements[c] \cup ({Parent[c]} \ {None}) \subseteq declared
        /\ \A j \in Const : own[j] \in Own[c][j] \cup {None} /\ MayDeclare(c, j, own[j])
        /\ \A j \in Const : own[j] # None => Fresh(c, j) # {}
        /\ constants_table' =
              [constants_table EXCEPT ![c] = [j \in Const |->
                  IF own[j] # None THEN New(c, j)
                  ELSE IF Inherited(c, j) # {} THEN CHOOSE o \in Inherited(c, j) : TRUE
                  ELSE None]]
        /\ SettleHeap([o \in Object |->
              IF \E j \in Const : own[j] # None /\ o = New(c, j) THEN own[o.name] ELSE heap[o]])
    BY DEF DeclareClass
<1>2. constants_table'[c][k] = IF own[k] # None THEN New(c, k)
                               ELSE IF Inherited(c, k) # {} THEN CHOOSE o \in Inherited(c, k) : TRUE
                               ELSE None
    BY <1>1 DEF TypeOK
<1>3. ASSUME own[k] # None
      PROVE  own[k] \in Own[c][k] /\ Declares(c, k, own[k])
  <2>1. New(c, k) \in Object /\ New(c, k).ce = c /\ New(c, k).name = k
      BY <1>1, <1>3, NewIsFresh
  <2>2. constants_table'[c][k] = New(c, k)
      BY <1>2, <1>3
  <2>3. New(c, k) \in Referenced'
      BY <2>2 DEF Referenced
  <2> DEFINE o == New(c, k)
  <2>4. o \in Object /\ o \in Referenced' /\ o.name = k /\ \E j \in Const : own[j] # None /\ o = New(c, j)
      BY <1>3, <2>1, <2>3
  <2> HIDE DEF o
  <2>5. heap'[o] = own[k]
      BY <1>1, <2>4 DEF SettleHeap
  <2>6. QED
      BY <1>1, <1>3, <2>1, <2>2, <2>5 DEF o, Declares
<1>4. QED
    BY <1>1, <1>2, <1>3
-----------------------------------------------------------------------------
(* Sharing is kept by every step.                                           *)
LEMMA DeclaredReceivers ==
    ASSUME NEW c \in declared, NEW a
    PROVE  Receivers(c, a) \subseteq declared
    BY DEF Receivers

LEMMA InstallSharing ==
    ASSUME SharingOK, NEW R \in SUBSET Class, R \subseteq declared, NEW k \in Const,
           NEW v, NEW a, Install(R, k, v, a), declared' = declared
    PROVE  Sharing'
<1>1. \A d \in R : constants_table'[d][k] = New(d, k) /\ New(d, k).ce = d /\ New(d, k).name = k
    BY NewIsFresh DEF Install, SharingOK, TypeOK
<1>2. \A d \in Class, j \in Const :
         d \notin R \/ j # k => constants_table'[d][j] = constants_table[d][j]
    BY DEF Install, SharingOK, TypeOK
<1>3. QED
    BY <1>1, <1>2 DEF SharingOK, Sharing

LEMMA DeclareSharing ==
    ASSUME SharingOK, NEW c \in Class, DeclareClass(c)
    PROVE  Sharing'
<1>1. declared' = declared \cup {c} /\ \A d \in Class \ {c} : constants_table'[d] = constants_table[d]
    BY DeclareFacts DEF SharingOK
<1>2. ASSUME NEW k \in Const, NEW o, o = constants_table'[c][k], o # None
      PROVE  /\ c \in declared'
             /\ o.name = k
             /\ o.ce = c \/ o.ce \in Super[c] \/ o.ce \in Interface
  <2>1. CASE \E own \in Own[c][k] : own # None /\ Declares(c, k, own)
      BY <1>1, <1>2, <2>1 DEF Declares
  <2>2. CASE o \in Inherited(c, k)
    <3>1. PICK p \in Implements[c] \cup ({Parent[c]} \ {None}) : o = constants_table[p][k] /\ o # None
        BY <2>2 DEF Inherited, ParentEntry, InterfaceEntries
    <3>2. p \in Class
        BY ConstantsAssumption
    <3>3. o.name = k /\ (o.ce = p \/ o.ce \in Super[p] \/ o.ce \in Interface)
        BY <3>1, <3>2 DEF SharingOK, Sharing
    <3>4. CASE p \in Implements[c]
      <4>1. p \in Interface /\ Parent[p] = None
          BY <3>4, ConstantsAssumption
      <4>2. Super[p] = {}
          BY <3>2, <4>1, ConstantsAssumption
      <4>3. QED
          BY <1>1, <3>3, <4>1, <4>2
    <3>5. CASE p = Parent[c] /\ p # None
      <4>1. Super[c] = {p} \cup Super[p]
          BY <3>5, ConstantsAssumption
      <4>2. QED
          BY <1>1, <3>3, <4>1
    <3>6. QED
        BY <3>1, <3>4, <3>5
  <2>3. QED
      BY <1>2, <2>1, <2>2, DeclaredEntry DEF SharingOK
<1>3. QED
    BY <1>1, <1>2 DEF SharingOK, Sharing

LEMMA InitSharing == Init => SharingOK
    BY InitTypeOK DEF Init, SharingOK, Sharing, NoEntries

LEMMA ClassCallSharing ==
    ASSUME SharingOK, NEW x \in Class, ClassCall(x)
    PROVE  Sharing'
<1>1. x \in declared /\ declared' = declared
    BY ClassCallCases DEF SharingOK
<1>2. PICK j \in Const : Installs(x, j) \/ Uninstalls(x, j)
    BY ClassCallCases DEF SharingOK
<1>3. CASE Installs(x, j)
  <2>1. PICK v \in Value, a \in Access : Install(Receivers(x, a), j, v, a)
      BY <1>3 DEF Installs
  <2>2. PICK R \in SUBSET Class : R = Receivers(x, a)
      BY ReceiversInClass
  <2>3. QED
      BY <1>1, <2>1, <2>2, InstallSharing, DeclaredReceivers
<1>4. CASE Uninstalls(x, j)
  <2>1. \A d \in Class, i \in Const :
           constants_table'[d][i] \in {None, constants_table[d][i]}
    BY <1>4 DEF Uninstalls, Uninstall, SharingOK, TypeOK
  <2>2. QED
    BY <1>1, <2>1 DEF SharingOK, Sharing
<1>5. QED
    BY <1>2, <1>3, <1>4

LEMMA NextSharing == SharingOK /\ [Next]_vars => SharingOK'
<1> SUFFICES ASSUME SharingOK, [Next]_vars
             PROVE  SharingOK'
    OBVIOUS
<1>1. TypeOK'
    BY NextTypeOK DEF SharingOK
<1>2. CASE \E x \in Class : ClassCall(x)
    BY <1>1, <1>2, ClassCallSharing DEF SharingOK
<1>3. CASE \E x \in Class : DeclareClass(x)
    BY <1>1, <1>3, DeclareSharing DEF SharingOK
<1>4. CASE UNCHANGED <<constants_table, declared>>
    BY <1>1, <1>4 DEF SharingOK, Sharing
<1>5. CASE \E x \in Site, j \in Const : Fetch(x, j)
    BY <1>4, <1>5 DEF Fetch
<1>6. CASE GlobalCall
    BY <1>4, <1>6 DEF GlobalCall, GlobalAdd, GlobalRemove, GlobalRedefine, class_vars
<1>7. CASE UNCHANGED vars
    BY <1>4, <1>7 DEF vars, class_vars
<1>8. QED
    BY <1>2, <1>3, <1>5, <1>6, <1>7 DEF Next, GlobalCall

-----------------------------------------------------------------------------
(* The cases of an enum.                                                    *)
LEMMA InstallReceivers ==
    ASSUME TypeOK, NEW x \in Class, NEW j \in Const, Installs(x, j)
    PROVE  \E R \in SUBSET Class, v \in Value, a \in Access \ {"case"} :
              /\ R = Receivers(x, a)
              /\ Install(R, j, v, a)
              /\ CachesKeptOrCleared
<1>1. PICK v \in Value, a \in Access \ {"case"} :
         Install(Receivers(x, a), j, v, a) /\ CachesKeptOrCleared
    BY DEF Installs, CachesKeptOrCleared
<1>2. PICK R \in SUBSET Class : R = Receivers(x, a)
    BY ReceiversInClass
<1>3. QED
    BY <1>1, <1>2

(* A call on a class that is no enum, or on another constant, leaves a case *)
(* alone; so does one on the enum, which refuses.                           *)
EntryKept(c, k) ==
    /\ constants_table'[c][k] = constants_table[c][k]
    /\ heap'[constants_table[c][k]] = heap[constants_table[c][k]]

IsCase(c, k) == constants_table[c][k] # None /\ heap[constants_table[c][k]].access = "case"

LEMMA InstallCase ==
    ASSUME TypeOK, CaseInv, NEW x \in Class, NEW j \in Const, Installs(x, j),
           NEW c \in Class, NEW k \in Const, IsCase(c, k)
    PROVE  EntryKept(c, k)
<1>1. PICK R \in SUBSET Class, v \in Value, a \in Access \ {"case"} :
         R = Receivers(x, a) /\ Install(R, j, v, a) /\ CachesKeptOrCleared
    BY InstallReceivers
<1>2. ASSUME NEW d \in R, constants_table[d][j] # None,
             heap[constants_table[d][j]].access = "case"
      PROVE  FALSE
  <2>1. IsEnum(d)
      BY <1>2 DEF CaseInv
  <2>2. d = x
      BY <1>1, <2>1 DEF IsEnum, Receivers, Below
  <2>3. QED
      BY <1>2, <2>2 DEF Installs, Replaceable
<1>3. \A d \in Class, i \in Const :
         d \notin R \/ i # j => constants_table'[d][i] = constants_table[d][i]
    BY <1>1 DEF Install, TypeOK
<1>4. constants_table'[c][k] = constants_table[c][k]
    BY <1>2, <1>3 DEF IsCase
<1>5. constants_table[c][k] \notin Entries(R, j)
    BY <1>2 DEF IsCase, Entries
<1>6. /\ constants_table[c][k] \in Object
      /\ constants_table[c][k] \in Referenced
      /\ constants_table[c][k] \in Referenced'
    BY <1>4, Entry DEF IsCase, Referenced
<1>7. heap'[constants_table[c][k]] = heap[constants_table[c][k]]
    BY <1>1, <1>5, <1>6, InstallHeap
<1>8. QED
    BY <1>4, <1>7 DEF EntryKept

LEMMA UninstallCase ==
    ASSUME TypeOK, NEW x \in Class, NEW j \in Const, Uninstalls(x, j),
           NEW c \in Class, NEW k \in Const, IsCase(c, k)
    PROVE  EntryKept(c, k)
<1>1. constants_table[c][k] # constants_table[x][j]
    BY DEF Uninstalls, Replaceable, IsCase
<1>2. constants_table'[c][k] = constants_table[c][k]
    BY <1>1 DEF Uninstalls, Uninstall, TypeOK
<1>3. constants_table[c][k] \in Object /\ constants_table[c][k] \in Referenced'
    BY <1>2, Entry DEF IsCase, Referenced
<1>4. QED
    BY <1>1, <1>2, <1>3, UninstallHeap DEF Uninstalls, EntryKept

(* The other steps leave alone every entry that is there.                   *)
LEMMA OtherSteps ==
    ASSUME TypeOK, [Next]_vars, ~\E x \in Class : ClassCall(x) \/ DeclareClass(x)
    PROVE  /\ UNCHANGED <<declared, constants_table>>
           /\ \A c \in Class, k \in Const :
                 constants_table[c][k] # None =>
                    heap'[constants_table[c][k]] = heap[constants_table[c][k]]
<1>1. /\ UNCHANGED <<declared, constants_table>>
      /\ SettleHeap(heap) \/ UNCHANGED heap
    BY DEF Next, Fetch, GlobalAdd, GlobalRemove, GlobalRedefine, vars, class_vars
<1>2. ASSUME NEW c \in Class, NEW k \in Const, constants_table[c][k] # None
      PROVE  heap'[constants_table[c][k]] = heap[constants_table[c][k]]
  <2>1. constants_table[c][k] \in Object /\ constants_table[c][k] \in Referenced'
      BY <1>1, <1>2, Entry DEF Referenced
  <2>2. QED
      BY <1>1, <2>1 DEF SettleHeap
<1>3. QED
    BY <1>1, <1>2

LEMMA DeclareKeeps ==
    ASSUME TypeOK, NEW x \in Class, DeclareClass(x), NEW c \in Class, NEW k \in Const,
           constants_table[c][k] # None, c # x
    PROVE  EntryKept(c, k)
<1>1. constants_table'[c][k] = constants_table[c][k]
    BY DeclareFacts
<1>2. /\ constants_table[c][k] \in Object
      /\ constants_table[c][k] \in Referenced
      /\ constants_table[c][k] \in Referenced'
    BY <1>1, Entry DEF Referenced
<1>3. QED
    BY <1>1, <1>2, DeclareFacts DEF EntryKept

(* A class not linked yet has no entries.                                   *)
LEMMA UndeclaredEmpty ==
    ASSUME Sharing, NEW c \in Class, c \notin declared, NEW k \in Const
    PROVE  constants_table[c][k] = None
    BY DEF Sharing

LEMMA CaseSteps ==
    ASSUME SharingOK, CaseInv, [Next]_vars, NEW c \in Class, NEW k \in Const, IsCase(c, k)
    PROVE  EntryKept(c, k)
<1>1. CASE \E x \in Class : ClassCall(x)
  <2>1. PICK x \in Class, j \in Const : Installs(x, j) \/ Uninstalls(x, j)
      BY <1>1, ClassCallCases DEF SharingOK
  <2>2. QED
      BY <2>1, InstallCase, UninstallCase DEF SharingOK
<1>2. CASE \E x \in Class : DeclareClass(x)
  <2>1. PICK x \in Class : DeclareClass(x)
      BY <1>2
  <2>2. c # x
      BY <2>1, UndeclaredEmpty DEF IsCase, SharingOK, DeclareClass
  <2>3. QED
      BY <2>1, <2>2, DeclareKeeps DEF IsCase, SharingOK
<1>3. CASE ~\E x \in Class : ClassCall(x) \/ DeclareClass(x)
    BY <1>3, OtherSteps DEF EntryKept, IsCase, SharingOK
<1>4. QED
    BY <1>1, <1>2, <1>3

(* No step makes a case outside an enum.                                    *)
LEMMA DeclaredCase ==
    ASSUME SharingOK, CaseInv, NEW c \in Class, DeclareClass(c), NEW k \in Const, IsCase(c, k)'
    PROVE  IsEnum(c)
<1>1. CASE \E own \in Own[c][k] : own # None /\ Declares(c, k, own)
  <2>1. PICK own \in Own[c][k] : own.access = "case"
      BY <1>1 DEF Declares, IsCase
  <2>2. c \notin Interface /\ Parent[c] = None /\ \A d \in Class : c \notin Super[d]
      BY <2>1, ConstantsAssumption
  <2>3. QED
      BY <2>2, ConstantsAssumption DEF IsEnum
<1>2. CASE constants_table'[c][k] \in Inherited(c, k)
  <2>1. PICK p \in Implements[c] \cup ({Parent[c]} \ {None}) :
           constants_table'[c][k] = constants_table[p][k] /\ constants_table[p][k] # None
      BY <1>2 DEF Inherited, ParentEntry, InterfaceEntries
  <2>2. p \in Class
      BY ConstantsAssumption
  <2>3. p \in declared
      BY DeclaredEntry DEF SharingOK
  <2>4. EntryKept(p, k)
      BY <2>1, <2>2, <2>3, DeclareKeeps DEF SharingOK, DeclareClass
  <2>5. IsEnum(p)
      BY <2>1, <2>2, <2>4 DEF EntryKept, IsCase, CaseInv
  <2>6. p = Parent[c] /\ p # None
      BY <2>1, <2>5, ConstantsAssumption DEF IsEnum
  <2>7. p \in Super[c]
      BY <2>6, ConstantsAssumption
  <2>8. QED
      BY <2>5, <2>7 DEF IsEnum
<1>3. QED
    BY <1>1, <1>2, DeclaredEntry DEF IsCase, SharingOK

LEMMA InstallMakesNoCase ==
    ASSUME TypeOK, CaseInv, NEW x \in Class, NEW j \in Const, Installs(x, j)
    PROVE  CaseInv'
<1>1. PICK R \in SUBSET Class, v \in Value, a \in Access \ {"case"} :
         R = Receivers(x, a) /\ Install(R, j, v, a) /\ CachesKeptOrCleared
    BY InstallReceivers
<1>2. /\ \A d \in R : heap'[constants_table'[d][j]] = [value |-> v, access |-> a]
      /\ \A d \in Class, i \in Const :
            d \notin R \/ i # j => constants_table'[d][i] = constants_table[d][i]
    BY <1>1, InstalledEntries
<1>3. ASSUME NEW c \in Class, NEW k \in Const, IsCase(c, k)'
      PROVE  IsEnum(c)
  <2>1. c \notin R \/ k # j
      BY <1>2, <1>3 DEF IsCase
  <2>2. constants_table'[c][k] = constants_table[c][k] /\ constants_table[c][k] # None
      BY <1>2, <1>3, <2>1 DEF IsCase
  <2>3. /\ constants_table[c][k] \in Object
        /\ constants_table[c][k] \in Referenced
        /\ constants_table[c][k] \in Referenced'
      BY <2>2, Entry DEF Referenced
  <2>4. heap'[constants_table[c][k]].access = heap[constants_table[c][k]].access
      BY <1>1, <2>3, InstallHeap, EmptiedKeepsAccess
  <2>5. QED
      BY <1>3, <2>2, <2>4 DEF IsCase, CaseInv
<1>4. QED
    BY <1>3 DEF IsCase, CaseInv, IsEnum

LEMMA UninstallMakesNoCase ==
    ASSUME TypeOK, CaseInv, NEW x \in Class, NEW j \in Const, Uninstalls(x, j)
    PROVE  CaseInv'
<1>1. ASSUME NEW c \in Class, NEW k \in Const, IsCase(c, k)'
      PROVE  IsEnum(c)
  <2>1. constants_table'[c][k] = constants_table[c][k] /\ constants_table[c][k] # None
      BY <1>1 DEF IsCase, Uninstalls, Uninstall, TypeOK
  <2>2. /\ constants_table[c][k] \in Object
        /\ constants_table[c][k] \in Referenced
        /\ constants_table[c][k] \in Referenced'
      BY <2>1, Entry DEF Referenced
  <2>3. heap'[constants_table[c][k]].access = heap[constants_table[c][k]].access
      BY <2>2, UninstallHeap, EmptiedKeepsAccess DEF Uninstalls
  <2>4. QED
      BY <1>1, <2>1, <2>3 DEF IsCase, CaseInv
<1>2. QED
    BY <1>1 DEF IsCase, CaseInv, IsEnum

LEMMA NextCases == SharingOK /\ CaseInv /\ [Next]_vars => CaseInv'
<1> SUFFICES ASSUME SharingOK, CaseInv, [Next]_vars
             PROVE  CaseInv'
    OBVIOUS
<1>1. CASE \E x \in Class : ClassCall(x)
  <2>1. PICK x \in Class, j \in Const : Installs(x, j) \/ Uninstalls(x, j)
      BY <1>1, ClassCallCases DEF SharingOK
  <2>2. QED
      BY <2>1, InstallMakesNoCase, UninstallMakesNoCase DEF SharingOK
<1>2. CASE \E x \in Class : DeclareClass(x)
  <2>1. PICK x \in Class : DeclareClass(x)
      BY <1>2
  <2>2. ASSUME NEW c \in Class, NEW k \in Const, IsCase(c, k)', c # x
        PROVE  IsEnum(c)
    <3>1. constants_table'[c][k] = constants_table[c][k] /\ constants_table[c][k] # None
        BY <2>1, <2>2, DeclareFacts DEF IsCase, SharingOK
    <3>2. EntryKept(c, k)
        BY <2>1, <2>2, <3>1, DeclareKeeps DEF SharingOK
    <3>3. QED
        BY <2>2, <3>1, <3>2 DEF EntryKept, IsCase, CaseInv
  <2>3. QED
      BY <2>1, <2>2, DeclaredCase DEF IsCase, CaseInv, IsEnum
<1>3. CASE ~\E x \in Class : ClassCall(x) \/ DeclareClass(x)
    BY <1>3, OtherSteps DEF CaseInv, IsEnum, SharingOK
<1>4. QED
    BY <1>1, <1>2, <1>3

(* An enum case keeps its object, its value and its kind through every      *)
(* call and every class that is linked.                                     *)
THEOREM CasesAlwaysStay == Spec => CasesStay
<1>1. Init => SharingOK /\ CaseInv
    BY InitSharing DEF Init, CaseInv, NoEntries
<1>2. SharingOK /\ CaseInv /\ [Next]_vars => SharingOK' /\ CaseInv'
    BY NextSharing, NextCases
<1>3. SharingOK /\ CaseInv /\ [Next]_vars =>
        [\A c \in Class, k \in Const :
            LET o == constants_table[c][k]
            IN  o # None /\ heap[o].access = "case" =>
                  constants_table'[c][k] = o /\ heap'[o] = heap[o]]_vars
    BY CaseSteps DEF IsCase, EntryKept
<1>4. QED
    BY <1>1, <1>2, <1>3, PTL DEF Spec, CasesStay

-----------------------------------------------------------------------------
(* The call sites.                                                          *)
LEMMA KeptOffer ==
    ASSUME NEW c \in Class, NEW k \in Const,
           constants_table'[c][k] = constants_table[c][k],
           heap'[constants_table[c][k]].access = heap[constants_table[c][k]].access
    PROVE  Offers(c, k) => Offers(c, k)'
    BY DEF Offers

LEMMA KeptSeen ==
    ASSUME NEW c \in Class, NEW k \in Const, EntryKept(c, k)
    PROVE  Seen(c, k)' = Seen(c, k) /\ (Offers(c, k) => Offers(c, k)')
    BY DEF EntryKept, Seen, Offers

(* What an Install does to the entry of a class: it is one of the new       *)
(* objects, or the old one, whose value may have been destroyed if a class   *)
(* that receives shares it.                                                 *)
Received(d, k, v, a) ==
    /\ constants_table'[d][k] # None
    /\ constants_table'[d][k].ce = d
    /\ Seen(d, k)' = v
    /\ a # "private" => Offers(d, k)'

PassedBy(d, k, taken) ==
    /\ constants_table'[d][k] = constants_table[d][k]
    /\ Offers(d, k) => Offers(d, k)'
    /\ constants_table[d][k] \notin taken \cup {None} => EntryKept(d, k)

LEMMA InstallEntry ==
    ASSUME TypeOK, NEW R \in SUBSET Class, NEW j \in Const, NEW v \in Value,
           NEW a \in Access, Install(R, j, v, a)
    PROVE  \A d \in Class, k \in Const :
              IF d \in R /\ k = j THEN Received(d, k, v, a) ELSE PassedBy(d, k, Entries(R, j))
<1> SUFFICES ASSUME NEW d \in Class, NEW k \in Const
             PROVE  IF d \in R /\ k = j THEN Received(d, k, v, a)
                    ELSE PassedBy(d, k, Entries(R, j))
    OBVIOUS
<1>1. /\ \A e \in R : /\ constants_table'[e][j] \in Object
                      /\ heap'[constants_table'[e][j]] = [value |-> v, access |-> a]
      /\ \A e \in Class, i \in Const :
            e \notin R \/ i # j => constants_table'[e][i] = constants_table[e][i]
    BY InstalledEntries
<1>2. ASSUME d \in R, k = j
      PROVE  Received(d, k, v, a)
  <2>1. constants_table'[d][k] = New(d, k) /\ New(d, k).ce = d
      BY <1>2, NewIsFresh DEF Install, TypeOK
  <2>2. constants_table'[d][k] # None
      BY <1>1, <1>2, ConstantsAssumption
  <2>3. heap'[constants_table'[d][k]] = [value |-> v, access |-> a]
      BY <1>1, <1>2
  <2>4. QED
      BY <2>1, <2>2, <2>3 DEF Received, Seen, Offers
<1>3. ASSUME d \notin R \/ k # j
      PROVE  PassedBy(d, k, Entries(R, j))
  <2>1. constants_table'[d][k] = constants_table[d][k]
      BY <1>1, <1>3
  <2>2. CASE constants_table[d][k] = None
      BY <2>1, <2>2 DEF Offers, PassedBy
  <2>3. CASE constants_table[d][k] # None
    <3>1. /\ constants_table[d][k] \in Object
          /\ constants_table[d][k] \in Referenced
          /\ constants_table[d][k] \in Referenced'
        BY <2>1, <2>3, Entry DEF Referenced
    <3>2. heap'[constants_table[d][k]].access = heap[constants_table[d][k]].access
        BY <3>1, InstallHeap, EmptiedKeepsAccess
    <3>3. constants_table[d][k] \notin Entries(R, j) => EntryKept(d, k)
        BY <2>1, <3>1, InstallHeap DEF EntryKept
    <3>4. QED
        BY <2>1, <3>2, <3>3, KeptOffer DEF PassedBy
  <2>4. QED
      BY <2>2, <2>3
<1>4. QED
    BY <1>2, <1>3

(* An add to q that reaches neither p nor c takes no object of theirs away:  *)
(* whoever shares one is below p, and so is not reached either.              *)
LEMMA SharedStays ==
    ASSUME SharingOK, NEW q \in declared, NEW a, NEW k \in Const,
           constants_table[q][k] = None,
           NEW p \in Class, p \notin Interface, \A d \in Below(p) \cap declared : Offers(d, k),
           NEW c \in Class, c = p \/ p \in Super[c], c \notin Interface,
           c \notin Receivers(q, a), c \in declared,
           constants_table[c][k] # None, constants_table[c][k].ce = c
    PROVE  constants_table[c][k] \notin Entries(Receivers(q, a), k)
<1> SUFFICES ASSUME NEW d \in Receivers(q, a), constants_table[c][k] = constants_table[d][k]
             PROVE  FALSE
    BY DEF Entries
<1>1. d \in Class /\ q \in Class /\ d # q /\ d # c
    BY DEF Receivers, Below, SharingOK, TypeOK
<1>2. a # "private" /\ q \in Super[d]
    BY <1>1 DEF Receivers, Below
<1>3. c \in Super[d]
    BY <1>1 DEF SharingOK, Sharing
<1>4. q # c
    BY <1>1 DEF Receivers
<1>5. q \notin Super[c]
    BY <1>2 DEF Receivers, Below
<1>6. c \in Super[q]
    BY <1>1, <1>2, <1>3, <1>4, <1>5, ConstantsAssumption
<1>7. p \in Super[q]
    BY <1>1, <1>6, ConstantsAssumption
<1>8. QED
    BY <1>1, <1>7 DEF Below, Offers

(* An add keeps the invariant: it is the reason there is one.               *)
LEMMA AddKeepsStale ==
    ASSUME SharingOK, StaleInv, NEW q \in declared, NEW k \in Const, NEW v \in Value,
           NEW a \in Access, Install(Receivers(q, a), k, v, a), KeepCaches,
           declared' = declared, constants_table[q][k] = None,
           NEW c \in Site, cached'[c][k] \notin {None, constants_table'[c][k]}
    PROVE  /\ constants_table'[c][k] # None
           /\ constants_table'[c][k].ce = c
           /\ \E p \in Super[c] : AddedAbove(c, k, p)'
<1>1. q \in Class /\ c \in Class
    BY ConstantsAssumption DEF SharingOK, TypeOK
<1>2. PICK R \in SUBSET Class : R = Receivers(q, a)
    BY <1>1, ReceiversInClass
<1>3. /\ \A d \in R : Received(d, k, v, a)
      /\ \A d \in Class \ R : PassedBy(d, k, Entries(R, k))
  <2>1. Install(R, k, v, a) /\ TypeOK
      BY <1>2 DEF SharingOK
  <2>2. QED
      BY <2>1, InstallEntry
<1>4. cached'[c][k] = cached[c][k]
    BY DEF KeepCaches
<1>5. CASE c \in R
  <2>1. /\ constants_table'[c][k] # None
        /\ constants_table'[c][k].ce = c
        /\ Seen(c, k)' = v
      BY <1>3, <1>5 DEF Received
  <2>2. c # q
    <3>1. cached[c][k] # constants_table[c][k] => constants_table[c][k] # None
        BY <1>4 DEF StaleInv
    <3>2. QED
        BY <1>4, <3>1
  <2>3. q \in Super[c] /\ a # "private"
      BY <1>2, <1>5, <2>2 DEF Receivers, Below
  <2>4. q \in R /\ Below(q) \cap declared \subseteq R
      BY <1>2, <2>3 DEF Receivers
  <2>5. \A d \in R : Offers(d, k)'
      BY <1>3, <2>3 DEF Received
  <2>6. Seen(q, k)' = v /\ constants_table'[q][k].ce = q
      BY <1>3, <2>4 DEF Received
  <2>7. AddedAbove(c, k, q)'
      BY <2>1, <2>4, <2>5, <2>6 DEF AddedAbove, Below
  <2>8. QED
      BY <2>1, <2>3, <2>7
<1>6. CASE c \notin R
  <2>1. constants_table'[c][k] = constants_table[c][k]
      BY <1>1, <1>3, <1>6 DEF PassedBy
  <2>2. /\ constants_table[c][k] # None
        /\ constants_table[c][k].ce = c
        /\ \E p \in Super[c] : AddedAbove(c, k, p)
      BY <1>4, <2>1 DEF StaleInv
  <2>3. PICK p \in Super[c] : AddedAbove(c, k, p)
      BY <2>2
  <2>4. p \in Class /\ c \notin Interface /\ p \notin Interface
      BY <1>1, ConstantsAssumption
  <2>5. /\ constants_table[p][k] # None
        /\ constants_table[p][k].ce = p
        /\ \A d \in Below(p) \cap declared : Offers(d, k)
      BY <2>3 DEF AddedAbove, Offers
  <2>6. q # p /\ q \notin Below(p)
      BY <2>5 DEF Offers
  <2>7. c \in declared /\ p \in declared
      BY <1>1, <2>2, <2>4, <2>5 DEF SharingOK, Sharing
  <2>8. p \notin R
      BY <1>1, <1>2, <1>6, <2>4, <2>6, <2>7, ConstantsAssumption DEF Receivers, Below
  <2>9. /\ constants_table[c][k] \notin Entries(R, k)
        /\ constants_table[p][k] \notin Entries(R, k)
    <3>1. p \in Super[c]
        OBVIOUS
    <3>2. constants_table[c][k] \notin Entries(Receivers(q, a), k)
        BY <1>1, <1>2, <1>6, <2>2, <2>4, <2>5, <2>7, <3>1, SharedStays
    <3>3. constants_table[p][k] \notin Entries(Receivers(q, a), k)
        BY <1>2, <2>4, <2>5, <2>7, <2>8, SharedStays
    <3>4. QED
        BY <1>2, <3>2, <3>3
  <2>10. EntryKept(c, k) /\ EntryKept(p, k) /\ (Offers(p, k) => Offers(p, k)')
      BY <1>1, <1>3, <1>6, <2>2, <2>4, <2>5, <2>8, <2>9 DEF PassedBy
  <2>11. Seen(c, k)' = Seen(p, k)'
      BY <1>1, <2>3, <2>4, <2>10, KeptSeen DEF AddedAbove
  <2>12. ASSUME NEW d \in Below(p) \cap declared
         PROVE  Offers(d, k)'
    <3>1. d \in Class /\ d # q
        BY <2>6 DEF Below
    <3>2. CASE d \in R
      <4>1. a # "private"
          BY <1>2, <3>1, <3>2 DEF Receivers
      <4>2. QED
          BY <1>3, <3>2, <4>1 DEF Received
    <3>3. CASE d \notin R
        BY <1>3, <2>5, <3>1, <3>3 DEF PassedBy
    <3>4. QED
        BY <3>2, <3>3
  <2>13. AddedAbove(c, k, p)'
      BY <2>3, <2>5, <2>10, <2>11, <2>12 DEF AddedAbove, EntryKept, Below
  <2>14. QED
      BY <2>1, <2>2, <2>13
<1>7. QED
    BY <1>5, <1>6


(* A step that leaves the two entries alone, and gives no class below p an  *)
(* entry it does not offer, keeps what the add left.                        *)
LEMMA KeptAbove ==
    ASSUME NEW c \in Class, NEW k \in Const, NEW p \in Class, AddedAbove(c, k, p),
           constants_table[c][k] # None, EntryKept(c, k), EntryKept(p, k),
           \A d \in Below(p) \cap declared' : Offers(d, k)'
    PROVE  AddedAbove(c, k, p)'
<1>1. Seen(c, k)' = Seen(c, k) /\ Seen(p, k)' = Seen(p, k) /\ (Offers(p, k) => Offers(p, k)')
    BY KeptSeen
<1>2. QED
    BY <1>1 DEF AddedAbove, EntryKept, Below

(* What the invariant says of one call site.                                *)
StaleFor(c, k) ==
    cached[c][k] \notin {None, constants_table[c][k]} =>
        /\ constants_table[c][k] # None
        /\ constants_table[c][k].ce = c
        /\ \E p \in Super[c] : AddedAbove(c, k, p)

(* A step that keeps every entry there is of k, and lets every class below  *)
(* one that offers k offer it too, keeps the call site's part.              *)
LEMMA KeptStale ==
    ASSUME NEW c \in Site, NEW k \in Const, StaleFor(c, k),
           cached'[c][k] \in {None, cached[c][k]},
           constants_table[c][k] = None => cached'[c][k] \in {None, constants_table'[c][k]},
           \A d \in Class : constants_table[d][k] # None => EntryKept(d, k),
           \A p \in Class : \A d \in Below(p) \cap (declared' \ declared) :
              Offers(p, k) /\ (\A e \in Below(p) \cap declared : Offers(e, k)) => Offers(d, k)'
    PROVE  StaleFor(c, k)'
<1> SUFFICES ASSUME cached'[c][k] \notin {None, constants_table'[c][k]}
             PROVE  /\ constants_table'[c][k] # None
                    /\ constants_table'[c][k].ce = c
                    /\ \E p \in Super[c] : AddedAbove(c, k, p)'
    BY DEF StaleFor
<1>1. c \in Class
    BY ConstantsAssumption
<1>2. constants_table[c][k] # None /\ EntryKept(c, k)
    BY <1>1
<1>3. /\ constants_table[c][k].ce = c
      /\ \E p \in Super[c] : AddedAbove(c, k, p)
    BY <1>2 DEF StaleFor, EntryKept
<1>4. PICK p \in Super[c] : AddedAbove(c, k, p)
    BY <1>3
<1>5. p \in Class
    BY <1>1, ConstantsAssumption
<1>6. EntryKept(p, k)
    BY <1>4, <1>5 DEF AddedAbove, Offers
<1>7. \A d \in Below(p) \cap declared' : Offers(d, k)'
  <2> SUFFICES ASSUME NEW d \in Below(p) \cap declared'
               PROVE  Offers(d, k)'
      OBVIOUS
  <2>0. d \in Class
      BY DEF Below
  <2>1. CASE d \in declared
    <3>1. Offers(d, k)
        BY <1>4, <2>1 DEF AddedAbove
    <3>2. EntryKept(d, k)
        BY <2>0, <3>1 DEF Offers
    <3>3. QED
        BY <2>0, <3>1, <3>2, KeptSeen
  <2>2. CASE d \notin declared
      BY <1>4, <1>5, <2>2 DEF AddedAbove
  <2>3. QED
      BY <2>1, <2>2
<1>8. AddedAbove(c, k, p)'
    BY <1>1, <1>2, <1>4, <1>5, <1>6, <1>7, KeptAbove
<1>9. QED
    BY <1>2, <1>3, <1>8 DEF EntryKept

(* A call on another constant of the class leaves those of k alone: the     *)
(* objects carry their name.                                                *)
LEMMA OtherName ==
    ASSUME SharingOK, NEW R \in SUBSET Class, NEW j \in Const, NEW v \in Value,
           NEW a \in Access, Install(R, j, v, a), NEW k \in Const \ {j}, NEW d \in Class
    PROVE  /\ constants_table'[d][k] = constants_table[d][k]
           /\ constants_table[d][k] # None => EntryKept(d, k)
<1>1. PassedBy(d, k, Entries(R, j))
    BY InstallEntry DEF SharingOK
<1>2. constants_table[d][k] # None => constants_table[d][k] \notin Entries(R, j)
    BY DEF Entries, SharingOK, Sharing
<1>3. QED
    BY <1>1, <1>2 DEF PassedBy

LEMMA InstallStale ==
    ASSUME SharingOK, StaleInv, NEW x \in declared, NEW j \in Const, Installs(x, j),
           declared' = declared, NEW c \in Site, NEW k \in Const
    PROVE  StaleFor(c, k)'
<1>0. x \in Class /\ StaleFor(c, k)
    BY DEF SharingOK, TypeOK, StaleInv, StaleFor
<1>1. CASE ClearCaches
    BY <1>1 DEF ClearCaches, NoEntries, StaleFor
<1>2. CASE ~ClearCaches
  <2>1. PICK v \in Value, a \in Access \ {"case"} :
           /\ Install(Receivers(x, a), j, v, a)
           /\ KeepCaches
           /\ constants_table[x][j] = None
      BY <1>2 DEF Installs
  <2>2. CASE k = j
      BY <2>1, <2>2, AddKeepsStale DEF StaleFor
  <2>3. CASE k # j
    <3>1. PICK R \in SUBSET Class : R = Receivers(x, a)
        BY <1>0, ReceiversInClass
    <3>2. \A d \in Class : constants_table'[d][k] = constants_table[d][k]
        BY <2>1, <2>3, <3>1, OtherName
    <3>3. cached' = cached
        BY <2>1 DEF KeepCaches
    <3>4. c \in Class
        BY ConstantsAssumption
    <3>5. constants_table[c][k] = None => cached'[c][k] \in {None, constants_table'[c][k]}
        BY <1>0, <3>2, <3>3, <3>4 DEF StaleFor
    <3>6. cached'[c][k] \in {None, cached[c][k]} /\ declared' \ declared = {}
        BY <3>3
    <3>7. \A d \in Class : constants_table[d][k] # None => EntryKept(d, k)
        BY <2>1, <2>3, <3>1, OtherName
    <3>8. \A p \in Class : \A d \in Below(p) \cap (declared' \ declared) :
             Offers(p, k) /\ (\A e \in Below(p) \cap declared : Offers(e, k)) => Offers(d, k)'
        BY <3>6
    <3>9. QED
        BY <1>0, <3>5, <3>6, <3>7, <3>8, KeptStale
  <2>4. QED
      BY <2>2, <2>3
<1>3. QED
    BY <1>1, <1>2

(* A class linked below one that offers a constant offers it too: what it   *)
(* inherits is not private, and what it declares may not be less visible.   *)
LEMMA DeclaredOffers ==
    ASSUME SharingOK, NEW x \in Class, DeclareClass(x), NEW k \in Const, NEW p \in Class,
           Offers(p, k), x \in Below(p), \A e \in Below(p) \cap declared : Offers(e, k)
    PROVE  Offers(x, k)'
<1>1. PICK y \in Class : y = Parent[x] /\ y # None /\ (y = p \/ p \in Super[y])
    BY ConstantsAssumption DEF Below
<1>2. y \in declared
    BY <1>1, DeclaredEntry DEF SharingOK
<1>3. Offers(y, k)
    BY <1>1, <1>2 DEF Below
<1>4. /\ Inherited(x, k) = {constants_table[y][k]}
      /\ ParentEntry(x, k) = {constants_table[y][k]}
    BY <1>1, <1>3 DEF Offers, Inherited, ParentEntry
<1>5. ASSUME NEW own \in Own[x][k], own # None, Declares(x, k, own)
      PROVE  Offers(x, k)'
  <2>1. /\ heap[constants_table[y][k]].access \notin {"private", "final"}
        /\ heap[constants_table[y][k]].access \in {"public", "case"} =>
              own.access \in {"public", "final"}
        /\ heap[constants_table[y][k]].access = "protected" => own.access # "private"
      BY <1>3, <1>4, <1>5 DEF Offers, Declares, MayDeclare
  <2>2. heap[constants_table[y][k]] \in Content
      BY <1>3, Entry, ContentOfReferenced DEF Offers, SharingOK
  <2>3. own.access # "private"
      BY <2>1, <2>2 DEF Content, Access
  <2>4. constants_table'[x][k] # None
      BY <1>5, ConstantsAssumption DEF Declares
  <2>5. QED
      BY <1>5, <2>3, <2>4 DEF Declares, Offers
<1>6. CASE constants_table'[x][k] \in Inherited(x, k)
  <2>1. y \in Class /\ y \in declared /\ x \notin declared
      BY <1>1, <1>2, ConstantsAssumption DEF DeclareClass
  <2>2. EntryKept(y, k)
      BY <1>3, <2>1, DeclareKeeps DEF SharingOK, Offers
  <2>3. QED
      BY <1>3, <1>4, <1>6, <2>2 DEF EntryKept, Offers
<1>7. QED
    BY <1>4, <1>5, <1>6, DeclaredEntry DEF SharingOK

LEMMA DeclareStale ==
    ASSUME SharingOK, StaleInv, NEW x \in Class, DeclareClass(x), NEW c \in Site, NEW k \in Const
    PROVE  StaleFor(c, k)'
<1>1. StaleFor(c, k) /\ c \in Class
    BY ConstantsAssumption DEF StaleInv, StaleFor
<1>2. /\ x \notin declared
      /\ declared' = declared \cup {x}
      /\ cached' = cached
      /\ \A d \in Class \ {x} : constants_table'[d] = constants_table[d]
    BY DeclareFacts DEF SharingOK
<1>3. constants_table[x][k] = None
    BY <1>2, UndeclaredEmpty DEF SharingOK
<1>4. \A d \in Class : constants_table[d][k] # None => EntryKept(d, k)
    BY <1>3, DeclareKeeps DEF SharingOK
<1>5. constants_table[c][k] = None => cached'[c][k] \in {None, constants_table'[c][k]}
    BY <1>1, <1>2 DEF StaleFor
<1>6. \A p \in Class : \A d \in Below(p) \cap (declared' \ declared) :
         Offers(p, k) /\ (\A e \in Below(p) \cap declared : Offers(e, k)) => Offers(d, k)'
    BY <1>2, DeclaredOffers
<1>7. QED
    BY <1>1, <1>2, <1>4, <1>5, <1>6, KeptStale

(* The other steps fill a cache with what the class has, or clear them all. *)
LEMMA OtherStale ==
    ASSUME SharingOK, StaleInv, [Next]_vars, ~\E x \in Class : ClassCall(x) \/ DeclareClass(x),
           NEW c \in Site, NEW k \in Const
    PROVE  StaleFor(c, k)'
<1>1. StaleFor(c, k) /\ c \in Class
    BY ConstantsAssumption DEF StaleInv, StaleFor
<1>2. /\ UNCHANGED <<declared, constants_table>>
      /\ \A d \in Class : constants_table[d][k] # None => EntryKept(d, k)
    BY OtherSteps DEF SharingOK, EntryKept
<1>3. CASE cached'[c][k] \in {None, cached[c][k]}
  <2>1. constants_table[c][k] = None => cached'[c][k] \in {None, constants_table'[c][k]}
      BY <1>1, <1>2, <1>3 DEF StaleFor
  <2>2. QED
      BY <1>1, <1>2, <1>3, <2>1, KeptStale
<1>4. CASE cached'[c][k] = constants_table'[c][k]
    BY <1>4 DEF StaleFor
<1>5. cached'[c][k] \in {None, cached[c][k], constants_table'[c][k]}
  <2>1. ASSUME NEW d \in Site, NEW j \in Const, Fetch(d, j)
        PROVE  cached'[c][k] \in {cached[c][k], constants_table'[c][k]}
      BY <2>1 DEF Fetch, SharingOK, TypeOK
  <2>2. ASSUME ClearCaches \/ UNCHANGED cached
        PROVE  cached'[c][k] \in {None, cached[c][k]}
      BY <2>2 DEF ClearCaches, NoEntries
  <2>3. QED
      BY <2>1, <2>2 DEF Next, GlobalAdd, GlobalRemove, GlobalRedefine, vars, class_vars
<1>6. QED
    BY <1>3, <1>4, <1>5

LEMMA NextStale == SharingOK /\ StaleInv /\ [Next]_vars => StaleInv'
<1> SUFFICES ASSUME SharingOK, StaleInv, [Next]_vars, NEW c \in Site, NEW k \in Const
             PROVE  StaleFor(c, k)'
    BY DEF StaleInv, StaleFor
<1>1. CASE \E x \in Class : ClassCall(x)
  <2>1. PICK x \in Class : ClassCall(x)
      BY <1>1
  <2>2. x \in declared /\ declared' = declared
      BY <2>1, ClassCallCases DEF SharingOK
  <2>3. PICK j \in Const : Installs(x, j) \/ Uninstalls(x, j)
      BY <2>1, ClassCallCases DEF SharingOK
  <2>4. CASE Installs(x, j)
      BY <2>2, <2>4, InstallStale
  <2>5. CASE Uninstalls(x, j)
      BY <2>5 DEF Uninstalls, ClearCaches, NoEntries, StaleFor
  <2>6. QED
      BY <2>3, <2>4, <2>5
<1>2. CASE \E x \in Class : DeclareClass(x)
    BY <1>2, DeclareStale
<1>3. CASE ~\E x \in Class : ClassCall(x) \/ DeclareClass(x)
    BY <1>3, OtherStale
<1>4. QED
    BY <1>1, <1>2, <1>3

(* A call site reads another constant than its class has only when the     *)
(* constant of the class is its own, given to it by an add to a class above *)
(* since the site was filled: nothing that takes a constant away, and no     *)
(* class linked later, leaves a site behind.                                *)
THEOREM SitesStaleOnlyBelowAnAdd == Spec => []StaleOnlyBelowAnAdd
<1>1. Init => SharingOK /\ StaleInv
    BY InitSharing DEF Init, StaleInv, NoEntries
<1>2. SharingOK /\ StaleInv /\ [Next]_vars => SharingOK' /\ StaleInv'
    BY NextSharing, NextStale
<1>3. StaleInv => StaleOnlyBelowAnAdd
    BY DEF StaleInv, AddedAbove, Offers, StaleOnlyBelowAnAdd
<1>4. QED
    BY <1>1, <1>2, <1>3, PTL DEF Spec

(* What a step leaves in an object that a call site still holds, or that a  *)
(* class keeps while others lose it.                                        *)
LEMMA StaleSiteStep ==
    ASSUME SharingOK, StaleInv, StaleSitesReadNull, [Next]_vars, NEW c \in Site, NEW k \in Const,
           NEW o, o = cached'[c][k], o \notin {None, constants_table'[c][k]}
    PROVE  heap'[o] # None /\ heap'[o].value \notin Boxed
<1>0. c \in Class /\ TypeOK /\ StaleFor(c, k) /\ o \in Referenced'
    BY ConstantsAssumption DEF SharingOK, StaleInv, StaleFor, Referenced
<1>1. ASSUME o = cached[c][k]
      PROVE  o \in Object /\ o \in Referenced /\ heap[o] # None
    BY <1>0, <1>1, ContentOfReferenced DEF TypeOK, Referenced
<1>2. ASSUME o = cached[c][k], constants_table'[c][k] = constants_table[c][k], heap'[o] = heap[o]
      PROVE  heap'[o] # None /\ heap'[o].value \notin Boxed
    BY <1>2 DEF StaleSitesReadNull
<1>3. ASSUME NEW x \in Class, NEW j \in Const, Installs(x, j)
      PROVE  heap'[o] # None /\ heap'[o].value \notin Boxed
  <2>1. KeepCaches
      BY <1>3 DEF Installs, ClearCaches, NoEntries
  <2>2. PICK R \in SUBSET Class, v \in Value, a \in Access : Install(R, j, v, a)
      BY <1>0, <1>3, InstallReceivers
  <2>3. o = cached[c][k]
      BY <2>1 DEF KeepCaches
  <2>4. heap'[o] = IF o \in Entries(R, j) THEN Emptied(o) ELSE heap[o]
      BY <1>0, <1>1, <2>2, <2>3, InstallHeap
  <2>5. CASE o \in Entries(R, j)
      BY <1>0, <1>1, <2>3, <2>4, <2>5, EmptiedFacts
  <2>6. CASE o \notin Entries(R, j)
    <3>1. constants_table[c][k] # o
      <4>1. \A d \in Class, i \in Const :
               d \notin R \/ i # j => constants_table'[d][i] = constants_table[d][i]
          BY <1>0, <2>2, InstalledEntries
      <4>2. QED
          BY <1>0, <2>6, <4>1 DEF Entries
    <3>2. QED
        BY <2>3, <2>4, <2>6, <3>1 DEF StaleSitesReadNull
  <2>7. QED
      BY <2>5, <2>6
<1>4. CASE \E x \in Class : ClassCall(x)
  <2>1. PICK x \in Class, j \in Const : Installs(x, j) \/ Uninstalls(x, j)
      BY <1>0, <1>4, ClassCallCases
  <2>2. CASE Uninstalls(x, j)
      BY <2>2 DEF Uninstalls, ClearCaches, NoEntries
  <2>3. QED
      BY <1>3, <2>1, <2>2
<1>5. CASE \E x \in Class : DeclareClass(x)
  <2>1. PICK x \in Class : DeclareClass(x)
      BY <1>5
  <2>2. o = cached[c][k] /\ x \notin declared
      BY <1>0, <2>1, DeclareFacts
  <2>3. c # x
      BY <1>0, <2>2, UndeclaredEmpty DEF SharingOK, StaleFor
  <2>4. constants_table'[c][k] = constants_table[c][k] /\ heap'[o] = heap[o]
      BY <1>0, <1>1, <2>1, <2>2, <2>3, DeclareFacts
  <2>5. QED
      BY <1>2, <2>2, <2>4
<1>6. CASE ~\E x \in Class : ClassCall(x) \/ DeclareClass(x)
  <2>1. UNCHANGED constants_table /\ (SettleHeap(heap) \/ UNCHANGED heap)
      BY <1>6 DEF Next, Fetch, GlobalAdd, GlobalRemove, GlobalRedefine, vars, class_vars
  <2>2. cached'[c][k] \in {None, cached[c][k], constants_table'[c][k]}
    <3>1. ASSUME NEW d \in Site, NEW j \in Const, Fetch(d, j)
          PROVE  cached'[c][k] \in {cached[c][k], constants_table'[c][k]}
        BY <1>0, <3>1 DEF Fetch, TypeOK
    <3>2. ASSUME ClearCaches \/ UNCHANGED cached
          PROVE  cached'[c][k] \in {None, cached[c][k]}
        BY <3>2 DEF ClearCaches, NoEntries
    <3>3. QED
        BY <1>6, <3>1, <3>2 DEF Next, GlobalAdd, GlobalRemove, GlobalRedefine, vars, class_vars
  <2>3. o = cached[c][k]
      BY <2>2
  <2>4. heap'[o] = heap[o]
      BY <1>0, <1>1, <2>1, <2>3 DEF SettleHeap
  <2>5. QED
      BY <1>2, <2>1, <2>3, <2>4
<1>7. QED
    BY <1>4, <1>5, <1>6

(* A call site that holds an object its class has no more finds no value    *)
(* there that was destroyed: it reads NULL, or one that is kept in place.    *)
THEOREM StaleSitesAlwaysReadNull == Spec => []StaleSitesReadNull
<1> DEFINE Inv == SharingOK /\ StaleInv /\ StaleSitesReadNull
<1>1. Init => Inv
    BY InitSharing DEF Init, StaleInv, StaleSitesReadNull, NoEntries
<1>2. Inv /\ [Next]_vars => Inv'
  <2>1. SharingOK /\ StaleInv /\ StaleSitesReadNull /\ [Next]_vars => StaleSitesReadNull'
      BY StaleSiteStep DEF StaleSitesReadNull
  <2>2. QED
      BY <2>1, NextSharing, NextStale
<1>3. Inv => StaleSitesReadNull
    OBVIOUS
<1>4. QED
    BY <1>1, <1>2, <1>3, PTL DEF Spec

LEMMA SharerStep ==
    ASSUME SharingOK, Next, NEW c \in declared, NEW k \in Const, NEW o,
           o = constants_table[c][k], o # None, constants_table'[c][k] = o
    PROVE  IF \E d \in declared : constants_table[d][k] = o /\ LostBy(d, k)
           THEN heap'[o] # None /\ heap'[o].value \notin Boxed
           ELSE heap'[o] = heap[o]
<1>0. TypeOK /\ Sharing /\ c \in Class
    BY DEF SharingOK, TypeOK
<1>1. /\ o \in Object /\ o \in Referenced /\ o \in Referenced'
      /\ o.name = k /\ heap[o] # None
    BY <1>0, Entry, ContentOfReferenced DEF Referenced, Sharing
<1> DEFINE Lost == \E d \in declared : constants_table[d][k] = o /\ LostBy(d, k)
<1>2. ASSUME NEW x \in declared, NEW j \in Const, NEW S \in SUBSET declared,
             heap'[o] = (IF o \in Entries(S, j) THEN Emptied(o) ELSE heap[o]),
             \A d \in S : constants_table[d][j] # None => constants_table'[d][j] # constants_table[d][j],
             \A d \in Class, i \in Const :
                d \notin S \/ i # j => constants_table'[d][i] = constants_table[d][i]
      PROVE  IF Lost THEN heap'[o] # None /\ heap'[o].value \notin Boxed ELSE heap'[o] = heap[o]
  <2>1. S \subseteq Class /\ declared \subseteq Class
      BY <1>0 DEF TypeOK
  <2>2. ASSUME o \in Entries(S, j)
        PROVE  Lost
    <3>1. PICK d \in S : o = constants_table[d][j]
        BY <2>2 DEF Entries
    <3>2. o.name = j
        BY <1>0, <1>1, <2>1, <3>1, ConstantsAssumption DEF Sharing
    <3>3. QED
        BY <1>1, <1>2, <3>1, <3>2 DEF LostBy
  <2>3. ASSUME NEW d \in declared, constants_table[d][k] = o, LostBy(d, k)
        PROVE  o \in Entries(S, j)
      BY <1>2, <2>1, <2>3 DEF LostBy, Entries
  <2>4. QED
      BY <1>0, <1>1, <1>2, <2>2, <2>3, EmptiedFacts
<1>3. CASE \E x \in Class : ClassCall(x)
  <2>1. PICK x \in Class : ClassCall(x)
      BY <1>3
  <2>2. x \in declared
      BY <1>0, <2>1, ClassCallCases
  <2>3. PICK j \in Const : Installs(x, j) \/ Uninstalls(x, j)
      BY <1>0, <2>1, ClassCallCases
  <2>4. CASE Installs(x, j)
    <3>1. PICK R \in SUBSET Class, v \in Value, a \in Access :
             R = Receivers(x, a) /\ Install(R, j, v, a)
        BY <1>0, <2>4, InstallReceivers
    <3>2. R \in SUBSET declared
        BY <2>2, <3>1, DeclaredReceivers
    <3>3. heap'[o] = IF o \in Entries(R, j) THEN Emptied(o) ELSE heap[o]
        BY <1>0, <1>1, <3>1, InstallHeap
    <3>4. \A d \in R : constants_table[d][j] # None => constants_table'[d][j] # constants_table[d][j]
      <4>1. \A d \in R : New(d, j) \notin Referenced /\ constants_table'[d][j] = New(d, j)
          BY <1>0, <3>1, NewIsFresh DEF Install, TypeOK
      <4>2. \A d \in R : constants_table[d][j] \in Referenced
          BY <3>1 DEF Referenced
      <4>3. QED
          BY <4>1, <4>2
    <3>5. \A d \in Class, i \in Const :
             d \notin R \/ i # j => constants_table'[d][i] = constants_table[d][i]
        BY <1>0, <3>1, InstalledEntries
    <3>6. QED
        BY <1>2, <2>2, <3>2, <3>3, <3>4, <3>5
  <2>5. CASE Uninstalls(x, j)
    <3>1. Uninstall(x, j)
        BY <2>5 DEF Uninstalls
    <3>2. heap'[o] = IF o \in Entries({x}, j) THEN Emptied(o) ELSE heap[o]
        BY <1>0, <1>1, <3>1, UninstallHeap DEF Entries
    <3>3. constants_table[x][j] # None => constants_table'[x][j] # constants_table[x][j]
        BY <1>0, <3>1 DEF Uninstall, TypeOK
    <3>4. \A d \in Class, i \in Const :
             d \notin {x} \/ i # j => constants_table'[d][i] = constants_table[d][i]
        BY <1>0, <3>1 DEF Uninstall, TypeOK
    <3>5. QED
        BY <1>2, <2>2, <3>2, <3>3, <3>4
  <2>6. QED
      BY <2>3, <2>4, <2>5
<1>4. CASE \E x \in Class : DeclareClass(x)
  <2>1. PICK x \in Class : DeclareClass(x)
      BY <1>4
  <2>2. x \notin declared /\ \A d \in declared : constants_table'[d] = constants_table[d]
      BY <1>0, <2>1, DeclareFacts DEF TypeOK
  <2>3. heap'[o] = heap[o]
      BY <1>0, <1>1, <2>1, DeclareFacts
  <2>4. QED
      BY <2>2, <2>3 DEF LostBy
<1>5. CASE ~\E x \in Class : ClassCall(x) \/ DeclareClass(x)
    BY <1>0, <1>5, OtherSteps DEF LostBy
<1>6. QED
    BY <1>3, <1>4, <1>5

(* What a class keeps while another loses it is NULL from then on, and what  *)
(* nobody loses is not touched, however the objects came to be shared.       *)
THEOREM SharersAlwaysReadNull == Spec => SharersReadNull
<1>1. SharingOK /\ [Next]_vars =>
        [\A c \in declared, k \in Const :
            LET o == constants_table[c][k]
            IN  o # None /\ constants_table'[c][k] = o =>
                  IF \E d \in declared : constants_table[d][k] = o /\ LostBy(d, k)
                  THEN heap'[o] # None /\ heap'[o].value \notin Boxed
                  ELSE heap'[o] = heap[o]]_vars
    BY SharerStep
<1>2. QED
    BY <1>1, InitSharing, NextSharing, PTL DEF Spec, SharersReadNull

===============================================================================
