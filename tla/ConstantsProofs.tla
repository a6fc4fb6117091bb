---------------------------- MODULE ConstantsProofs ----------------------------
(* Theorems of Constants, for every set of classes, constants and values. *)
EXTENDS Constants, TLAPS

Content == [value : Value \cup {Null}, access : Access]

LEMMA NewIsFresh ==
    ASSUME NEW c \in Class, NEW k \in Const, Fresh(c, k) # {}
    PROVE  /\ New(c, k) \in Object
           /\ New(c, k) \notin Referenced
           /\ New(c, k).ce = c /\ New(c, k).name = k
<1>1. (CHOOSE g \in Fresh(c, k) : TRUE) \in Fresh(c, k)
    OBVIOUS
<1>2. QED
    BY <1>1 DEF Fresh, New, Object

LEMMA EmptiedFacts ==
    ASSUME TypeOK, NEW o \in Object, heap[o] # None
    PROVE  /\ Emptied(o) \in Content
           /\ Emptied(o) # None
           /\ Emptied(o).value \notin Boxed
<1>1. heap[o] \in Content
    BY DEF TypeOK, Content
<1>2. Content \cap {None} = {}
    BY ConstantsAssumption DEF Content
<1>3. Emptied(o) \in Content
    BY <1>1 DEF Emptied, Content
<1>4. Emptied(o).value \notin Boxed
    BY <1>1, ConstantsAssumption DEF Emptied, Content
<1>5. QED
    BY <1>2, <1>3, <1>4

(* The heap after a step, which keeps only what is referenced. *)
LEMMA SettledHeap ==
    ASSUME NEW h, SettleHeap(h),
           \A o \in Object : o \in Referenced' =>
              h[o] \in Content
    PROVE  /\ heap' \in [Object -> Content \cup {None}]
           /\ \A o \in Object : o \in Referenced' => heap'[o] = h[o] /\ heap'[o] # None
<1>1. Content \cap {None} = {}
    BY ConstantsAssumption DEF Content
<1>2. \A o \in Object : heap'[o] = IF o \in Referenced' THEN h[o] ELSE None
    BY DEF SettleHeap
<1>3. heap' \in [Object -> Content \cup {None}]
    BY <1>2 DEF SettleHeap
<1>4. QED
    BY <1>1, <1>2, <1>3

LEMMA ContentOfReferenced ==
    ASSUME TypeOK, NEW o \in Object, o \in Referenced
    PROVE  heap[o] \in Content /\ heap[o] # None
<1>1. heap[o] # None
    BY ConstantsAssumption DEF TypeOK
<1>2. QED
    BY <1>1 DEF TypeOK, Content

CachesKeptOrCleared == KeepCaches \/ ClearCaches

LEMMA CacheType ==
    ASSUME TypeOK, CachesKeptOrCleared
    PROVE  /\ cached' \in [Site -> [Const -> Object \cup {None}]]
           /\ \A c \in Site, k \in Const : cached'[c][k] \in {cached[c][k], None}
    BY DEF TypeOK, CachesKeptOrCleared, KeepCaches, ClearCaches, NoEntries

(* The outcome of Install, for the classes that receive and the others. *)
LEMMA InstallFacts ==
    ASSUME TypeOK, NEW R \in SUBSET Class, NEW k \in Const, NEW v \in Value,
           NEW a \in Access, CachesKeptOrCleared, Install(R, k, v, a)
    PROVE  /\ constants_table' \in [Class -> [Const -> Object \cup {None}]]
           /\ \A d \in R : /\ constants_table'[d][k] = New(d, k)
                           /\ New(d, k) \in Object /\ New(d, k).ce = d
                           /\ New(d, k) \notin Referenced
                           /\ heap'[New(d, k)] = [value |-> v, access |-> a]
           /\ \A d \in Class, j \in Const :
                 d \notin R \/ j # k => constants_table'[d][j] = constants_table[d][j]
           /\ TypeOK' <=> /\ declared' \in SUBSET Class
                          /\ zend_constants' \in [Global -> Value \cup {Null, None}]
<1>1. \A d \in R : /\ New(d, k) \in Object /\ New(d, k) \notin Referenced
                   /\ New(d, k).ce = d
    BY NewIsFresh DEF Install
<1>2. constants_table' \in [Class -> [Const -> Object \cup {None}]]
    BY <1>1 DEF Install, TypeOK
<1>3. \A d \in R : constants_table'[d][k] = New(d, k)
    BY DEF Install, TypeOK
<1>4. \A d \in Class, j \in Const :
         d \notin R \/ j # k => constants_table'[d][j] = constants_table[d][j]
    BY DEF Install, TypeOK
<1>5. /\ cached' \in [Site -> [Const -> Object \cup {None}]]
      /\ \A c \in Site, j \in Const : cached'[c][j] \in {cached[c][j], None}
    BY CacheType DEF TypeOK
<1> DEFINE news == { New(d, k) : d \in R }
           h == [o \in Object |->
                    IF o \in news THEN [value |-> v, access |-> a]
                    ELSE IF o \in Entries(R, k) THEN Emptied(o)
                    ELSE heap[o]]
<1>6. SettleHeap(h)
    BY DEF Install
<1>7. \A o \in Object : o \in Referenced' => o \in news \/ o \in Referenced
  <2> SUFFICES ASSUME NEW o \in Object, o \in Referenced'
               PROVE  o \in news \/ o \in Referenced
      OBVIOUS
  <2>1. CASE \E d \in Class, j \in Const : o = constants_table'[d][j]
    <3>1. PICK d \in Class, j \in Const : o = constants_table'[d][j]
        BY <2>1
    <3>2. CASE d \in R /\ j = k
        BY <3>1, <3>2, <1>3
    <3>3. CASE ~(d \in R /\ j = k)
        BY <3>1, <3>3, <1>4 DEF Referenced
    <3>4. QED
        BY <3>2, <3>3
  <2>2. CASE \E c \in Site, j \in Const : o = cached'[c][j]
      BY <2>2, <1>5, ConstantsAssumption DEF Referenced
  <2>3. QED
      BY <2>1, <2>2 DEF Referenced
<1>8. \A o \in Object : o \in Referenced' => h[o] \in Content
  <2> SUFFICES ASSUME NEW o \in Object, o \in Referenced'
               PROVE  h[o] \in Content
      OBVIOUS
  <2>1. CASE o \in news
      BY <2>1, ConstantsAssumption DEF Content
  <2>2. CASE o \notin news
      BY <2>2, <1>7, ContentOfReferenced, EmptiedFacts DEF TypeOK
  <2>3. QED
      BY <2>1, <2>2
<1> HIDE DEF h
<1>9. /\ heap' \in [Object -> Content \cup {None}]
      /\ \A o \in Object : o \in Referenced' => heap'[o] = h[o] /\ heap'[o] # None
    BY <1>6, <1>8, SettledHeap
<1>10. \A d \in R : heap'[New(d, k)] = [value |-> v, access |-> a]
  <2> SUFFICES ASSUME NEW d \in R
               PROVE  heap'[New(d, k)] = [value |-> v, access |-> a]
      OBVIOUS
  <2>1. New(d, k) \in Referenced'
      BY <1>3 DEF Referenced
  <2>2. h[New(d, k)] = [value |-> v, access |-> a]
      BY <1>1 DEF h
  <2>3. QED
      BY <1>1, <1>9, <2>1, <2>2
<1>11. \A o \in Referenced' \ {None} : heap'[o] # None
  <2>1. Referenced' \ {None} \subseteq Object
      BY <1>2, <1>5 DEF Referenced
  <2>2. QED
      BY <1>9, <2>1
<1>12. QED
    BY <1>1, <1>2, <1>3, <1>4, <1>5, <1>9, <1>10, <1>11 DEF TypeOK, Content

(* The same for Uninstall. *)
LEMMA UninstallFacts ==
    ASSUME TypeOK, NEW c \in Class, NEW k \in Const, CachesKeptOrCleared, Uninstall(c, k)
    PROVE  /\ constants_table' \in [Class -> [Const -> Object \cup {None}]]
           /\ constants_table'[c][k] = None
           /\ \A d \in Class, j \in Const :
                 d # c \/ j # k => constants_table'[d][j] = constants_table[d][j]
           /\ TypeOK' <=> /\ declared' \in SUBSET Class
                          /\ zend_constants' \in [Global -> Value \cup {Null, None}]
<1>1. /\ constants_table' \in [Class -> [Const -> Object \cup {None}]]
      /\ constants_table'[c][k] = None
      /\ \A d \in Class, j \in Const :
            d # c \/ j # k => constants_table'[d][j] = constants_table[d][j]
    BY DEF Uninstall, TypeOK
<1>2. /\ cached' \in [Site -> [Const -> Object \cup {None}]]
      /\ \A d \in Site, j \in Const : cached'[d][j] \in {cached[d][j], None}
    BY CacheType DEF TypeOK
<1> DEFINE h == [o \in Object |-> IF o = constants_table[c][k] THEN Emptied(o) ELSE heap[o]]
<1>3. SettleHeap(h)
    BY DEF Uninstall
<1>4. \A o \in Object : o \in Referenced' => o \in Referenced
  <2> SUFFICES ASSUME NEW o \in Object, o \in Referenced'
               PROVE  o \in Referenced
      OBVIOUS
  <2>1. CASE \E d \in Class, j \in Const : o = constants_table'[d][j]
    <3>1. o # None
        BY ConstantsAssumption
    <3>2. QED
        BY <2>1, <3>1, <1>1 DEF Referenced
  <2>2. CASE \E d \in Site, j \in Const : o = cached'[d][j]
      BY <2>2, <1>2, ConstantsAssumption DEF Referenced
  <2>3. QED
      BY <2>1, <2>2 DEF Referenced
<1>5. \A o \in Object : o \in Referenced' => h[o] \in Content
    BY <1>4, ContentOfReferenced, EmptiedFacts DEF TypeOK
<1> HIDE DEF h
<1>6. /\ heap' \in [Object -> Content \cup {None}]
      /\ \A o \in Object : o \in Referenced' => heap'[o] # None
    BY <1>3, <1>5, SettledHeap
<1>7. \A o \in Referenced' \ {None} : heap'[o] # None
  <2>1. Referenced' \ {None} \subseteq Object
      BY <1>1, <1>2 DEF Referenced
  <2>2. QED
      BY <1>6, <2>1
<1>8. QED
    BY <1>1, <1>2, <1>6, <1>7 DEF TypeOK, Content

(* And for a step that only looks: the table is kept. *)
LEMMA LookFacts ==
    ASSUME TypeOK, UNCHANGED constants_table, SettleHeap(heap),
           cached' \in [Site -> [Const -> Object \cup {None}]],
           \A c \in Site, k \in Const : cached'[c][k] \in Referenced \cup {None},
           declared' = declared,
           zend_constants' \in [Global -> Value \cup {Null, None}]
    PROVE  /\ TypeOK'
           /\ \A o \in Object : o \in Referenced' => heap'[o] = heap[o]
<1>1. \A o \in Object : o \in Referenced' => o \in Referenced
  <2> SUFFICES ASSUME NEW o \in Object, o \in Referenced'
               PROVE  o \in Referenced
      OBVIOUS
  <2>1. CASE \E d \in Class, j \in Const : o = constants_table'[d][j]
      BY <2>1 DEF Referenced
  <2>2. CASE \E d \in Site, j \in Const : o = cached'[d][j]
      BY <2>2, ConstantsAssumption
  <2>3. QED
      BY <2>1, <2>2 DEF Referenced
<1>2. \A o \in Object : o \in Referenced' => heap[o] \in Content
    BY <1>1, ContentOfReferenced
<1>3. /\ heap' \in [Object -> Content \cup {None}]
      /\ \A o \in Object : o \in Referenced' => heap'[o] = heap[o] /\ heap'[o] # None
    BY <1>2, SettledHeap
<1>4. \A o \in Referenced' \ {None} : heap'[o] # None
  <2>1. Referenced' \ {None} \subseteq Object
      BY DEF Referenced, TypeOK
  <2>2. QED
      BY <1>3, <2>1
<1>5. QED
    BY <1>3, <1>4 DEF TypeOK, Content
-----------------------------------------------------------------------------
(* What a call on a class comes down to. *)
Replaceable(c, k) ==
    constants_table[c][k] # None => heap[constants_table[c][k]].access # "case"
Installs(c, k) ==
    \E v \in Value, a \in Access \ {"case"} :
        /\ Install(Receivers(c, a), k, v, a)
        /\ Replaceable(c, k)
        /\ \/ ClearCaches
           \/ KeepCaches /\ constants_table[c][k] = None
Uninstalls(c, k) == Uninstall(c, k) /\ Replaceable(c, k) /\ ClearCaches

LEMMA ClassCallCases ==
    ASSUME TypeOK, NEW c \in Class, ClassCall(c)
    PROVE  /\ c \in declared
           /\ UNCHANGED <<declared, zend_constants>>
           /\ \E k \in Const : Installs(c, k) \/ Uninstalls(c, k)
<1>1. ASSUME NEW k \in Const, NEW v \in Value, NEW a \in Flag, ClassAdd(c, k, v, a)
      PROVE  /\ c \in declared
             /\ UNCHANGED <<declared, zend_constants>>
             /\ Installs(c, k)
    BY <1>1, ConstantsAssumption DEF ClassAdd, Fetchable, Installs, Replaceable, Access
<1>2. ASSUME NEW k \in Const, ClassRemove(c, k)
      PROVE  /\ c \in declared
             /\ UNCHANGED <<declared, zend_constants>>
             /\ Uninstalls(c, k)
    BY <1>2 DEF ClassRemove, Removable, Fetchable, Uninstalls, Replaceable
<1>3. ASSUME NEW k \in Const, NEW v \in Value \cup {Unfit}, NEW flags \in Flag \cup {None},
             ClassRedefine(c, k, v, flags)
      PROVE  /\ c \in declared
             /\ UNCHANGED <<declared, zend_constants>>
             /\ Installs(c, k) \/ Uninstalls(c, k)
  <2> DEFINE a == Flags(c, k, flags)
  <2>1. Removable(c, k)
      BY <1>3 DEF ClassRedefine
  <2>2. constants_table[c][k] \in Object /\ constants_table[c][k] \in Referenced
      BY <2>1 DEF Removable, TypeOK, Referenced
  <2>0. Replaceable(c, k)
      BY <2>1 DEF Removable, Replaceable
  <2>3. a \in Access \ {"case"}
    <3>1. heap[constants_table[c][k]].access \in Access \ {"case"}
        BY <2>1, <2>2, ContentOfReferenced DEF Removable, Content
    <3>2. flags # None => flags \in Access \ {"case"}
        BY ConstantsAssumption DEF Access
    <3>3. QED
        BY <3>1, <3>2 DEF Flags
  <2>4. CASE v # Unfit
    <3>1. v \in Value
        BY <2>4
    <3>2. Install(Receivers(c, a), k, v, a) /\ ClearCaches
        BY <1>3, <2>4 DEF ClassRedefine
    <3>3. Installs(c, k)
        BY <2>0, <2>3, <3>1, <3>2 DEF Installs
    <3>4. QED
        BY <1>3, <2>1, <3>3 DEF ClassRedefine, Removable, Fetchable
  <2>5. CASE v = Unfit
      BY <1>3, <2>0, <2>1, <2>5 DEF ClassRedefine, Uninstalls, Removable, Fetchable
  <2>6. QED
      BY <2>4, <2>5
<1>4. QED
    BY <1>1, <1>2, <1>3 DEF ClassCall

LEMMA ReceiversInClass ==
    ASSUME NEW c \in Class, NEW a
    PROVE  Receivers(c, a) \in SUBSET Class /\ c \in Receivers(c, a)
    BY DEF Receivers, Below

LEMMA ClassCallTypeOK ==
    ASSUME TypeOK, NEW c \in Class, ClassCall(c)
    PROVE  TypeOK'
<1>1. /\ declared' \in SUBSET Class
      /\ zend_constants' \in [Global -> Value \cup {Null, None}]
    BY ClassCallCases DEF TypeOK
<1>2. PICK k \in Const : Installs(c, k) \/ Uninstalls(c, k)
    BY ClassCallCases
<1>3. CASE Installs(c, k)
  <2>1. PICK v \in Value, a \in Access : Install(Receivers(c, a), k, v, a)
      BY <1>3 DEF Installs
  <2>2. CachesKeptOrCleared
      BY <1>3 DEF Installs, CachesKeptOrCleared
  <2>3. QED
      BY <1>1, <2>1, <2>2, ReceiversInClass, InstallFacts
<1>4. CASE Uninstalls(c, k)
    BY <1>1, <1>4, UninstallFacts DEF Uninstalls, CachesKeptOrCleared
<1>5. QED
    BY <1>2, <1>3, <1>4

(* A class linked into the table: its own objects are new, the others are  *)
(* those of its parents. *)
LEMMA DeclareFacts ==
    ASSUME TypeOK, NEW c \in Class, DeclareClass(c)
    PROVE  /\ TypeOK'
           /\ c \notin declared /\ declared' = declared \cup {c}
           /\ cached' = cached
           /\ \A d \in Class \ {c} : constants_table'[d] = constants_table[d]
           /\ \A k \in Const : \/ constants_table'[c][k] = None
                              \/ /\ constants_table'[c][k] \notin Referenced
                                 /\ constants_table'[c][k].ce = c
                              \/ constants_table'[c][k] \in Inherited(c, k)
           /\ \A o \in Object : o \in Referenced /\ o \in Referenced' => heap'[o] = heap[o]
<1>1. PICK own \in [Const -> UNION { Own[c][k] : k \in Const } \cup {None}] :
        /\ c \notin declared
        /\ \A k \in Const : own[k] \in Own[c][k] \cup {None}
        /\ declared' = declared \cup {c}
        /\ cached' = cached
        /\ \A k \in Const : own[k] # None => Fresh(c, k) # {}
        /\ constants_table' =
              [constants_table EXCEPT ![c] = [k \in Const |->
                  IF own[k] # None THEN New(c, k)
                  ELSE IF Inherited(c, k) # {} THEN CHOOSE o \in Inherited(c, k) : TRUE
                  ELSE None]]
        /\ SettleHeap([o \in Object |->
              IF \E k \in Const : own[k] # None /\ o = New(c, k) THEN own[o.name] ELSE heap[o]])
        /\ zend_constants' = zend_constants
    BY DEF DeclareClass, KeepCaches
<1>2. \A k \in Const : own[k] # None => /\ New(c, k) \in Object
                                      /\ New(c, k) \notin Referenced
                                      /\ New(c, k).ce = c /\ New(c, k).name = k
    BY <1>1, NewIsFresh
<1>3. \A k \in Const : Inherited(c, k) \subseteq Object \cap Referenced
  <2> SUFFICES ASSUME NEW k \in Const, NEW o \in Inherited(c, k)
               PROVE  o \in Object /\ o \in Referenced
      OBVIOUS
  <2>1. PICK p \in Implements[c] \cup ({Parent[c]} \ {None}) : o = constants_table[p][k] /\ o # None
      BY DEF Inherited, ParentEntry, InterfaceEntries
  <2>2. p \in Class
      BY ConstantsAssumption
  <2>3. QED
      BY <2>1, <2>2 DEF TypeOK, Referenced
<1>4. \A k \in Const :
        \/ own[k] # None /\ constants_table'[c][k] = New(c, k)
        \/ constants_table'[c][k] = None
        \/ constants_table'[c][k] \in Inherited(c, k)
    BY <1>1 DEF TypeOK
<1>5. constants_table' \in [Class -> [Const -> Object \cup {None}]]
  <2> DEFINE row == [k \in Const |-> IF own[k] # None THEN New(c, k)
                        ELSE IF Inherited(c, k) # {} THEN CHOOSE o \in Inherited(c, k) : TRUE
                        ELSE None]
  <2>1. row \in [Const -> Object \cup {None}]
      BY <1>2, <1>3
  <2>2. constants_table' = [constants_table EXCEPT ![c] = row]
      BY <1>1
  <2> HIDE DEF row
  <2>3. QED
      BY <2>1, <2>2 DEF TypeOK
<1>6. \A d \in Class \ {c} : constants_table'[d] = constants_table[d]
    BY <1>1 DEF TypeOK
<1> DEFINE Newly(o) == \E k \in Const : own[k] # None /\ o = New(c, k)
           h == [o \in Object |-> IF Newly(o) THEN own[o.name] ELSE heap[o]]
<1>7. SettleHeap(h)
    BY <1>1
<1>8. \A o \in Object : o \in Referenced' => Newly(o) \/ o \in Referenced
  <2> SUFFICES ASSUME NEW o \in Object, o \in Referenced'
               PROVE  Newly(o) \/ o \in Referenced
      OBVIOUS
  <2>1. CASE \E d \in Class, j \in Const : o = constants_table'[d][j]
    <3>1. PICK d \in Class, j \in Const : o = constants_table'[d][j]
        BY <2>1
    <3>2. CASE d = c
        BY <3>1, <3>2, <1>3, <1>4, ConstantsAssumption
    <3>3. CASE d # c
        BY <3>1, <3>3, <1>6 DEF Referenced
    <3>4. QED
        BY <3>2, <3>3
  <2>2. CASE \E d \in Site, j \in Const : o = cached'[d][j]
      BY <2>2, <1>1 DEF Referenced
  <2>3. QED
      BY <2>1, <2>2 DEF Referenced
<1>9. \A o \in Object : Newly(o) => o \notin Referenced /\ h[o] \in [value : Value, access : Access]
    BY <1>1, <1>2, ConstantsAssumption
<1>10. \A o \in Object : o \in Referenced' => h[o] \in Content
  <2> SUFFICES ASSUME NEW o \in Object, o \in Referenced'
               PROVE  h[o] \in Content
      OBVIOUS
  <2>1. CASE Newly(o)
    <3>1. h[o] \in [value : Value, access : Access]
        BY <1>9, <2>1
    <3> HIDE DEF h
    <3>2. QED
        BY <3>1, ConstantsAssumption DEF Content
  <2>2. CASE ~Newly(o)
    <3>1. h[o] = heap[o] /\ o \in Referenced
        BY <2>2, <1>8
    <3> HIDE DEF h
    <3>2. QED
        BY <3>1, ContentOfReferenced
  <2>3. QED
      BY <2>1, <2>2
<1>11. \A o \in Object : o \in Referenced => h[o] = heap[o]
    BY <1>9
<1> HIDE DEF h, Newly
<1>12. /\ heap' \in [Object -> Content \cup {None}]
       /\ \A o \in Object : o \in Referenced' => heap'[o] = h[o] /\ heap'[o] # None
    BY <1>7, <1>10, SettledHeap
<1>13. \A o \in Referenced' \ {None} : heap'[o] # None
  <2>0. cached' \in [Site -> [Const -> Object \cup {None}]]
      BY <1>1 DEF TypeOK
  <2>1. Referenced' \ {None} \subseteq Object
      BY <2>0, <1>5 DEF Referenced
  <2>2. QED
      BY <1>12, <2>1
<1>14. TypeOK'
    BY <1>1, <1>5, <1>12, <1>13 DEF TypeOK, Content
<1>15. QED
    BY <1>1, <1>2, <1>4, <1>6, <1>11, <1>12, <1>14
-----------------------------------------------------------------------------
(* The type invariant. *)
LEMMA InitTypeOK == Init => TypeOK
    BY ConstantsAssumption DEF Init, TypeOK, NoEntries, Referenced

LEMMA FetchTypeOK ==
    ASSUME TypeOK, NEW c \in Site, NEW k \in Const, Fetch(c, k)
    PROVE  TypeOK'
<1>1. c \in Class
    BY ConstantsAssumption
<1>2. constants_table[c][k] \in Object /\ constants_table[c][k] \in Referenced
    BY <1>1 DEF Fetch, TypeOK, Referenced
<1>3. cached' \in [Site -> [Const -> Object \cup {None}]]
    BY <1>2 DEF Fetch, TypeOK
<1>4. \A d \in Site, j \in Const : cached'[d][j] \in Referenced \cup {None}
  <2> SUFFICES ASSUME NEW d \in Site, NEW j \in Const
               PROVE  cached'[d][j] \in Referenced
      OBVIOUS
  <2>1. cached'[d][j] \in {cached[d][j], constants_table[c][k]}
      BY DEF Fetch, TypeOK
  <2>2. QED
      BY <1>2, <2>1 DEF Referenced
<1>5. QED
    BY <1>3, <1>4, LookFacts DEF Fetch, TypeOK

GlobalCall ==
    \/ \E n \in Global, v \in Value : GlobalAdd(n, v)
    \/ \E n \in Global : GlobalRemove(n)
    \/ \E n \in Global, v \in Value \cup {Unfit} : GlobalRedefine(n, v)

LEMMA GlobalCallFacts ==
    ASSUME TypeOK, GlobalCall
    PROVE  TypeOK' /\ UNCHANGED constants_table /\ CachesKeptOrCleared
<1>1. ASSUME NEW n \in Global, NEW v \in Value, GlobalAdd(n, v)
      PROVE  TypeOK' /\ UNCHANGED constants_table /\ CachesKeptOrCleared
  <2>1. zend_constants' \in [Global -> Value \cup {Null, None}]
      BY <1>1 DEF GlobalAdd, TypeOK
  <2>2. UNCHANGED <<declared, constants_table, heap, cached>>
      BY <1>1 DEF GlobalAdd, class_vars
  <2>3. QED
      BY <2>1, <2>2
      DEF TypeOK, Referenced, CachesKeptOrCleared, KeepCaches
<1>2. ASSUME ClearCaches, UNCHANGED constants_table, SettleHeap(heap), declared' = declared,
             zend_constants' \in [Global -> Value \cup {Null, None}]
      PROVE  TypeOK' /\ UNCHANGED constants_table /\ CachesKeptOrCleared
  <2>1. /\ cached' \in [Site -> [Const -> Object \cup {None}]]
        /\ \A c \in Site, k \in Const : cached'[c][k] \in Referenced \cup {None}
      BY <1>2 DEF ClearCaches, NoEntries
  <2>2. QED
      BY <1>2, <2>1, LookFacts DEF CachesKeptOrCleared
<1>3. ASSUME NEW n \in Global, GlobalRemove(n)
      PROVE  TypeOK' /\ UNCHANGED constants_table /\ CachesKeptOrCleared
    BY <1>2, <1>3 DEF GlobalRemove, TypeOK
<1>4. ASSUME NEW n \in Global, NEW v \in Value \cup {Unfit}, GlobalRedefine(n, v)
      PROVE  TypeOK' /\ UNCHANGED constants_table /\ CachesKeptOrCleared
  <2>1. zend_constants' \in [Global -> Value \cup {Null, None}]
      BY <1>4 DEF GlobalRedefine, TypeOK
  <2>2. QED
      BY <1>2, <1>4, <2>1 DEF GlobalRedefine
<1>5. QED
    BY <1>1, <1>3, <1>4 DEF GlobalCall

LEMMA NextTypeOK == TypeOK /\ [Next]_vars => TypeOK'
<1>1. CASE UNCHANGED vars
    BY <1>1 DEF vars, class_vars, TypeOK, Referenced
<1>2. QED
    BY <1>1, ClassCallTypeOK, DeclareFacts, FetchTypeOK, GlobalCallFacts DEF Next, GlobalCall

(* The tables keep their types, and what they refer to is there. *)
THEOREM TypeCorrect == Spec => []TypeOK
    BY InitTypeOK, NextTypeOK, PTL DEF Spec
-----------------------------------------------------------------------------
(* What Install leaves in the tables and in the objects it makes. *)
LEMMA InstalledEntries ==
    ASSUME TypeOK, NEW R \in SUBSET Class, NEW k \in Const, NEW v \in Value,
           NEW a \in Access, Install(R, k, v, a)
    PROVE  /\ constants_table' \in [Class -> [Const -> Object \cup {None}]]
           /\ \A d \in R : /\ constants_table'[d][k] \in Object
                           /\ heap'[constants_table'[d][k]] = [value |-> v, access |-> a]
           /\ \A d \in Class, j \in Const :
                 d \notin R \/ j # k => constants_table'[d][j] = constants_table[d][j]
<1>1. /\ constants_table' \in [Class -> [Const -> Object \cup {None}]]
      /\ \A d \in R : constants_table'[d][k] = New(d, k)
      /\ \A d \in R : New(d, k) \in Object
    BY NewIsFresh DEF Install, TypeOK
<1>2. \A d \in R : heap'[New(d, k)] = [value |-> v, access |-> a]
  <2> SUFFICES ASSUME NEW d \in R
               PROVE  heap'[New(d, k)] = [value |-> v, access |-> a]
      OBVIOUS
  <2>1. New(d, k) \in Referenced'
      BY <1>1 DEF Referenced
  <2> DEFINE o == New(d, k)
  <2>2. o \in { New(e, k) : e \in R }
      OBVIOUS
  <2>3. o \in Object /\ o \in Referenced'
      BY <1>1, <2>1
  <2> HIDE DEF o
  <2>4. heap'[o] = [value |-> v, access |-> a]
      BY <2>2, <2>3 DEF Install, SettleHeap
  <2>5. QED
      BY <2>4 DEF o
<1>3. \A d \in Class, j \in Const :
         d \notin R \/ j # k => constants_table'[d][j] = constants_table[d][j]
    BY DEF Install, TypeOK
<1>4. QED
    BY <1>1, <1>2, <1>3

(* Which entries a step can change, and how. *)
LEMMA ChangedEntry ==
    ASSUME TypeOK, Next, NEW c \in Class, NEW k \in Const,
           constants_table'[c][k] \notin {None, constants_table[c][k]}
    PROVE  \/ DeclareClass(c)
           \/ \E x \in Class, v \in Value, a \in Access :
                 /\ declared' = declared
                 /\ c \in Receivers(x, a)
                 /\ \A d \in Receivers(x, a) :
                       /\ constants_table'[d][k] \in Object
                       /\ heap'[constants_table'[d][k]] = [value |-> v, access |-> a]
                 /\ \A d \in Class \ Receivers(x, a) : constants_table'[d] = constants_table[d]
<1>1. CASE \E x \in Class : ClassCall(x)
  <2>1. PICK x \in Class : ClassCall(x)
      BY <1>1
  <2>2. PICK j \in Const : Installs(x, j) \/ Uninstalls(x, j)
      BY <2>1, ClassCallCases
  <2>3. ~Uninstalls(x, j)
    <3> SUFFICES ASSUME Uninstalls(x, j)
                 PROVE  FALSE
        OBVIOUS
    <3>1. CachesKeptOrCleared /\ Uninstall(x, j)
        BY DEF Uninstalls, CachesKeptOrCleared
    <3>2. /\ constants_table'[x][j] = None
          /\ \A d \in Class, m \in Const :
                d # x \/ m # j => constants_table'[d][m] = constants_table[d][m]
        BY <3>1, UninstallFacts
    <3>3. QED
        BY <3>2
  <2>4. PICK v \in Value, a \in Access : Install(Receivers(x, a), j, v, a)
      BY <2>2, <2>3 DEF Installs
  <2>5. CachesKeptOrCleared
      BY <2>2, <2>3 DEF Installs, CachesKeptOrCleared
  <2>6. ASSUME NEW R \in SUBSET Class, Install(R, j, v, a)
        PROVE  /\ constants_table' \in [Class -> [Const -> Object \cup {None}]]
               /\ \A d \in R : /\ constants_table'[d][j] \in Object
                                /\ heap'[constants_table'[d][j]] = [value |-> v, access |-> a]
               /\ \A d \in Class, m \in Const :
                     d \notin R \/ m # j => constants_table'[d][m] = constants_table[d][m]
      BY <2>6, InstalledEntries
  <2> DEFINE R == Receivers(x, a)
  <2>7. /\ constants_table' \in [Class -> [Const -> Object \cup {None}]]
        /\ \A d \in R : /\ constants_table'[d][j] \in Object
                         /\ heap'[constants_table'[d][j]] = [value |-> v, access |-> a]
        /\ \A d \in Class, m \in Const :
              d \notin R \/ m # j => constants_table'[d][m] = constants_table[d][m]
      BY <2>4, <2>6, ReceiversInClass
  <2> HIDE DEF R
  <2>8. c \in R /\ j = k
      BY <2>7
  <2>9. \A d \in Class \ R : constants_table'[d] = constants_table[d]
      BY <2>7 DEF TypeOK
  <2>10. declared' = declared
      BY <2>1, ClassCallCases
  <2>11. QED
      BY <2>7, <2>8, <2>9, <2>10 DEF R
<1>2. CASE \E x \in Class : DeclareClass(x)
    BY <1>2, DeclareFacts
<1>3. CASE \E x \in Site, j \in Const : Fetch(x, j)
    BY <1>3 DEF Fetch
<1>4. CASE GlobalCall
    BY <1>4, GlobalCallFacts
<1>5. QED
    BY <1>1, <1>2, <1>3, <1>4 DEF Next, GlobalCall

(* Every class below one that gets a new constant follows, for every shape *)
(* of the tree. *)
THEOREM HeirsAlwaysFollow == Spec => HeirsFollow
<1>1. ASSUME TypeOK, Next, NEW c \in declared, NEW k \in Const,
             constants_table'[c][k] \notin {None, constants_table[c][k]},
             heap'[constants_table'[c][k]].access # "private",
             NEW d \in Below(c) \cap declared
      PROVE  Seen(d, k)' = heap'[constants_table'[c][k]].value
  <2>1. c \in Class /\ d \in Class
      BY <1>1 DEF TypeOK
  <2>2. ~DeclareClass(c)
      BY <1>1 DEF DeclareClass
  <2>3. PICK x \in Class, v \in Value, a \in Access :
           /\ c \in Receivers(x, a)
           /\ \A e \in Receivers(x, a) :
                 /\ constants_table'[e][k] \in Object
                 /\ heap'[constants_table'[e][k]] = [value |-> v, access |-> a]
      BY <1>1, <2>1, <2>2, ChangedEntry
  <2>4. a # "private"
      BY <1>1, <2>3
  <2>5. d \in Receivers(x, a)
    <3>1. c = x \/ x \in Super[c]
        BY <2>3, <2>4 DEF Receivers, Below
    <3>2. x \in Super[d]
        BY <1>1, <2>1, <3>1, ConstantsAssumption DEF Below
    <3>3. QED
        BY <1>1, <2>4, <3>2 DEF Receivers, Below
  <2>6. QED
      BY <2>3, <2>5, ConstantsAssumption DEF Seen
<1>2. TypeOK /\ [Next]_vars =>
        [\A c \in declared, k \in Const :
            LET o == constants_table'[c][k]
            IN  o \notin {None, constants_table[c][k]} /\ heap'[o].access # "private" =>
                  \A d \in Below(c) \cap declared : Seen(d, k)' = heap'[o].value]_vars
    BY <1>1
<1>3. QED
    BY <1>2, InitTypeOK, NextTypeOK, PTL DEF Spec, HeirsFollow

(* And a private constant is one class's alone. *)
THEOREM PrivateAlwaysStaysHome == Spec => PrivateStaysHome
<1>1. ASSUME TypeOK, Next, NEW c \in Class, NEW k \in Const,
             constants_table'[c][k] \notin {None, constants_table[c][k]},
             heap'[constants_table'[c][k]].access = "private",
             NEW d \in Class \ {c}
      PROVE  constants_table'[d] = constants_table[d]
  <2>1. CASE DeclareClass(c)
      BY <1>1, <2>1, DeclareFacts
  <2>2. CASE ~DeclareClass(c)
    <3>1. PICK x \in Class, v \in Value, a \in Access :
             /\ c \in Receivers(x, a)
             /\ heap'[constants_table'[c][k]] = [value |-> v, access |-> a]
             /\ \A e \in Class \ Receivers(x, a) : constants_table'[e] = constants_table[e]
        BY <1>1, <2>2, ChangedEntry
    <3>2. Receivers(x, a) = {c}
        BY <1>1, <3>1 DEF Receivers
    <3>3. QED
        BY <3>1, <3>2
  <2>3. QED
      BY <2>1, <2>2
<1>2. TypeOK /\ [Next]_vars =>
        [\A c \in Class, k \in Const :
            LET o == constants_table'[c][k]
            IN  o \notin {None, constants_table[c][k]} /\ heap'[o].access = "private" =>
                  \A d \in Class \ {c} : constants_table'[d] = constants_table[d]]_vars
    BY <1>1
<1>3. QED
    BY <1>2, InitTypeOK, NextTypeOK, PTL DEF Spec, PrivateStaysHome

(* What is there under an internal name is found under that name first, and *)
(* refused; nothing is put over it. *)
THEOREM InternalsAlwaysStay == Spec => []InternalsStay
<1>1. Init => InternalsStay
    BY ConstantsAssumption DEF Init, InternalsStay
<1>2. TypeOK /\ InternalsStay /\ [Next]_vars => InternalsStay'
  <2> SUFFICES ASSUME TypeOK, InternalsStay, [Next]_vars
               PROVE  InternalsStay'
      OBVIOUS
  <2>1. Internal \subseteq Global /\ Null # None
      BY ConstantsAssumption
  <2>2. zend_constants \in [Global -> Value \cup {Null, None}]
      BY DEF TypeOK
  <2>3. ASSUME NEW n \in Global, NEW v \in Value, GlobalAdd(n, v)
        PROVE  InternalsStay'
      BY <2>1, <2>2, <2>3 DEF GlobalAdd, InternalsStay
  <2>4. ASSUME NEW n \in Global, GlobalRemove(n)
        PROVE  InternalsStay'
      BY <2>1, <2>2, <2>4 DEF GlobalRemove, GlobalRemovable, InternalsStay
  <2>5. ASSUME NEW n \in Global, NEW v \in Value \cup {Unfit}, GlobalRedefine(n, v)
        PROVE  InternalsStay'
    <3>1. PICK m \in GlobalRemovable(n) :
             zend_constants' = IF v = Unfit THEN [zend_constants EXCEPT ![m] = None]
                               ELSE [zend_constants EXCEPT ![m] = None, ![n] = v]
        BY <2>5 DEF GlobalRedefine
    <3>2. m \notin Internal
        BY <3>1 DEF GlobalRemovable
    <3>3. n \notin Internal
        BY <2>1, <3>1 DEF GlobalRemovable, Found, InternalsStay
    <3>4. QED
        BY <2>1, <2>2, <3>1, <3>2, <3>3 DEF InternalsStay
  <2>6. CASE \E c \in Class : ClassCall(c)
      BY <2>6, ClassCallCases DEF InternalsStay
  <2>7. CASE \E c \in Class : DeclareClass(c)
      BY <2>7 DEF DeclareClass, InternalsStay
  <2>8. CASE \E c \in Site, k \in Const : Fetch(c, k)
      BY <2>8 DEF Fetch, InternalsStay
  <2>9. CASE UNCHANGED vars
      BY <2>9 DEF vars, InternalsStay
  <2>10. QED
      BY <2>3, <2>4, <2>5, <2>6, <2>7, <2>8, <2>9 DEF Next
<1>3. QED
    BY <1>1, <1>2, InitTypeOK, NextTypeOK, PTL DEF Spec

===============================================================================
