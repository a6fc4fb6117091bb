----------------------- MODULE ConstantDestructorsProofs -----------------------
(* Theorems of ConstantDestructors.  Its steps are steps of Constants, on   *)
(* which the lemmas of ConstantsSharingProofs speak, except for those that  *)
(* begin and end a call whose destructor runs.                              *)
EXTENDS ConstantDestructors, ConstantsSharingProofs

(* What holds of the classes in every step between.                         *)
ClassInv == SharingOK /\ StaleInv

(* The classes before and after a step that leaves their table alone and    *)
(* keeps or clears the caches.                                              *)
LEMMA TablesKept ==
    ASSUME ClassInv, UNCHANGED <<declared, constants_table>>,
           zend_constants' \in [Global -> Value \cup {Null, None}],
           UNCHANGED <<heap, cached>> \/ (ClearCaches /\ SettleHeap(heap))
    PROVE  ClassInv'
<1>1. Sharing'
    BY DEF ClassInv, SharingOK, Sharing
<1>2. CASE UNCHANGED <<heap, cached>>
  <2>1. TypeOK'
      BY <1>2 DEF ClassInv, SharingOK, TypeOK, Referenced
  <2>2. StaleInv'
      BY <1>2 DEF ClassInv, StaleInv, AddedAbove, Offers, Seen, Below
  <2>3. QED
      BY <1>1, <2>1, <2>2 DEF ClassInv, SharingOK
<1>3. CASE ClearCaches /\ SettleHeap(heap)
  <2>1. /\ cached' \in [Site -> [Const -> Object \cup {None}]]
        /\ \A c \in Site, k \in Const : cached'[c][k] \in Referenced \cup {None}
      BY <1>3 DEF ClearCaches, NoEntries
  <2>2. TypeOK'
      BY <1>3, <2>1, LookFacts DEF ClassInv, SharingOK, TypeOK
  <2>3. StaleInv'
      BY <1>3 DEF StaleInv, ClearCaches, NoEntries
  <2>4. QED
      BY <1>1, <2>2, <2>3 DEF ClassInv, SharingOK
<1>4. QED
    BY <1>2, <1>3

(* What the end of a call on a class leaves of it.                          *)
LEMMA EndClassFacts ==
    ASSUME ClassInv, DestructorsTypeOK, NEW c \in Class, NEW k \in Const, EndClass(c, k)
    PROVE  /\ ClassInv'
           /\ IF pending.value = Unfit THEN constants_table'[c][k] = None
              ELSE \A d \in Receivers(c, pending.access) : Seen(d, k)' = pending.value
<1> DEFINE v == pending.value
           a == pending.access
<1>1. /\ c # None /\ c \in declared /\ a \in Access /\ v \in Value \cup {Unfit}
      /\ TypeOK /\ Unfit \notin Value
    BY ConstantsAssumption DEF DestructorsTypeOK, EndClass, Call
<1>2. /\ ClearCaches /\ UNCHANGED <<declared, zend_constants>>
      /\ IF v = Unfit THEN Uninstall(c, k) ELSE Install(Receivers(c, a), k, v, a)
    BY <1>1 DEF EndClass, GoneFirst, SitesWhen, ClearSites
<1>3. StaleInv' /\ CachesKeptOrCleared
    BY <1>2 DEF StaleInv, ClearCaches, NoEntries, CachesKeptOrCleared
<1>4. CASE v = Unfit
  <2>1. TypeOK' /\ constants_table'[c][k] = None
      BY <1>1, <1>2, <1>3, <1>4, UninstallFacts DEF TypeOK
  <2>2. \A d \in Class, i \in Const : constants_table'[d][i] \in {None, constants_table[d][i]}
      BY <1>1, <1>2, <1>4 DEF Uninstall, TypeOK
  <2>3. Sharing'
      BY <1>2, <2>2 DEF ClassInv, SharingOK, Sharing
  <2>4. QED
      BY <1>3, <1>4, <2>1, <2>3 DEF ClassInv, SharingOK
<1>5. CASE v # Unfit
  <2>1. PICK R \in SUBSET Class : R = Receivers(c, a)
      BY ReceiversInClass
  <2>2. R \subseteq declared
      BY <1>1, <2>1, DeclaredReceivers
  <2>3. v \in Value /\ Install(R, k, v, a)
      BY <1>1, <1>2, <1>5, <2>1
  <2>4. Sharing'
      BY <1>2, <2>2, <2>3, InstallSharing DEF ClassInv
  <2>5. TypeOK'
      BY <1>1, <1>2, <1>3, <2>3, InstallFacts DEF TypeOK
  <2>6. ASSUME NEW w \in Value, NEW b \in Access, Install(R, k, w, b)
        PROVE  \A d \in R : Seen(d, k)' = w
    <3>1. \A d \in R : /\ constants_table'[d][k] \in Object
                        /\ heap'[constants_table'[d][k]] = [value |-> w, access |-> b]
        BY <1>1, <2>6, InstalledEntries
    <3>2. QED
        BY <3>1, ConstantsAssumption DEF Seen
  <2>7. \A d \in R : Seen(d, k)' = v
      BY <1>1, <2>3, <2>6
  <2>8. QED
      BY <1>3, <1>5, <2>1, <2>4, <2>5, <2>7 DEF ClassInv, SharingOK
<1>6. QED
    BY <1>4, <1>5

(* A call that is one step is a step of Constants.                          *)
LEMMA OneStep ==
    ASSUME GentleStep \/ ClearingStep
    PROVE  Next
<1>1. ASSUME GentleStep
      PROVE  Next
    BY <1>1 DEF GentleStep, Next, ClassCall
<1>2. ASSUME ClearingStep
      PROVE  Next
    BY <1>2 DEF ClearingStep, Next, ClassCall
<1>3. QED
    BY <1>1, <1>2
-----------------------------------------------------------------------------
(* No call site is left with a global constant that is gone, unless the     *)
(* destructor that may have read it still runs.                             *)
GlobalSites == pending = None => \A n \in Reader : remembered[n] \in {None, zend_constants[n]}

DInv == DestructorsTypeOK /\ ClassInv /\ GlobalSites

LEMMA DeclaredGrows ==
    ASSUME TypeOK, Next
    PROVE  declared \subseteq declared'
<1>1. CASE \E c \in Class : ClassCall(c)
    BY <1>1, ClassCallCases
<1>2. CASE \E c \in Class : DeclareClass(c)
    BY <1>2, DeclareFacts
<1>3. CASE ~\E c \in Class : ClassCall(c) \/ DeclareClass(c)
    BY <1>3, OtherSteps
<1>4. QED
    BY <1>1, <1>2, <1>3

LEMMA CallKeepsInv ==
    ASSUME DInv, GentleStep \/ ClearingStep, UNCHANGED pending
    PROVE  DInv'
<1>0. TypeOK /\ Next
    BY OneStep DEF DInv, DestructorsTypeOK
<1>1. ClassInv'
    BY <1>0, NextSharing, NextStale DEF DInv, ClassInv
<1>2. declared \subseteq declared'
    BY <1>0, DeclaredGrows
<1>3. remembered' \in [Reader -> Value \cup {Null, None}]
    BY DEF DInv, DestructorsTypeOK, GentleStep, ClearingStep
<1>4. DestructorsTypeOK'
    BY <1>1, <1>2, <1>3 DEF DInv, DestructorsTypeOK, ClassInv, SharingOK
<1>5. ASSUME NEW n \in Reader, pending = None
      PROVE  remembered'[n] \in {None, zend_constants'[n]}
  <2>1. CASE ClearingStep
      BY <2>1 DEF ClearingStep
  <2>2. CASE GentleStep
    <3>1. remembered'[n] = remembered[n] /\ remembered[n] \in {None, zend_constants[n]}
        BY <1>5, <2>2 DEF GentleStep, DInv, GlobalSites
    <3>2. zend_constants[n] # None => zend_constants'[n] = zend_constants[n]
      <4>1. ASSUME NEW m \in Global, NEW v \in Value, GlobalAdd(m, v)
            PROVE  zend_constants[n] # None => zend_constants'[n] = zend_constants[n]
          BY <1>0, <4>1, DestructorsAssumption DEF GlobalAdd, TypeOK
      <4>2. QED
          BY <2>2, <4>1 DEF GentleStep, DeclareClass, Fetch, ClassAdd
    <3>3. QED
        BY <3>1, <3>2
  <2>3. QED
      BY <2>1, <2>2
<1>6. QED
    BY <1>1, <1>4, <1>5 DEF DInv, GlobalSites

LEMMA FetchKeepsInv ==
    ASSUME DInv, NEW n \in Reader, FetchGlobal(n), UNCHANGED pending
    PROVE  DInv'
<1>1. ClassInv' /\ TypeOK'
    BY DEF FetchGlobal, vars, class_vars, DInv, ClassInv, SharingOK, Sharing, StaleInv, TypeOK,
           AddedAbove, Offers, Seen, Below, Referenced
<1>2. zend_constants[n] \in Value \cup {Null, None}
    BY DestructorsAssumption DEF DInv, DestructorsTypeOK, TypeOK
<1>3. DestructorsTypeOK'
    BY <1>1, <1>2 DEF FetchGlobal, vars, class_vars, DInv, DestructorsTypeOK
<1>4. GlobalSites'
    BY DEF FetchGlobal, vars, DInv, GlobalSites, DestructorsTypeOK
<1>5. QED
    BY <1>1, <1>3, <1>4 DEF DInv

LEMMA BeginClassKeepsInv ==
    ASSUME DInv, NEW c \in Class, NEW k \in Const, NEW v \in Value \cup {Unfit},
           NEW flags \in Flag \cup {None}, BeginClass(c, k, v, flags)
    PROVE  DInv'
<1>0. c # None /\ TypeOK
    BY ConstantsAssumption DEF DInv, DestructorsTypeOK
<1>1. /\ UNCHANGED <<declared, constants_table, zend_constants, heap, cached, remembered>>
      /\ pending' = [ce |-> c, name |-> k, value |-> v, access |-> Flags(c, k, flags)]
    BY <1>0 DEF BeginClass, GoneFirst, SitesWhen, KeepSites, KeepCaches
<1>2. ClassInv'
    BY <1>0, <1>1, TablesKept DEF DInv, TypeOK
<1>3. c \in declared \ Interface /\ Flags(c, k, flags) \in Access \ {"case"}
  <2>1. constants_table[c][k] \in Object /\ constants_table[c][k] \in Referenced
      BY <1>0, Entry DEF BeginClass, Removable
  <2>2. heap[constants_table[c][k]].access \in Access \ {"case"}
      BY <1>0, <2>1, ContentOfReferenced DEF BeginClass, Removable, Content
  <2>3. QED
      BY <2>2, ConstantsAssumption DEF BeginClass, Removable, Fetchable, Flags, Access
<1>4. pending' \in Call /\ pending' # None
    BY <1>1, <1>3, DestructorsAssumption DEF Call
<1>5. DestructorsTypeOK'
    BY <1>0, <1>1, <1>2, <1>3, <1>4 DEF DInv, DestructorsTypeOK, ClassInv, SharingOK
<1>6. QED
    BY <1>2, <1>4, <1>5 DEF DInv, GlobalSites

LEMMA BeginGlobalKeepsInv ==
    ASSUME DInv, NEW n \in Global, NEW v \in Value \cup {Unfit}, BeginGlobal(n, v)
    PROVE  DInv'
<1>1. PICK m \in Global :
        /\ zend_constants' = [zend_constants EXCEPT ![m] = None]
        /\ UNCHANGED <<declared, constants_table, heap, cached, remembered>>
        /\ pending' = [ce |-> None, name |-> n, value |-> v, access |-> None]
    BY ConstantsAssumption DEF BeginGlobal, GlobalRemovable, Found, SitesWhen, KeepSites, KeepCaches
<1>2. zend_constants' \in [Global -> Value \cup {Null, None}]
    BY <1>1 DEF DInv, DestructorsTypeOK, TypeOK
<1>3. ClassInv'
    BY <1>1, <1>2, TablesKept DEF DInv
<1>4. pending' \in Call /\ pending' # None
    BY <1>1, DestructorsAssumption DEF Call
<1>5. DestructorsTypeOK'
    BY <1>1, <1>3, <1>4 DEF DInv, DestructorsTypeOK, ClassInv, SharingOK
<1>6. QED
    BY <1>3, <1>4, <1>5 DEF DInv, GlobalSites

LEMMA EndClassKeepsInv ==
    ASSUME DInv, NEW c \in Class, NEW k \in Const, EndClass(c, k)
    PROVE  DInv'
<1>1. ClassInv'
    BY EndClassFacts DEF DInv
<1>2. pending' = None /\ remembered' = [n \in Reader |-> None]
    BY DEF EndClass, SitesWhen, ClearSites
<1>3. QED
    BY <1>1, <1>2 DEF DInv, DestructorsTypeOK, GlobalSites, ClassInv, SharingOK

LEMMA EndGlobalKeepsInv ==
    ASSUME DInv, NEW n \in Global, EndGlobal(n)
    PROVE  DInv'
<1>1. zend_constants' \in [Global -> Value \cup {Null, None}]
  <2>1. pending.value # Unfit => pending.value \in Value
      BY DEF EndGlobal, DInv, DestructorsTypeOK, Call
  <2>2. QED
      BY <2>1 DEF EndGlobal, DInv, DestructorsTypeOK, TypeOK
<1>2. ClassInv'
    BY <1>1, TablesKept DEF EndGlobal, SitesWhen, ClearSites, DInv
<1>3. pending' = None /\ remembered' = [m \in Reader |-> None]
    BY DEF EndGlobal, SitesWhen, ClearSites
<1>4. QED
    BY <1>2, <1>3 DEF DInv, DestructorsTypeOK, GlobalSites, ClassInv, SharingOK

LEMMA InitDInv == DestructorsInit => DInv
<1> SUFFICES ASSUME DestructorsInit
             PROVE  DInv
    OBVIOUS
<1>1. ClassInv
    BY InitSharing DEF DestructorsInit, Init, ClassInv, StaleInv, NoEntries
<1>2. QED
    BY <1>1 DEF DestructorsInit, DInv, DestructorsTypeOK, GlobalSites, ClassInv, SharingOK

LEMMA NextDInv == DInv /\ [DestructorsNext]_dvars => DInv'
<1> SUFFICES ASSUME DInv, [DestructorsNext]_dvars
             PROVE  DInv'
    OBVIOUS
<1>1. CASE (GentleStep \/ ClearingStep) /\ UNCHANGED pending
    BY <1>1, CallKeepsInv
<1>2. CASE \E n \in Reader : FetchGlobal(n) /\ UNCHANGED pending
    BY <1>2, FetchKeepsInv
<1>3. CASE \E c \in Class, k \in Const : EndClass(c, k)
    BY <1>3, EndClassKeepsInv
<1>4. CASE \E c \in Class, k \in Const, v \in Value \cup {Unfit}, flags \in Flag \cup {None} :
              BeginClass(c, k, v, flags)
    BY <1>4, BeginClassKeepsInv
<1>5. CASE \E n \in Global : EndGlobal(n)
    BY <1>5, EndGlobalKeepsInv
<1>6. CASE \E n \in Global, v \in Value \cup {Unfit} : BeginGlobal(n, v)
    BY <1>6, BeginGlobalKeepsInv
<1>7. CASE UNCHANGED dvars
  <2>1. UNCHANGED <<declared, constants_table, heap, cached, zend_constants, remembered, pending>>
      BY <1>7 DEF dvars, vars, class_vars
  <2>2. ClassInv'
      BY <2>1, TablesKept DEF DInv, DestructorsTypeOK, TypeOK
  <2>3. QED
      BY <2>1, <2>2 DEF DInv, DestructorsTypeOK, GlobalSites, ClassInv, SharingOK
<1>8. QED
    BY <1>1, <1>2, <1>3, <1>4, <1>5, <1>6, <1>7 DEF DestructorsNext

(* The tables, the caches and the interrupted call keep their types.        *)
THEOREM DestructorsTypeCorrect == DestructorsSpec => []DestructorsTypeOK
<1>1. DInv => DestructorsTypeOK
    BY DEF DInv
<1>2. QED
    BY <1>1, InitDInv, NextDInv, PTL DEF DestructorsSpec

(* Whatever a destructor reads, once its call has ended the caches hold     *)
(* nothing that the call took away.                                         *)
THEOREM SitesAlwaysFollow == DestructorsSpec => []SitesFollow
<1>1. DInv => SitesFollow
    BY DEF DInv, ClassInv, GlobalSites, SitesFollow, StaleInv, AddedAbove, Offers,
           StaleOnlyBelowAnAdd
<1>2. QED
    BY <1>1, InitDInv, NextDInv, PTL DEF DestructorsSpec

(* And whatever it changes, the call does what it was asked to do.          *)
THEOREM CallsAlwaysTakeEffect == DestructorsSpec => CallsTakeEffect
<1>1. ASSUME DInv, DestructorsNext, NEW p \in {pending} \ {None}, pending' = None
      PROVE  IF p.ce = None THEN p.value # Unfit => zend_constants'[p.name] # None
             ELSE IF p.value = Unfit THEN constants_table'[p.ce][p.name] = None
             ELSE \A d \in Receivers(p.ce, p.access) : Seen(d, p.name)' = p.value
  <2>1. CASE \E c \in Class, k \in Const : EndClass(c, k)
    <3>1. PICK c \in Class, k \in Const : EndClass(c, k)
        BY <2>1
    <3>2. p.ce = c /\ p.name = k /\ c # None /\ p = pending
        BY <1>1, <3>1, ConstantsAssumption DEF EndClass
    <3>3. QED
        BY <1>1, <3>1, <3>2, EndClassFacts DEF DInv
  <2>2. CASE \E n \in Global : EndGlobal(n)
    <3>1. PICK n \in Global : EndGlobal(n)
        BY <2>2
    <3>2. p.ce = None /\ p.name = n /\ p = pending
        BY <1>1, <3>1 DEF EndGlobal
    <3>3. p.value # Unfit => p.value # None
        BY <1>1, <3>2, ConstantsAssumption DEF DInv, DestructorsTypeOK, Call
    <3>4. QED
        BY <1>1, <3>1, <3>2, <3>3 DEF EndGlobal, DInv, DestructorsTypeOK, TypeOK
  <2>3. QED
      BY <1>1, <2>1, <2>2 DEF DestructorsNext, BeginClass, BeginGlobal
<1>2. DInv /\ [DestructorsNext]_dvars =>
        [\A p \in {pending} \ {None} : pending' = None =>
            IF p.ce = None THEN p.value # Unfit => zend_constants'[p.name] # None
            ELSE IF p.value = Unfit THEN constants_table'[p.ce][p.name] = None
            ELSE \A d \in Receivers(p.ce, p.access) : Seen(d, p.name)' = p.value]_dvars
    BY <1>1
<1>3. QED
    BY <1>2, InitDInv, NextDInv, PTL DEF DestructorsSpec, CallsTakeEffect

================================================================================
