---------------------------- MODULE CallSitesProofs ----------------------------
(* Proofs about CallSites, for any code that calls any functions.          *)
EXTENDS CallSites, SequenceTheorems, TLAPS

(* Code that does not exist remembers nothing; the code of a file that     *)
(* exists is on the stack, once; a redefinition in whose middle a          *)
(* destructor runs still has the dying function under its name.            *)
BlankUncompiled == \A c \in Caller : c \notin compiled => cached[c] = None /\ size[c] = 0
ScriptsOnStack ==
    \A c \in compiled : Home[c] = "script" => c \in OnStack
ScriptsOnce ==
    \A i, j \in 1..Len(stack) :
        stack[i] = stack[j] /\ Home[stack[i]] = "script" => i = j
PendingDies ==
    pending # None =>
        /\ pending.old \in Dying
        /\ pending.new # None => function_table[pending.name] = pending.old

(* The destructor of the table is one of four, and runkit7's in an update. *)
DtorsOK ==
    /\ pDestructor \in {"zend", "runkit", "null", "endless"}
    /\ saved \in {"zend", "null"}
    /\ NoDtorLeftBehind

Inv ==
    /\ TypeOK /\ BlankUncompiled /\ ScriptsOnStack /\ ScriptsOnce
    /\ PendingDies /\ NoDtorLeftBehind /\ StaleWasDying

(* The two walks find all code outside an alias.                           *)
LEMMA OutsideIsReached ==
    ASSUME Inv, NEW c \in compiled, Home[c] # "inner"
    PROVE  c \in Reached
    BY CallSitesAssumption DEF Inv, TypeOK, ScriptsOnStack, Reached, Homes

(* So a clearing leaves no site outside an alias with a pointer.           *)
LEMMA Cleared ==
    ASSUME Inv, ClearCaches
    PROVE  /\ cached' \in [Caller -> Fun \cup {None}]
           /\ \A c \in Caller : cached'[c] \in {cached[c], None}
           /\ \A c \in Caller : Home[c] # "inner" => cached'[c] = None
<1>1. /\ cached' \in [Caller -> Fun \cup {None}]
      /\ \A c \in Caller : cached'[c] \in {cached[c], None}
    BY DEF Inv, TypeOK, ClearCaches
<1>2. ASSUME NEW c \in Caller, Home[c] # "inner"
      PROVE  cached'[c] = None
  <2>1. CASE c \in compiled
      BY <1>2, <2>1, OutsideIsReached DEF ClearCaches
  <2>2. CASE c \notin compiled
      BY <2>2 DEF Inv, BlankUncompiled, ClearCaches
  <2>3. QED
      BY <2>1, <2>2
<1>3. QED
    BY <1>1, <1>2

(* And a correction leaves none with a frame too small for f.              *)
LEMMA Corrected ==
    ASSUME Inv, NEW n \in Name, NEW f \in Fun, FixSizes(n, f)
    PROVE  /\ size' \in [Caller -> Nat]
           /\ \A c \in Caller : size[c] = 0 => size'[c] = 0
           /\ \A c \in Caller : Target[c] = n /\ Home[c] # "inner" =>
                 size'[c] \notin 1..(Frame[f.body] - 1)
<1>1. Frame[f.body] \in Nat \ {0}
    BY CallSitesAssumption DEF Fun
<1>2. /\ size' \in [Caller -> Nat]
      /\ \A c \in Caller : size[c] = 0 => size'[c] = 0
    BY <1>1 DEF Inv, TypeOK, FixSizes
<1>3. ASSUME NEW c \in Caller, Target[c] = n, Home[c] # "inner"
      PROVE  size'[c] \notin 1..(Frame[f.body] - 1)
  <2>1. size[c] \in Nat
      BY DEF Inv, TypeOK
  <2>2. CASE c \in compiled
    <3>1. c \in Reached
        BY <1>3, <2>2, OutsideIsReached
    <3>2. size'[c] = IF size[c] \in 1..Frame[f.body] THEN Frame[f.body] ELSE size[c]
        BY <1>3, <3>1 DEF FixSizes
    <3>3. QED
        BY <1>1, <2>1, <3>2
  <2>3. CASE c \notin compiled
    <3>1. size[c] = 0
        BY <2>3 DEF Inv, BlankUncompiled
    <3>2. QED
        BY <1>2, <3>1
  <2>4. QED
      BY <2>2, <2>3
<1>4. QED
    BY <1>2, <1>3

LEMMA InitInv == Init => Inv
<1> SUFFICES ASSUME Init PROVE Inv
    OBVIOUS
<1>1. stack \in Seq(Caller) /\ Len(stack) = 0 /\ OnStack = {}
    BY DEF Init, OnStack
<1>2. QED
    BY <1>1 DEF Init, Inv, TypeOK, BlankUncompiled, ScriptsOnStack, ScriptsOnce,
                PendingDies, NoDtorLeftBehind, Alive, StaleWasDying, Stale

(* A frame entered, and a frame left.                                      *)
LEMMA Pushed ==
    ASSUME Inv, NEW c \in Caller, stack' = Append(stack, c)
    PROVE  /\ stack' \in Seq(Caller)
           /\ Len(stack') = Len(stack) + 1
           /\ OnStack' = OnStack \cup {c}
           /\ \A i \in 1..Len(stack) : stack'[i] = stack[i]
           /\ stack'[Len(stack) + 1] = c
<1>1. stack \in Seq(Caller)
    BY DEF Inv, TypeOK
<1>2. /\ stack' \in Seq(Caller) /\ Len(stack') = Len(stack) + 1
      /\ \A i \in 1..Len(stack) : stack'[i] = stack[i]
      /\ stack'[Len(stack) + 1] = c
    BY <1>1
<1>3. DOMAIN stack = 1..Len(stack) /\ DOMAIN stack' = 1..(Len(stack) + 1) /\ Len(stack) \in Nat
    BY <1>1, <1>2
<1>4. OnStack' = OnStack \cup {c}
    BY <1>2, <1>3 DEF OnStack
<1>5. QED
    BY <1>2, <1>4

LEMMA Popped ==
    ASSUME Inv, stack # <<>>, stack' = SubSeq(stack, 1, Len(stack) - 1)
    PROVE  /\ Len(stack) \in Nat \ {0}
           /\ stack' \in Seq(Caller)
           /\ Len(stack') = Len(stack) - 1
           /\ \A i \in 1..(Len(stack) - 1) : stack'[i] = stack[i]
           /\ OnStack' \subseteq OnStack
           /\ OnStack \subseteq OnStack' \cup {stack[Len(stack)]}
           /\ stack[Len(stack)] \in OnStack
<1>1. stack \in Seq(Caller)
    BY DEF Inv, TypeOK
<1>2. Len(stack) \in Nat \ {0}
    BY <1>1
<1>3. /\ stack' \in Seq(Caller) /\ Len(stack') = Len(stack) - 1
      /\ \A i \in 1..(Len(stack) - 1) : stack'[i] = stack[i]
  <2> DEFINE n == Len(stack) - 1
  <2>1. n \in Nat /\ 1 \in Int /\ n \in Int
      BY <1>2
  <2>2. \A i \in 1..n : stack[i] \in Caller
      BY <1>1, <1>2
  <2>3. /\ SubSeq(stack, 1, n) \in Seq(Caller)
        /\ Len(SubSeq(stack, 1, n)) = IF 1 <= n THEN n - 1 + 1 ELSE 0
        /\ \A i \in 1..(n - 1 + 1) : SubSeq(stack, 1, n)[i] = stack[1 + i - 1]
    <3> HIDE DEF n
    <3>1. QED
        BY <2>1, <2>2, SubSeqProperties
  <2>4. stack' = SubSeq(stack, 1, n)
      OBVIOUS
  <2> HIDE DEF n
  <2>5. /\ stack' \in Seq(Caller) /\ Len(stack') = n
        /\ \A i \in 1..n : stack'[i] = stack[i]
      BY <2>1, <2>3, <2>4
  <2>6. QED
      BY <2>5 DEF n
<1>4. /\ DOMAIN stack = 1..Len(stack) /\ DOMAIN stack' = 1..(Len(stack) - 1)
      /\ Len(stack) \in 1..Len(stack)
      /\ \A i \in 1..Len(stack) : i \in 1..(Len(stack) - 1) \/ i = Len(stack)
    BY <1>1, <1>2, <1>3
<1>5. /\ OnStack' \subseteq OnStack
      /\ OnStack \subseteq OnStack' \cup {stack[Len(stack)]}
      /\ stack[Len(stack)] \in OnStack
  <2>1. OnStack = { stack[i] : i \in 1..Len(stack) } /\ OnStack' = { stack'[i] : i \in 1..(Len(stack) - 1) }
      BY <1>4 DEF OnStack
  <2>2. \A i \in 1..(Len(stack) - 1) : i \in 1..Len(stack)
      BY <1>2
  <2>3. QED
      BY <1>3, <1>4, <2>1, <2>2
<1>6. QED
    BY <1>2, <1>3, <1>5

-----------------------------------------------------------------------------
(* The engine's steps.                                                     *)

LEMMA CompileInv == ASSUME Inv, NEW c \in Caller, Compile(c) PROVE Inv'
<1>1. size' \in [Caller -> Nat] /\ \A d \in Caller \ {c} : size'[d] = size[d]
  <2>1. SizeCompiled(c) \in Nat
      BY CallSitesAssumption DEF SizeCompiled, Inv, TypeOK, Fun
  <2>2. QED
      BY <2>1 DEF Compile, Inv, TypeOK
<1>2. /\ compiled' = compiled \cup {c} /\ c \notin compiled /\ c \notin OnStack
      /\ UNCHANGED <<function_table, cached, pending, pDestructor, saved>>
    BY DEF Compile, Inv, TypeOK, dtors
<1>3. CASE Home[c] = "script"
  <2>1. stack' = Append(stack, c)
      BY <1>3 DEF Compile
  <2>2. /\ stack' \in Seq(Caller) /\ OnStack' = OnStack \cup {c}
        /\ Len(stack') = Len(stack) + 1 /\ Len(stack) \in Nat
        /\ \A i \in 1..Len(stack) : stack'[i] = stack[i]
        /\ stack'[Len(stack) + 1] = c
      BY <2>1, Pushed DEF Inv, TypeOK
  <2>3. TypeOK'
      BY <1>1, <1>2, <2>2 DEF Inv, TypeOK, Pending
  <2>4. ScriptsOnce'
    <3>1. \A i \in 1..Len(stack) : stack[i] # c
        BY <1>2 DEF OnStack, Inv, TypeOK
    <3>2. \A i \in 1..Len(stack') : i \in 1..Len(stack) \/ i = Len(stack) + 1
        BY <2>2
    <3>3. QED
        BY <2>2, <3>1, <3>2 DEF Inv, ScriptsOnce
  <2>5. QED
      BY <1>1, <1>2, <2>2, <2>3, <2>4
      DEF Inv, BlankUncompiled, ScriptsOnStack, PendingDies, NoDtorLeftBehind, Alive, StaleWasDying, Stale
<1>4. CASE Home[c] # "script"
  <2>1. stack' = stack /\ OnStack' = OnStack
      BY <1>4 DEF Compile, OnStack
  <2>2. TypeOK' /\ ScriptsOnce'
      BY <1>1, <1>2, <2>1 DEF Inv, TypeOK, Pending, ScriptsOnce
  <2>3. QED
      BY <1>1, <1>2, <1>4, <2>1, <2>2
      DEF Inv, BlankUncompiled, ScriptsOnStack, PendingDies, NoDtorLeftBehind, Alive, StaleWasDying, Stale
<1>5. QED
    BY <1>3, <1>4

LEMMA EnterInv == ASSUME Inv, NEW c \in Caller, Enter(c) PROVE Inv'
<1>1. /\ stack' \in Seq(Caller) /\ OnStack' = OnStack \cup {c}
      /\ Len(stack') = Len(stack) + 1 /\ Len(stack) \in Nat
      /\ \A i \in 1..Len(stack) : stack'[i] = stack[i]
      /\ stack'[Len(stack) + 1] = c
    BY Pushed DEF Enter, Inv, TypeOK
<1>2. /\ c \in compiled /\ Home[c] # "script"
      /\ UNCHANGED <<function_table, compiled, size, cached, pending, pDestructor, saved>>
    BY DEF Enter, dtors
<1>3. TypeOK'
    BY <1>1, <1>2 DEF Inv, TypeOK, Pending
<1>4. ScriptsOnce'
  <2>1. \A i \in 1..Len(stack') : i \in 1..Len(stack) \/ i = Len(stack) + 1
      BY <1>1
  <2>2. QED
      BY <1>1, <1>2, <2>1 DEF Inv, ScriptsOnce
<1>5. QED
    BY <1>1, <1>2, <1>3, <1>4
    DEF Inv, BlankUncompiled, ScriptsOnStack, PendingDies, NoDtorLeftBehind, Alive, StaleWasDying, Stale

LEMMA LeaveInv == ASSUME Inv, Leave PROVE Inv'
<1> DEFINE c == stack[Len(stack)]
<1>1. /\ Len(stack) \in Nat \ {0}
      /\ stack' \in Seq(Caller)
      /\ Len(stack') = Len(stack) - 1
      /\ \A i \in 1..(Len(stack) - 1) : stack'[i] = stack[i]
      /\ OnStack' \subseteq OnStack
      /\ OnStack \subseteq OnStack' \cup {c}
      /\ c \in OnStack
    BY Popped DEF Leave, CallerRuns
<1>2. c \in Caller /\ c \in compiled
    BY <1>1 DEF Inv, TypeOK
<1>3. UNCHANGED <<function_table, pending, pDestructor, saved>>
    BY DEF Leave, dtors
<1>4. \A i \in 1..Len(stack') : i \in 1..Len(stack) /\ i # Len(stack)
    BY <1>1
<1>5. ScriptsOnce'
    BY <1>1, <1>4 DEF Inv, ScriptsOnce
<1>6. pending # None => pending'.depth <= Len(stack')
    BY <1>1, <1>3 DEF Leave, CallerRuns, Inv, TypeOK, Pending
<1>7. CASE Home[c] = "script"
  <2>1. /\ compiled' = compiled \ {c}
        /\ cached' = [cached EXCEPT ![c] = None]
        /\ size' = [size EXCEPT ![c] = 0]
      BY <1>7 DEF Leave
  <2>2. c \notin OnStack'
    <3>1. OnStack' = { stack'[i] : i \in 1..Len(stack') }
        BY <1>1 DEF OnStack
    <3>2. \A i \in 1..Len(stack') : stack'[i] # c
        BY <1>1, <1>4, <1>7 DEF Inv, ScriptsOnce
    <3>3. QED
        BY <3>1, <3>2
  <2>3. TypeOK'
      BY <1>1, <1>2, <1>3, <1>6, <2>1, <2>2 DEF Inv, TypeOK
  <2>4. ScriptsOnStack'
      BY <1>1, <2>1 DEF Inv, ScriptsOnStack
  <2>5. /\ \A d \in Caller \ {c} : cached'[d] = cached[d] /\ size'[d] = size[d]
        /\ cached'[c] = None /\ size'[c] = 0
      BY <1>2, <2>1 DEF Inv, TypeOK
  <2>6. QED
      BY <1>3, <1>5, <2>1, <2>3, <2>4, <2>5
      DEF Inv, BlankUncompiled, PendingDies, NoDtorLeftBehind, Alive, StaleWasDying, Stale
<1>8. CASE Home[c] # "script"
  <2>1. UNCHANGED <<compiled, cached, size>>
      BY <1>8 DEF Leave
  <2>2. TypeOK'
      BY <1>1, <1>3, <1>6, <2>1 DEF Inv, TypeOK
  <2>3. ScriptsOnStack'
      BY <1>1, <1>8, <2>1 DEF Inv, ScriptsOnStack
  <2>4. QED
      BY <1>3, <1>5, <2>1, <2>2, <2>3
      DEF Inv, BlankUncompiled, PendingDies, NoDtorLeftBehind, Alive, StaleWasDying, Stale
<1>9. QED
    BY <1>7, <1>8

(* A step that leaves the code and the stack as they are keeps what is     *)
(* said of them.                                                           *)
LEMMA SameCode ==
    ASSUME Inv, UNCHANGED <<compiled, stack>>
    PROVE  /\ ScriptsOnStack' /\ ScriptsOnce'
           /\ compiled' \in SUBSET Caller /\ stack' \in Seq(Caller)
           /\ OnStack' \subseteq compiled'
           /\ Len(stack') = Len(stack)
    BY DEF Inv, TypeOK, OnStack, ScriptsOnStack, ScriptsOnce

LEMMA ExecuteInv == ASSUME Inv, Execute PROVE Inv'
<1> DEFINE c == stack[Len(stack)]
<1>1. c \in Caller /\ c \in compiled
  <2>1. Len(stack) \in 1..Len(stack) /\ DOMAIN stack = 1..Len(stack)
      BY DEF Execute, CallerRuns, Inv, TypeOK
  <2>2. c \in OnStack
      BY <2>1 DEF OnStack
  <2>3. QED
      BY <2>2 DEF Inv, TypeOK
<1>2. /\ cached[c] = None
      /\ cached' = [cached EXCEPT ![c] = function_table[Target[c]]]
      /\ UNCHANGED <<function_table, compiled, size, stack, pending, pDestructor, saved>>
    BY DEF Execute, dtors
<1>3. TypeOK'
    BY <1>1, <1>2, SameCode, CallSitesAssumption DEF Inv, TypeOK
<1>4. /\ \A d \in Caller \ {c} : cached'[d] = cached[d]
      /\ cached'[c] = function_table[Target[c]]
    BY <1>1, <1>2 DEF Inv, TypeOK
<1>5. QED
    BY <1>1, <1>2, <1>3, <1>4, SameCode
    DEF Inv, BlankUncompiled, PendingDies, NoDtorLeftBehind, Alive, StaleWasDying, Stale

-----------------------------------------------------------------------------
(* The API.                                                                *)

(* What an action must show when it leaves the code and the stack alone:   *)
(* tables and sites still typed, and the two facts about pointers.         *)
LEMMA ApiInv ==
    ASSUME Inv, UNCHANGED <<compiled, stack>>,
           function_table' \in [Name -> Fun \cup {None}],
           size' \in [Caller -> Nat], cached' \in [Caller -> Fun \cup {None}],
           pending' \in Pending \cup {None},
           pending' # None => pending'.depth <= Len(stack),
           \A c \in Caller : size[c] = 0 => size'[c] = 0,
           \A c \in Caller : cached'[c] \in {cached[c], None},
           PendingDies', DtorsOK', StaleWasDying'
    PROVE  Inv'
    BY SameCode DEF Inv, TypeOK, BlankUncompiled, DtorsOK

LEMMA AddInv ==
    ASSUME Inv, NEW n \in Name, NEW f \in Fun, FunctionAdd(n, f)
    PROVE  Inv'
<1>1. /\ function_table[n] = None
      /\ function_table' = [function_table EXCEPT ![n] = f]
      /\ UNCHANGED <<compiled, size, cached, stack, pending>>
    BY DEF FunctionAdd
<1>2. StaleWasDying'
    BY <1>1, CallSitesAssumption DEF Inv, TypeOK, StaleWasDying, Stale
<1>3. PendingDies'
    BY <1>1, CallSitesAssumption DEF Inv, TypeOK, PendingDies, Pending
<1>4. DtorsOK'
    BY <1>1 DEF FunctionAdd, Inv, TypeOK, DtorsOK, NoDtorLeftBehind, Alive, SwappedAtOnce
<1>5. QED
    BY <1>1, <1>2, <1>3, <1>4, ApiInv DEF Inv, TypeOK

LEMMA CopyInv ==
    ASSUME Inv, NEW s \in Name, NEW d \in Name, NEW f \in Fun, FunctionCopy(s, d, f)
    PROVE  Inv'
<1>1. /\ function_table[d] = None
      /\ function_table' = [function_table EXCEPT ![d] = f]
      /\ UNCHANGED <<compiled, size, cached, stack, pending>>
    BY DEF FunctionCopy
<1>2. StaleWasDying'
    BY <1>1, CallSitesAssumption DEF Inv, TypeOK, StaleWasDying, Stale
<1>3. PendingDies'
    BY <1>1, CallSitesAssumption DEF Inv, TypeOK, PendingDies, Pending
<1>4. DtorsOK'
    BY <1>1 DEF FunctionCopy, Inv, TypeOK, DtorsOK, NoDtorLeftBehind, Alive, dtors
<1>5. QED
    BY <1>1, <1>2, <1>3, <1>4, ApiInv DEF Inv, TypeOK

LEMMA DestroyingIs ==
    ASSUME Inv, NEW n \in Name, function_table[n] # None, NEW f \in Fun \cup {None}
    PROVE  /\ Destroying(n, f) \in Pending /\ Destroying(n, f) # None
           /\ Destroying(n, f).name = n /\ Destroying(n, f).old = function_table[n]
           /\ Destroying(n, f).new = f /\ Destroying(n, f).depth = Len(stack)
    BY CallSitesAssumption DEF Inv, TypeOK, Pending, Destroying

LEMMA RedefineInv ==
    ASSUME Inv, NEW n \in Name, NEW f \in Fun, FunctionRedefine(n, f)
    PROVE  Inv'
<1>1. /\ ClearCaches /\ FixSizes(n, f) /\ function_table[n] # None
      /\ pending # None => function_table[n] # pending.old
      /\ UNCHANGED <<compiled, stack>>
    BY DEF FunctionRedefine, MayTake, Whole
<1>2. /\ cached' \in [Caller -> Fun \cup {None}]
      /\ \A c \in Caller : cached'[c] \in {cached[c], None}
      /\ \A c \in Caller : Home[c] # "inner" => cached'[c] = None
    BY <1>1, Cleared
<1>3. size' \in [Caller -> Nat] /\ \A c \in Caller : size[c] = 0 => size'[c] = 0
    BY <1>1, Corrected
<1>4. StaleWasDying'
    BY <1>2 DEF StaleWasDying, Stale
<1>5. CASE function_table[n] \in Dying /\ pDestructor = "zend"
  <2>1. /\ pending' = Destroying(n, f)
        /\ function_table' = function_table
        /\ pDestructor' = "runkit" /\ saved' = "zend"
      BY <1>5 DEF FunctionRedefine, Swapped
  <2>4. DtorsOK'
      BY <1>1, <2>1, DestroyingIs, CallSitesAssumption DEF DtorsOK, NoDtorLeftBehind
  <2>2. PendingDies'
      BY <1>1, <1>5, <2>1, DestroyingIs DEF PendingDies
  <2>3. QED
      BY <1>1, <1>2, <1>3, <1>4, <2>1, <2>2, <2>4, DestroyingIs, ApiInv DEF Inv, TypeOK, Pending
<1>6. CASE ~(function_table[n] \in Dying /\ pDestructor = "zend")
  <2>1. /\ function_table' = [function_table EXCEPT ![n] = f]
        /\ pending' = pending
        /\ pDestructor' = pDestructor /\ saved' = "null"
      BY <1>6 DEF FunctionRedefine, SwappedAtOnce
  <2>4. DtorsOK'
      BY <2>1 DEF Inv, TypeOK, DtorsOK, NoDtorLeftBehind, Alive
  <2>2. PendingDies'
      BY <1>1, <2>1 DEF Inv, TypeOK, PendingDies, Pending
  <2>3. QED
      BY <1>1, <1>2, <1>3, <1>4, <2>1, <2>2, <2>4, ApiInv DEF Inv, TypeOK
<1>7. QED
    BY <1>5, <1>6

LEMMA RemoveInv ==
    ASSUME Inv, NEW n \in Name, FunctionRemove(n)
    PROVE  Inv'
<1>1. /\ function_table[n] # None
      /\ pending # None => function_table[n] # pending.old
      /\ function_table' = [function_table EXCEPT ![n] = None]
      /\ UNCHANGED <<compiled, size, stack, pDestructor, saved>>
      /\ Alive
      /\ pending # None => function_table[n] \notin Dying
    BY DEF FunctionRemove, MayTake, Whole, dtors
<1>2. CASE function_table[n] \in Dying /\ Destroys
  <2>1. /\ pending' = Destroying(n, None)
        /\ cached' = cached
      BY <1>2 DEF FunctionRemove, KeepCaches
  <2>2. PendingDies'
      BY <1>1, <1>2, <2>1, DestroyingIs DEF PendingDies
  <2>3. StaleWasDying'
      BY <1>1, <1>2, <2>1 DEF Inv, TypeOK, StaleWasDying, Stale
  <2>4. DtorsOK'
      BY <1>1, <1>2, <2>1, DestroyingIs DEF Inv, TypeOK, DtorsOK, NoDtorLeftBehind, Alive
  <2>5. QED
      BY <1>1, <2>1, <2>2, <2>3, <2>4, DestroyingIs, ApiInv DEF Inv, TypeOK, Pending
<1>3. CASE ~(function_table[n] \in Dying /\ Destroys)
  <2>1. ClearCaches /\ pending' = pending
      BY <1>3 DEF FunctionRemove
  <2>2. /\ cached' \in [Caller -> Fun \cup {None}]
        /\ \A c \in Caller : cached'[c] \in {cached[c], None}
        /\ \A c \in Caller : Home[c] # "inner" => cached'[c] = None
      BY <2>1, Cleared
  <2>3. StaleWasDying'
      BY <2>2 DEF StaleWasDying, Stale
  <2>4. PendingDies'
      BY <1>1, <2>1 DEF Inv, TypeOK, PendingDies, Pending
  <2>5. DtorsOK'
      BY <1>1, <2>1 DEF Inv, TypeOK, DtorsOK, NoDtorLeftBehind, Alive
  <2>6. QED
      BY <1>1, <2>1, <2>2, <2>3, <2>4, <2>5, ApiInv DEF Inv, TypeOK
<1>4. QED
    BY <1>2, <1>3

LEMMA NestedInv ==
    ASSUME Inv, NEW n \in Name, FunctionRedefineNested(n)
    PROVE  Inv'
<1>1. /\ pDestructor' = "endless"
      /\ UNCHANGED <<function_table, compiled, size, cached, stack, pending, saved>>
    BY DEF FunctionRedefineNested
<1>2. StaleWasDying' /\ PendingDies' /\ DtorsOK'
    BY <1>1 DEF Inv, TypeOK, StaleWasDying, Stale, PendingDies, DtorsOK, NoDtorLeftBehind, Alive
<1>3. QED
    BY <1>1, <1>2, ApiInv DEF Inv, TypeOK

LEMMA RenameInv ==
    ASSUME Inv, NEW s \in Name, NEW d \in Name, NEW f \in Fun, FunctionRename(s, d, f)
    PROVE  Inv'
<1>1. /\ function_table[s] # None /\ function_table[d] = None
      /\ pending # None => function_table[s] # pending.old
      /\ function_table' = [function_table EXCEPT ![s] = None, ![d] = f]
      /\ FixSizes(d, f) /\ ClearCaches
      /\ UNCHANGED <<compiled, stack, pending, pDestructor, saved>>
    BY DEF FunctionRename, MayTake, Whole, dtors
<1>2. /\ cached' \in [Caller -> Fun \cup {None}]
      /\ \A c \in Caller : cached'[c] \in {cached[c], None}
      /\ \A c \in Caller : Home[c] # "inner" => cached'[c] = None
    BY <1>1, Cleared
<1>3. size' \in [Caller -> Nat] /\ \A c \in Caller : size[c] = 0 => size'[c] = 0
    BY <1>1, Corrected
<1>4. StaleWasDying'
    BY <1>2 DEF StaleWasDying, Stale
<1>5. PendingDies'
    BY <1>1, CallSitesAssumption DEF Inv, TypeOK, PendingDies, Pending
<1>6. DtorsOK'
    BY <1>1 DEF Inv, TypeOK, DtorsOK, NoDtorLeftBehind, Alive
<1>7. QED
    BY <1>1, <1>2, <1>3, <1>4, <1>5, <1>6, ApiInv DEF Inv, TypeOK

LEMMA ReturnInv == ASSUME Inv, DestructorReturns PROVE Inv'
<1>1. /\ pending # None /\ pending' = None /\ pending \in Pending
      /\ UNCHANGED <<compiled, size, stack>>
      /\ Alive
    BY DEF DestructorReturns, Inv, TypeOK
<1>2. PendingDies'
    BY <1>1 DEF PendingDies
<1>3. CASE pending.new = None
  <2>1. /\ ClearCaches /\ function_table' = function_table
        /\ pDestructor' = pDestructor /\ saved' = saved
      BY <1>3 DEF DestructorReturns, dtors
  <2>2. /\ cached' \in [Caller -> Fun \cup {None}]
        /\ \A c \in Caller : cached'[c] \in {cached[c], None}
        /\ \A c \in Caller : Home[c] # "inner" => cached'[c] = None
      BY <2>1, Cleared
  <2>3. StaleWasDying'
      BY <2>2 DEF StaleWasDying, Stale
  <2>4. DtorsOK'
      BY <1>1, <1>3, <2>1 DEF Inv, TypeOK, DtorsOK, NoDtorLeftBehind, Alive
  <2>5. QED
      BY <1>1, <1>2, <2>1, <2>2, <2>3, <2>4, ApiInv DEF Inv, TypeOK
<1>4. CASE pending.new # None
  <2>1. /\ function_table' = [function_table EXCEPT ![pending.name] = pending.new]
        /\ cached' = cached
        /\ pDestructor' = saved /\ saved' = "null"
      BY <1>4 DEF DestructorReturns, KeepCaches, SwapEnds
  <2>2. /\ pending.new \in Fun /\ pending.old \in Dying
        /\ function_table[pending.name] = pending.old
      BY <1>1, <1>4 DEF Inv, PendingDies, Pending
  <2>3. StaleWasDying'
      BY <2>1, <2>2 DEF Inv, TypeOK, StaleWasDying, Stale
  <2>4. DtorsOK'
      BY <1>1, <1>4, <2>1 DEF Inv, TypeOK, DtorsOK, NoDtorLeftBehind, Alive
  <2>5. QED
      BY <1>1, <1>2, <2>1, <2>2, <2>3, <2>4, ApiInv DEF Inv, TypeOK
<1>5. QED
    BY <1>3, <1>4

-----------------------------------------------------------------------------

LEMMA NextInv == Inv /\ [Next]_vars => Inv'
<1> SUFFICES ASSUME Inv, [Next]_vars PROVE Inv'
    OBVIOUS
<1>1. CASE ApiCall
    BY <1>1, AddInv, RedefineInv, NestedInv, RemoveInv, RenameInv, CopyInv DEF ApiCall
<1>2. CASE DestructorReturns
    BY <1>2, ReturnInv
<1>3. ASSUME NEW c \in Caller, Compile(c) \/ Enter(c) PROVE Inv'
    BY <1>3, CompileInv, EnterInv
<1>4. CASE Leave \/ Execute
    BY <1>4, LeaveInv, ExecuteInv
<1>5. CASE UNCHANGED vars
  <2>1. UNCHANGED <<function_table, compiled, size, cached, stack, pending, pDestructor, saved>>
      BY <1>5 DEF vars
  <2>2. PendingDies' /\ StaleWasDying' /\ DtorsOK'
      BY <2>1
      DEF Inv, TypeOK, PendingDies, StaleWasDying, Stale, DtorsOK, NoDtorLeftBehind, Alive
  <2>3. QED
      BY <2>1, <2>2, ApiInv DEF Inv, TypeOK
<1>6. QED
    BY <1>1, <1>2, <1>3, <1>4, <1>5 DEF Next

(* The sites, the stack and the call under way stay well formed.           *)
THEOREM TypeCorrect == Spec => []TypeOK
<1>1. Inv => TypeOK
    BY DEF Inv
<1>2. QED
    BY <1>1, InitInv, NextInv, PTL DEF Spec

(* For any code: outside aliases only a function whose own destructor ran  *)
(* code can be remembered by a call when it is no longer under the name.   *)
THEOREM StaleAlwaysWasDying == Spec => []StaleWasDying
<1>1. Inv => StaleWasDying
    BY DEF Inv
<1>2. QED
    BY <1>1, InitInv, NextInv, PTL DEF Spec

(* Whatever runs in the middle of an update, runkit7's destructor never    *)
(* outlives it on the table.                                               *)
THEOREM NoDtorIsLeftBehind == Spec => []NoDtorLeftBehind
<1>1. Inv => NoDtorLeftBehind
    BY DEF Inv
<1>2. QED
    BY <1>1, InitInv, NextInv, PTL DEF Spec

(* For any code: a redefinition or a renaming leaves no call outside an    *)
(* alias with too small a frame for the function it installs.              *)
THEOREM ChangedFunctionAlwaysFits == Spec => ChangedFunctionFits
<1>1. ASSUME Inv, Next, NEW n \in Name, NEW c \in Caller,
             pending' = pending,
             function_table'[n] \notin {None, function_table[n]},
             \/ function_table[n] # None
             \/ \E s \in Name : function_table[s] # None /\ function_table'[s] = None,
             Target[c] = n, Home[c] # "inner"
      PROVE  ~TooSmall(c, function_table[n])'
  <2>1. ASSUME NEW f \in Fun, FixSizes(n, f), function_table'[n] = f
        PROVE  ~TooSmall(c, function_table[n])'
      BY <1>1, <2>1, Corrected DEF TooSmall
  <2>2. ASSUME NEW m \in Name, NEW f \in Fun, FunctionAdd(m, f)
        PROVE  FALSE
      BY <1>1, <2>2, CallSitesAssumption DEF FunctionAdd, Inv, TypeOK
  <2>3. ASSUME NEW s \in Name, NEW d \in Name, NEW f \in Fun, FunctionCopy(s, d, f)
        PROVE  FALSE
      BY <1>1, <2>3, CallSitesAssumption DEF FunctionCopy, Inv, TypeOK
  <2>4. ASSUME NEW m \in Name, NEW f \in Fun, FunctionRedefine(m, f)
        PROVE  ~TooSmall(c, function_table[n])'
    <3>1. function_table' = function_table \/ function_table' = [function_table EXCEPT ![m] = f]
        BY <2>4 DEF FunctionRedefine
    <3>2. m = n /\ function_table'[n] = f
        BY <1>1, <3>1 DEF Inv, TypeOK
    <3>3. FixSizes(n, f)
        BY <2>4, <3>2 DEF FunctionRedefine
    <3>4. QED
        BY <2>1, <3>2, <3>3
  <2>5. ASSUME NEW s \in Name, NEW d \in Name, NEW f \in Fun, FunctionRename(s, d, f)
        PROVE  ~TooSmall(c, function_table[n])'
    <3>1. function_table' = [function_table EXCEPT ![s] = None, ![d] = f]
        BY <2>5 DEF FunctionRename
    <3>2. d = n /\ function_table'[n] = f
        BY <1>1, <3>1 DEF Inv, TypeOK
    <3>3. FixSizes(n, f)
        BY <2>5, <3>2 DEF FunctionRename
    <3>4. QED
        BY <2>1, <3>2, <3>3
  <2>6. ASSUME NEW m \in Name, FunctionRemove(m)
        PROVE  FALSE
      BY <1>1, <2>6 DEF FunctionRemove, Inv, TypeOK
  <2>7. CASE DestructorReturns \/ \E m \in Name : FunctionRedefineNested(m)
      BY <1>1, <2>7 DEF DestructorReturns, FunctionRedefineNested
  <2>8. ASSUME NEW d \in Caller, Compile(d) \/ Enter(d)
        PROVE  FALSE
      BY <1>1, <2>8 DEF Compile, Enter
  <2>9. CASE Leave \/ Execute
      BY <1>1, <2>9 DEF Leave, Execute
  <2>10. QED
      BY <1>1, <2>2, <2>3, <2>4, <2>5, <2>6, <2>7, <2>8, <2>9 DEF Next, ApiCall
<1>2. Inv /\ [Next]_vars =>
        [\A n \in Name, c \in Caller :
          (/\ pending' = pending
           /\ function_table'[n] \notin {None, function_table[n]}
           /\ \/ function_table[n] # None
              \/ \E s \in Name : function_table[s] # None /\ function_table'[s] = None
           /\ Target[c] = n
           /\ Home[c] # "inner")
          => ~TooSmall(c, function_table[n])']_vars
    BY <1>1
<1>3. QED
    BY <1>2, InitInv, NextInv, PTL DEF Spec, ChangedFunctionFits

(* With PHP 8.2's compiler options no frame is ever too small: every call  *)
(* looks its frame size up when it runs.                                   *)
THEOREM FramesFitByName == CompileByName /\ Spec => []FramesFit
<1> DEFINE NoSizes == \A c \in Caller : size[c] = 0
<1> SUFFICES ASSUME CompileByName PROVE Spec => []FramesFit
    OBVIOUS
<1>1. Init => NoSizes
    BY DEF Init
<1>2. Inv /\ NoSizes /\ [Next]_vars => NoSizes'
  <2> SUFFICES ASSUME Inv, NoSizes, [Next]_vars
               PROVE  \A c \in Caller : size'[c] = 0
      OBVIOUS
  <2>1. CASE UNCHANGED size
      BY <2>1
  <2>2. ASSUME NEW n \in Name, NEW f \in Fun, FixSizes(n, f)
        PROVE  \A c \in Caller : size'[c] = 0
      BY <2>2, Corrected
  <2>3. ASSUME NEW c \in Caller, Compile(c)
        PROVE  \A d \in Caller : size'[d] = 0
      BY <2>3 DEF Compile, SizeCompiled, Inv, TypeOK
  <2>4. CASE Leave
      BY <2>4 DEF Leave, Inv, TypeOK
  <2>5. CASE ApiCall
      BY <2>1, <2>2, <2>5
      DEF ApiCall, FunctionAdd, FunctionRedefine, FunctionRedefineNested, FunctionRemove,
          FunctionRename, FunctionCopy
  <2>6. QED
      BY <2>1, <2>3, <2>4, <2>5 DEF Next, vars, DestructorReturns, Enter, Execute
<1>3. NoSizes => FramesFit
    BY DEF FramesFit, TooSmall
<1> HIDE DEF NoSizes
<1>4. QED
    BY <1>1, <1>2, <1>3, InitInv, NextInv, PTL DEF Spec
=============================================================================
