------------------------ MODULE ShadowStackLibProofs ------------------------
(***************************************************************************)
(* Theorems about ShadowStackLib, for any number of threads, of thread ids *)
(* and of calls in progress, and for tables and lists of any size.         *)
(***************************************************************************)
EXTENDS ShadowStackLib, ShadowTableProofs

USE DEF NotFound, StackEnd

-----------------------------------------------------------------------------
(* Searches of the list.                                                   *)

LEMMA FakeSearch ==
    ASSUME NEW P \in SUBSET FakeIndex
    PROVE  FirstIn(P) # NotFound => FirstIn(P) \in P
<1>1. FakeIndex \subseteq Nat
  BY BoundAssumption DEF FakeIndex
<1> QED
  BY <1>1, FirstInProperties

LEMMA FreeEntryProperties ==
    FreeEntry # NotFound => /\ FreeEntry \in FakeIndex
                            /\ \/ fake[FreeEntry].value = NoThread
                               \/ fake[FreeEntry].flag = 0
<1> DEFINE P == {f \in FakeIndex : fake[f].value = NoThread \/ fake[f].flag = 0}
<1>1. FirstIn(P) # NotFound => FirstIn(P) \in P
  BY FakeSearch
<1> QED
  BY <1>1 DEF FreeEntry

LEMMA FakeFreedProperties ==
    ASSUME NEW tid
    PROVE  \/ FakeFreed(tid) = fake
           \/ \E e \in FakeIndex : /\ fake[e].tid = tid
                                   /\ FakeFreed(tid) = [fake EXCEPT ![e].flag = 0]
<1> DEFINE P == {f \in FakeIndex : fake[f].tid = tid}
<1>1. FirstIn(P) # NotFound => FirstIn(P) \in P
  BY FakeSearch
<1> QED
  BY <1>1 DEF FakeFreed

-----------------------------------------------------------------------------
(* Types.                                                                  *)

TypeInv ==
    /\ TypeOK
    /\ \A t \in Thread : /\ pc[t] \in {"save", "restore"} => frames[t] # << >>
                         /\ pc[t] = "leave_read" => at[t] \in FakeIndex

Leaves == [call : {"none", "detach", "join"}, target : Thread \cup {NoThread},
           subtid : Tid \cup {0, NotFound}]

\* The sets the constants make.
LEMMA Sizes ==
    /\ 0 \in SlotIndex /\ SlotIndex \subseteq Nat
    /\ 0 \in FakeIndex /\ FakeIndex \subseteq Nat
    /\ 1 \in Tid /\ Tid \subseteq Nat \ {0} /\ NotFound \notin Tid /\ 0 \notin Tid
    /\ Main \in Thread /\ NoThread \notin Thread
    /\ EmptyEntry \in FakeEntry /\ NoLeave \in Leaves
<1>1. 0 \in SlotIndex /\ SlotIndex \subseteq Nat
  BY SizesAssumption DEF SlotIndex
<1>2. 0 \in FakeIndex /\ FakeIndex \subseteq Nat
  BY BoundAssumption DEF FakeIndex
<1>3. 1 \in Tid /\ Tid \subseteq Nat \ {0} /\ NotFound \notin Tid /\ 0 \notin Tid
  BY BoundAssumption
<1> QED
  BY <1>1, <1>2, <1>3, ThreadAssumption DEF EmptyEntry, FakeEntry, NoLeave, Leaves

LEMMA ZeroTableType == ZeroTable \in Table
<1>1. << >> \in Seq(Word)
  BY EmptySeq
<1> QED
  BY <1>1 DEF ZeroTable, EmptySlot, Table, Slot

LEMMA FreshProcess ==
    /\ [e \in FakeIndex |-> EmptyEntry] \in [FakeIndex -> FakeEntry]
    /\ [t \in Thread |-> IF t = Main THEN "boot" ELSE "none"] \in [Thread -> PC]
    /\ [t \in Thread |-> 0] \in [Thread -> Nat \cup {NotFound}]
    /\ [t \in Thread |-> NoLeave] \in [Thread -> Leaves]
    /\ [t \in Thread |-> IF t = Main THEN 1 ELSE 0] \in [Thread -> Tid \cup {0}]
    /\ 1 \in 1 .. MaxTid
    /\ [t \in Thread |-> IF t = Main THEN "joinable" ELSE "none"]
          \in [Thread -> {"none", "joinable", "detached"}]
    /\ [t \in Thread |-> << >>] \in [Thread -> Seq(Addr)]
    /\ \A t \in Thread : Len([u \in Thread |-> << >>][t]) =< MaxDepth
<1>1. << >> \in Seq(Addr) /\ Len(<< >>) = 0
  BY EmptySeq
<1> QED
  BY <1>1, Sizes, BoundAssumption DEF PC

LEMMA TypeInit == Init => TypeInv
BY FreshProcess, ZeroTableType, Sizes DEF Init, TypeInv, TypeOK, Leaves

LEMMA TypeRestart == TypeInv /\ Restart => TypeInv'
BY FreshProcess, Sizes DEF Restart, TypeInv, TypeOK, Leaves

\* What the operations on a table's slot leave of it.
LEMMA SlotUpdates ==
    ASSUME NEW tab \in Table, NEW i
    PROVE  /\ [tab EXCEPT ![i].flag = 0] \in Table
           /\ \A tid \in Tid \cup {0} : [tab EXCEPT ![i].thread_id = tid] \in Table
           /\ \A s \in Seq(Word) : [tab EXCEPT ![i].stack = s] \in Table
BY DEF Table, Slot

LEMMA EntryUpdates ==
    ASSUME NEW list \in [FakeIndex -> FakeEntry], NEW e
    PROVE  /\ [list EXCEPT ![e].flag = 0] \in [FakeIndex -> FakeEntry]
           /\ \A t \in Thread : [list EXCEPT ![e].value = t] \in [FakeIndex -> FakeEntry]
           /\ \A tid \in Tid \cup {0} :
                 [list EXCEPT ![e].tid = tid, ![e].flag = 1] \in [FakeIndex -> FakeEntry]
BY DEF FakeEntry

LEMMA FakeFreedType ==
    ASSUME fake \in [FakeIndex -> FakeEntry], NEW tid
    PROVE  /\ FakeFreed(tid) \in [FakeIndex -> FakeEntry]
           /\ \A e \in FakeIndex :
                 /\ FakeFreed(tid)[e].value = fake[e].value
                 /\ FakeFreed(tid)[e].tid = fake[e].tid
                 /\ FakeFreed(tid)[e].flag # fake[e].flag => fake[e].tid = tid
<1> DEFINE Goal(list) == /\ list \in [FakeIndex -> FakeEntry]
                         /\ \A e \in FakeIndex :
                               /\ list[e].value = fake[e].value
                               /\ list[e].tid = fake[e].tid
                               /\ list[e].flag # fake[e].flag => fake[e].tid = tid
<1> SUFFICES Goal(FakeFreed(tid))
  OBVIOUS
<1>1. CASE FakeFreed(tid) = fake
  BY <1>1
<1>2. ASSUME NEW e \in FakeIndex, fake[e].tid = tid,
             NEW list, list = [fake EXCEPT ![e].flag = 0]
      PROVE  Goal(list)
  BY <1>2 DEF FakeEntry
<1> HIDE DEF Goal
<1> QED
  BY <1>1, <1>2, FakeFreedProperties

LEMMA StackSet ==
    ASSUME NEW tab \in Table, NEW i, NEW s \in Seq(Word),
           NEW new, new = [tab EXCEPT ![i].stack = s]
    PROVE  new \in Table
BY DEF Table, Slot

LEMMA LeaveUpdates ==
    ASSUME NEW f \in [Thread -> Leaves], NEW c
    PROVE  /\ [f EXCEPT ![c].target = NoThread] \in [Thread -> Leaves]
           /\ \A l \in Leaves : [f EXCEPT ![c] = l] \in [Thread -> Leaves]
BY DEF Leaves

LEMMA TypeRegister == TypeInv /\ (\E t \in Thread : Register(t)) => TypeInv'
<1> SUFFICES ASSUME TypeInv, NEW t \in Thread, Register(t) PROVE TypeInv'
  OBVIOUS
<1> USE DEF TypeInv, TypeOK, Goto, tables, PC
<1>1. CASE InitLock(t)
  BY <1>1 DEF InitLock
<1>2. CASE InitScan(t)
  <2>1. at[t] + 1 \in Nat
    <3>1. at[t] \in SlotIndex
      BY <1>2 DEF InitScan
    <3> QED
      BY <3>1, SizesAssumption DEF SlotIndex
  <2>2. at' \in [Thread -> Nat \cup {NotFound}] /\ pc' \in [Thread -> PC]
    BY <1>2, <2>1 DEF InitScan
  <2>3. \A u \in Thread \ {t} : pc'[u] = pc[u] /\ at'[u] = at[u]
    BY <1>2 DEF InitScan
  <2>4. pc'[t] \in {"init_scan", "init_claim"}
    BY <1>2 DEF InitScan
  <2> QED
    BY <1>2, <2>2, <2>3, <2>4 DEF InitScan
<1>3. CASE InitFull(t)
  BY <1>3 DEF InitFull
<1>4. CASE InitClaim(t)
  <2>1. slots' \in Table
    BY <1>4, SlotUpdates DEF InitClaim
  <2> QED
    BY <1>4, <2>1 DEF InitClaim
<1>5. CASE InitClear(t)
  <2> DEFINE i == at[t]
             c == Claimed(slots[i], slots[i].thread_id)
  <2>1. slots' = [slots EXCEPT ![i] = c]
    BY <1>5 DEF InitClear
  <2>2. i \in SlotIndex => c \in Slot
    <3> SUFFICES ASSUME i \in SlotIndex PROVE c \in Slot
      OBVIOUS
    <3>1. slots[i].stack \in Seq(Word) /\ slots[i].thread_id \in Tid \cup {0}
      BY DEF Table, Slot
    <3>2. ZeroWords(slots[i].stack) \in Seq(Word)
      BY <3>1 DEF ZeroWords, Word
    <3> QED
      BY <3>1, <3>2 DEF Claimed, Slot
  <2> HIDE DEF c, i
  <2>3. slots' \in Table
    BY <2>1, <2>2 DEF Table
  <2> QED
    BY <1>5, <2>3 DEF InitClear
<1>6. CASE ListLock(t)
  <2>1. FreeEntry \in Nat
    BY <1>6, FreeEntryProperties, Sizes DEF ListLock
  <2>2. fake' \in [FakeIndex -> FakeEntry]
    BY <1>6, EntryUpdates DEF ListLock
  <2> QED
    BY <1>6, <2>1, <2>2 DEF ListLock
<1>7. CASE ListFull(t)
  BY <1>7 DEF ListFull
<1>8. CASE ListFill(t)
  <2>1. fake' \in [FakeIndex -> FakeEntry]
    BY <1>8, EntryUpdates DEF ListFill
  <2> QED
    BY <1>8, <2>1 DEF ListFill
<1> QED
  BY <1>1, <1>2, <1>3, <1>4, <1>5, <1>6, <1>7, <1>8 DEF Register

LEMMA TypeCalls ==
    ASSUME TypeInv, NEW t \in Thread,
           \/ \E lr \in Addr : Call(t, lr)
           \/ Return(t) \/ shadow_stack_save(t) \/ shadow_stack_restore(t)
    PROVE  TypeInv'
<1> USE DEF TypeInv, TypeOK, Goto, tables, PC
<1>1. MySlot(t) \in SlotIndex \cup {NotFound}
  BY FindSlotProperties DEF MySlot
<1>2. ASSUME NEW lr \in Addr, Call(t, lr) PROVE TypeInv'
  <2> DEFINE s == Append(frames[t], lr)
  <2>1. s \in Seq(Addr) /\ Len(s) = Len(frames[t]) + 1 /\ Len(frames[t]) \in Nat
    BY AppendProperties, LenProperties
  <2>2. s # << >> /\ Len(s) =< MaxDepth
    <3>1. Len(frames[t]) < MaxDepth /\ MaxDepth \in Nat /\ Len(frames[t]) \in Nat
      BY <1>2, <2>1, BoundAssumption DEF Call
    <3>2. Len(s) = Len(frames[t]) + 1
      BY <2>1
    <3> HIDE DEF s
    <3> QED
      BY <3>1, <3>2, EmptySeq
  <2>3. frames' = [frames EXCEPT ![t] = s]
    BY <1>2 DEF Call
  <2> HIDE DEF s
  <2>4. at' \in [Thread -> Nat \cup {NotFound}] /\ pc' \in [Thread -> PC]
    BY <1>1, <1>2, Sizes DEF Call
  <2>5. \A u \in Thread : frames'[u] = IF u = t THEN s ELSE frames[u]
    BY <2>3
  <2>6. /\ \A u \in Thread \ {t} : pc'[u] = pc[u] /\ at'[u] = at[u]
        /\ pc'[t] = "save"
    BY <1>2 DEF Call
  <2>7. frames' \in [Thread -> Seq(Addr)] /\ \A u \in Thread : Len(frames'[u]) =< MaxDepth
    BY <2>1, <2>2, <2>3, <2>5
  <2>8. \A u \in Thread : /\ pc'[u] \in {"save", "restore"} => frames'[u] # << >>
                          /\ pc'[u] = "leave_read" => at'[u] \in FakeIndex
    BY <2>2, <2>5, <2>6
  <2>9. UNCHANGED << slots, fake, ss_mutex, fake_mutex, crossed, leave, tidOf, lastTid, mode,
                    mapped >>
    BY <1>2 DEF Call
  <2>10. TypeOK'
    BY <2>4, <2>7, <2>9
  <2> HIDE DEF TypeOK
  <2> QED
    BY <2>8, <2>10
<1>3. CASE Return(t)
  BY <1>1, <1>3, Sizes DEF Return
<1>4. CASE shadow_stack_save(t)
  <2> DEFINE i == at[t]
             lr == frames[t][Len(frames[t])]
  <2>1. lr \in Word
    BY <1>4, LenProperties, ElementOfSeq, EmptySeq DEF shadow_stack_save, Word
  <2>2. i \in SlotIndex => Pushed(slots[i].stack, lr) \in Seq(Word)
    <3> SUFFICES ASSUME i \in SlotIndex PROVE Append(slots[i].stack, lr) \in Seq(Word)
      BY DEF Pushed
    <3>1. slots[i].stack \in Seq(Word)
      BY DEF Table, Slot
    <3> HIDE DEF lr
    <3> QED
      BY <2>1, <3>1, AppendProperties
  <2> HIDE DEF i, lr
  <2>3. \/ slots' = slots
        \/ slots' = [slots EXCEPT ![i].stack = Pushed(@, lr)]
    BY <1>4 DEF shadow_stack_save, i, lr
  <2>4. slots' \in Table
    <3>1. CASE i \in SlotIndex
      <4> DEFINE s == Pushed(slots[i].stack, lr)
      <4>1. \/ slots' = slots
            \/ slots' = [slots EXCEPT ![i].stack = s]
        BY <2>3, <3>1 DEF Table
      <4>2. s \in Seq(Word)
        BY <2>2, <3>1
      <4> HIDE DEF s
      <4> QED
        BY <4>1, <4>2, StackSet
    <3>2. CASE i \notin SlotIndex
      BY <2>3, <3>2 DEF Table
    <3> QED
      BY <3>1, <3>2
  <2> QED
    BY <1>4, <2>4 DEF shadow_stack_save
<1>5. CASE shadow_stack_restore(t)
  <2> DEFINE i == at[t]
             depth == Len(frames[t])
             s == SubSeq(frames[t], 1, depth - 1)
  <2>1. s \in Seq(Addr) /\ Len(s) =< MaxDepth
    <3>1. Popped(frames[t]) \in Seq(Addr) /\ Len(Popped(frames[t])) = depth - 1
      BY <1>5, PoppedProperties DEF shadow_stack_restore
    <3>2. depth \in Nat /\ depth =< MaxDepth
      BY LenProperties
    <3>3. s = Popped(frames[t])
      BY DEF Popped
    <3> HIDE DEF depth, s
    <3>4. depth - 1 =< MaxDepth
      BY <3>2, BoundAssumption
    <3> QED
      BY <3>1, <3>3, <3>4
  <2>2. i \in SlotIndex => \/ slots[i].stack = << >>
                           \/ Popped(slots[i].stack) \in Seq(Word)
    <3> SUFFICES ASSUME i \in SlotIndex, slots[i].stack # << >>
                 PROVE  Popped(slots[i].stack) \in Seq(Word)
      OBVIOUS
    <3>1. slots[i].stack \in Seq(Word)
      BY DEF Table, Slot
    <3> QED
      BY <3>1, PoppedProperties
  <2>3. frames' = [frames EXCEPT ![t] = s]
    BY <1>5 DEF shadow_stack_restore
  <2>4. \/ slots' = slots
        \/ slots' = [slots EXCEPT ![i].stack = IF @ = << >> THEN @ ELSE Popped(@)]
    BY <1>5 DEF shadow_stack_restore
  <2> HIDE DEF i, depth, s
  <2>5. slots' \in Table
    <3>1. CASE i \in SlotIndex
      <4> DEFINE stack == slots[i].stack
                 w == IF stack = << >> THEN stack ELSE Popped(stack)
      <4>1. \/ slots' = slots
            \/ slots' = [slots EXCEPT ![i].stack = w]
        BY <2>4, <3>1 DEF Table
      <4>2. w \in Seq(Word)
        BY <2>2, <3>1 DEF Table, Slot
      <4> HIDE DEF w
      <4> QED
        BY <4>1, <4>2, StackSet
    <3>2. CASE i \notin SlotIndex
      BY <2>4, <3>2 DEF Table
    <3> QED
      BY <3>1, <3>2
  <2>6. frames' \in [Thread -> Seq(Addr)] /\ \A u \in Thread : Len(frames'[u]) =< MaxDepth
    BY <2>1, <2>3
  <2>7. \A u \in Thread \ {t} : /\ frames'[u] = frames[u] /\ pc'[u] = pc[u]
                               /\ at'[u] = at[u]
    BY <1>5, <2>3 DEF shadow_stack_restore
  <2>8. pc' \in [Thread -> PC] /\ pc'[t] \in {"run", "lost"}
    BY <1>5 DEF shadow_stack_restore
  <2>9. UNCHANGED << fake, ss_mutex, fake_mutex, leave, tidOf, lastTid, mode, mapped, crossed >>
        /\ at' \in [Thread -> Nat \cup {NotFound}]
    BY <1>5 DEF shadow_stack_restore
  <2> QED
    BY <2>5, <2>6, <2>7, <2>8, <2>9
<1> QED
  BY <1>2, <1>3, <1>4, <1>5

LEMMA TypeLeaves ==
    ASSUME TypeInv,
           \/ \E c, t \in Thread, call \in {"detach", "join"} : Leave(c, t, call)
           \/ \E c \in Thread : \/ Lookup(c) \/ LeaveFree(c)
                              \/ RealDetach(c) \/ RealJoin(c) \/ LeaveUnlist(c)
    PROVE  TypeInv'
<1> USE DEF TypeInv, TypeOK, Goto, tables, PC
<1>1. ASSUME NEW c \in Thread, NEW t \in Thread, NEW call \in {"detach", "join"},
             Leave(c, t, call)
      PROVE  TypeInv'
  BY <1>1 DEF Leave
<1>2. ASSUME NEW c \in Thread, LeaveFree(c) PROVE TypeInv'
  <2>1. slots' \in Table
    BY <1>2, SlotUpdates DEF LeaveFree
  <2> QED
    BY <1>2, <2>1 DEF LeaveFree
<1>3. ASSUME NEW c \in Thread, RealDetach(c) PROVE TypeInv'
  <2>1. leave' \in [Thread -> Leaves]
    BY <1>3, LeaveUpdates DEF RealDetach, Leaves
  <2>2. /\ pc' \in [Thread -> PC]
        /\ \A u \in Thread : pc'[u] \in {pc[u], "none", "leave_unlist"}
    <3>1. \/ \E u : pc' = [pc EXCEPT ![u] = "none", ![c] = "leave_unlist"]
          \/ pc' = [pc EXCEPT ![c] = "leave_unlist"]
      BY <1>3 DEF RealDetach
    <3> QED
      BY <3>1
  <2>3. /\ mode' \in [Thread -> {"none", "joinable", "detached"}]
        /\ tidOf' \in [Thread -> Tid \cup {0}]
    BY <1>3 DEF RealDetach
  <2> QED
    BY <1>3, <2>1, <2>2, <2>3 DEF RealDetach, Leaves
<1>4. ASSUME NEW c \in Thread, RealJoin(c) PROVE TypeInv'
  <2>1. leave' \in [Thread -> Leaves]
    BY <1>4, LeaveUpdates DEF RealJoin, Leaves
  <2>2. /\ pc' \in [Thread -> PC]
        /\ \A u \in Thread : pc'[u] \in {pc[u], "none", "leave_unlist"}
    <3>1. \/ \E u : pc' = [pc EXCEPT ![u] = "none", ![c] = "leave_unlist"]
          \/ pc' = [pc EXCEPT ![c] = "leave_unlist"]
      BY <1>4 DEF RealJoin
    <3> QED
      BY <3>1
  <2>3. /\ mode' \in [Thread -> {"none", "joinable", "detached"}]
        /\ tidOf' \in [Thread -> Tid \cup {0}]
    BY <1>4 DEF RealJoin
  <2> QED
    BY <1>4, <2>1, <2>2, <2>3 DEF RealJoin, Leaves
<1>5. ASSUME NEW c \in Thread, LeaveUnlist(c) PROVE TypeInv'
  <2>1. fake' \in [FakeIndex -> FakeEntry]
    <3>1. FakeFreed(leave[c].subtid) \in [FakeIndex -> FakeEntry]
      BY FakeFreedType
    <3> QED
      BY <1>5, <3>1 DEF LeaveUnlist
  <2> QED
    BY <1>5, <2>1, Sizes DEF LeaveUnlist, Leaves
<1>6. ASSUME NEW c \in Thread, LookupScan(c) PROVE TypeInv'
  <2>1. at[c] \in FakeIndex /\ at[c] + 1 \in Nat
    <3>1. at[c] \in FakeIndex
      BY <1>6 DEF LookupScan
    <3> QED
      BY <3>1, BoundAssumption DEF FakeIndex
  <2>2. at' \in [Thread -> Nat \cup {NotFound}] /\ pc' \in [Thread -> PC]
    BY <1>6, <2>1 DEF LookupScan
  <2>3. /\ \A u \in Thread \ {c} : pc'[u] = pc[u] /\ at'[u] = at[u]
        /\ \/ pc'[c] = "leave_scan"
           \/ pc'[c] = "leave_read" /\ at'[c] = at[c]
    BY <1>6 DEF LookupScan
  <2> QED
    BY <1>6, <2>1, <2>2, <2>3 DEF LookupScan
<1>7. ASSUME NEW c \in Thread, LookupFails(c) PROVE TypeInv'
  BY <1>7 DEF LookupFails
<1>8. ASSUME NEW c \in Thread, LookupRead(c) PROVE TypeInv'
  <2>1. fake[at[c]].tid \in Tid \cup {0, NotFound}
    BY <1>8 DEF LookupRead, FakeEntry
  <2>2. leave' \in [Thread -> Leaves]
    BY <1>8, <2>1 DEF LookupRead, Leaves
  <2>3. /\ pc' = [pc EXCEPT ![c] = "leave_free"]
        /\ pc' \in [Thread -> PC]
    BY <1>8 DEF LookupRead
  <2>4. at' \in [Thread -> Nat \cup {NotFound}]
    BY <1>8 DEF LookupRead
  <2>5. \A u \in Thread :
           /\ pc'[u] \in {"save", "restore"} => frames[u] # << >>
           /\ pc'[u] = "leave_read" => at'[u] \in FakeIndex
    <3>1. \A u \in Thread \ {c} : pc'[u] = pc[u] /\ at'[u] = at[u]
      BY <1>8, <2>3 DEF LookupRead
    <3>2. pc'[c] = "leave_free"
      BY <2>3
    <3> QED
      BY <3>1, <3>2
  <2> QED
    BY <1>8, <2>2, <2>3, <2>4, <2>5 DEF LookupRead, Leaves
<1> QED
  BY <1>1, <1>2, <1>3, <1>4, <1>5, <1>6, <1>7, <1>8 DEF Lookup

LEMMA TypeStep == TypeInv /\ [Next]_vars => TypeInv'
<1> SUFFICES ASSUME TypeInv, [Next]_vars PROVE TypeInv'
  OBVIOUS
<1>1. CASE InitWhole
  BY <1>1, ZeroTableType, Sizes DEF InitWhole, TypeInv, TypeOK, Goto, PC
<1>2. ASSUME NEW c \in Thread, NEW t \in Thread, my_pthread_create(c, t) PROVE TypeInv'
  <2>1. lastTid + 1 \in Tid /\ lastTid + 1 \in 1 .. MaxTid
    BY <1>2, BoundAssumption DEF my_pthread_create, TypeInv, TypeOK
  <2> QED
    BY <1>2, <2>1 DEF my_pthread_create, TypeInv, TypeOK, Goto, tables, PC
<1>3. ASSUME NEW t \in Thread, Exit(t) PROVE TypeInv'
  <2>1. << >> \in Seq(Addr) /\ Len(<< >>) = 0
    BY EmptySeq
  <2> QED
    <3>1. /\ frames' \in [Thread -> Seq(Addr)]
          /\ \A u \in Thread : Len(frames'[u]) =< MaxDepth
      BY <1>3, <2>1, BoundAssumption DEF Exit, TypeInv, TypeOK
    <3>2. /\ pc' \in [Thread -> PC] /\ pc'[t] \in {"none", "exited"}
          /\ \A u \in Thread \ {t} : pc'[u] = pc[u] /\ frames'[u] = frames[u]
      BY <1>3 DEF Exit, TypeInv, TypeOK, Goto, PC
    <3>3. /\ mode' \in [Thread -> {"none", "joinable", "detached"}]
          /\ tidOf' \in [Thread -> Tid \cup {0}] /\ mapped' \subseteq Thread
      BY <1>3 DEF Exit, TypeInv, TypeOK
    <3> QED
      BY <1>3, <3>1, <3>2, <3>3 DEF Exit, TypeInv, TypeOK, tables
<1>4. CASE UNCHANGED vars
  BY <1>4 DEF vars, tables, threads, TypeInv, TypeOK
<1> QED
  BY <1>1, <1>2, <1>3, <1>4, TypeRegister, TypeCalls, TypeLeaves, TypeRestart
     DEF Next, Finish

\* The strengthened type invariant, from which TypeCorrect follows.
THEOREM TypeKept == Spec => []TypeInv
BY TypeInit, TypeStep, PTL DEF Spec

\* shadowstack.c 61-315: the table, the list and the threads' places in the
\* wrappers are well formed, for every size of each.
THEOREM TypeCorrect == Spec => []TypeOK
<1>1. TypeInv => TypeOK
  BY DEF TypeInv
<1> QED
  BY <1>1, TypeKept, PTL

-----------------------------------------------------------------------------
(* The two mutexes.                                                        *)

MutexInv ==
    \A t \in Thread :
       /\ pc[t] \in {"init_scan", "init_claim", "init_clear"} => ss_mutex = t
       /\ pc[t] = "list_fill" => /\ fake_mutex = t
                                 /\ at[t] \in FakeIndex
                                 /\ fake[at[t]].value = t
       /\ pc[Main] = "boot" /\ t # Main => pc[t] = "none"
       /\ pc[t] = "boot" => t = Main

\* What a step sets in the calls in progress.
LEMMA TargetCleared ==
    ASSUME TypeOK, NEW c \in Thread, leave' = [leave EXCEPT ![c].target = NoThread]
    PROVE  \A u \in Thread : /\ leave'[u].target = IF u = c THEN NoThread ELSE leave[u].target
                             /\ leave'[u].subtid = leave[u].subtid
BY DEF TypeOK

LEMMA SubtidSet ==
    ASSUME TypeOK, NEW c \in Thread, NEW n, leave' = [leave EXCEPT ![c].subtid = n]
    PROVE  \A u \in Thread : leave'[u].target = leave[u].target
BY DEF TypeOK

LEMMA MutexRegister ==
    ASSUME TypeInv, MutexInv, NEW t \in Thread, Register(t)
    PROVE  MutexInv'
<1>0. TypeOK
  BY DEF TypeInv
<1> USE DEF MutexInv, TypeOK, Goto, tables
<1>1. CASE InitLock(t)
  BY <1>0, <1>1, ThreadAssumption DEF InitLock
<1>2. CASE InitScan(t)
  BY <1>0, <1>2, ThreadAssumption DEF InitScan
<1>3. CASE InitFull(t)
  BY <1>0, <1>3, ThreadAssumption DEF InitFull
<1>4. CASE InitClaim(t)
  BY <1>0, <1>4, ThreadAssumption DEF InitClaim
<1>5. CASE InitClear(t)
  BY <1>0, <1>5, ThreadAssumption DEF InitClear
<1>6. CASE ListLock(t)
  <2> DEFINE e == FreeEntry
  <2>1. e \in FakeIndex
    BY <1>6, FreeEntryProperties DEF ListLock
  <2>2. fake' = [fake EXCEPT ![e].value = t] /\ at' = [at EXCEPT ![t] = e]
    BY <1>6 DEF ListLock
  <2> HIDE DEF e
  <2>3. fake'[e].value = t
    BY <1>0, <2>1, <2>2 DEF FakeEntry
  <2> QED
    BY <1>0, <1>6, <2>1, <2>2, <2>3, ThreadAssumption DEF ListLock
<1>7. CASE ListFull(t)
  BY <1>0, <1>7, ThreadAssumption DEF ListFull
<1>8. CASE ListFill(t)
  BY <1>0, <1>8, ThreadAssumption DEF ListFill
<1> QED
  BY <1>1, <1>2, <1>3, <1>4, <1>5, <1>6, <1>7, <1>8 DEF Register

LEMMA MutexLeaves ==
    ASSUME TypeInv, MutexInv,
           \/ \E c, t \in Thread, call \in {"detach", "join"} : Leave(c, t, call)
           \/ \E c \in Thread : \/ Lookup(c) \/ LeaveFree(c)
                              \/ RealDetach(c) \/ RealJoin(c) \/ LeaveUnlist(c)
    PROVE  MutexInv'
<1>0. TypeOK
  BY DEF TypeInv
<1> USE DEF MutexInv, TypeOK, Goto, tables
<1>1. ASSUME NEW c \in Thread, NEW t \in Thread, NEW call \in {"detach", "join"},
             Leave(c, t, call)
      PROVE  MutexInv'
  BY <1>0, <1>1, ThreadAssumption DEF Leave, MayLeave
<1>2. ASSUME NEW c \in Thread, LeaveFree(c) PROVE MutexInv'
  BY <1>0, <1>2, ThreadAssumption DEF LeaveFree
<1>3. ASSUME NEW c \in Thread, RealDetach(c) PROVE MutexInv'
  <2>1. /\ \A u \in Thread : pc'[u] \in {pc[u], "none", "leave_unlist"}
        /\ pc[c] = "leave_real" /\ UNCHANGED << ss_mutex, fake_mutex, fake, at >>
    BY <1>0, <1>3 DEF RealDetach
  <2>2. pc[Main] # "boot" /\ pc'[Main] # "boot"
    BY <2>1, ThreadAssumption
  <2> QED
    BY <2>1, <2>2, ThreadAssumption
<1>4. ASSUME NEW c \in Thread, RealJoin(c) PROVE MutexInv'
  <2>1. /\ \A u \in Thread : pc'[u] \in {pc[u], "none", "leave_unlist"}
        /\ pc[c] = "leave_real" /\ UNCHANGED << ss_mutex, fake_mutex, fake, at >>
    BY <1>0, <1>4 DEF RealJoin
  <2>2. pc[Main] # "boot" /\ pc'[Main] # "boot"
    BY <2>1, ThreadAssumption
  <2> QED
    BY <2>1, <2>2, ThreadAssumption
<1>5. ASSUME NEW c \in Thread, LeaveUnlist(c) PROVE MutexInv'
  <2> DEFINE tid == leave[c].subtid
  <2>1. \A e \in FakeIndex : FakeFreed(tid)[e].value = fake[e].value
    BY <1>0, FakeFreedType
  <2>2. \A e \in FakeIndex : fake'[e].value = fake[e].value
    BY <1>5, <2>1 DEF LeaveUnlist
  <2> QED
    BY <1>0, <1>5, <2>2, ThreadAssumption DEF LeaveUnlist
<1>6. ASSUME NEW c \in Thread, Lookup(c) PROVE MutexInv'
  BY <1>0, <1>6, ThreadAssumption DEF Lookup, LookupScan, LookupFails, LookupRead
<1> QED
  BY <1>1, <1>2, <1>3, <1>4, <1>5, <1>6

LEMMA MutexStep == TypeInv /\ MutexInv /\ [Next]_vars => MutexInv'
<1> SUFFICES ASSUME TypeInv, MutexInv, [Next]_vars PROVE MutexInv'
  OBVIOUS
<1>0. TypeOK
  BY DEF TypeInv
<1> USE DEF MutexInv, TypeOK, Goto, tables
<1>1. CASE InitWhole
  BY <1>0, <1>1, ThreadAssumption DEF InitWhole
<1>2. ASSUME NEW c \in Thread, NEW t \in Thread, my_pthread_create(c, t) PROVE MutexInv'
  <2>1. /\ pc[t] = "none" /\ pc[c] = "run" /\ UNCHANGED << ss_mutex, fake_mutex, fake, at >>
        /\ \A u \in Thread : pc'[u] = IF u = t THEN "init_lock" ELSE pc[u]
    BY <1>0, <1>2 DEF my_pthread_create
  <2>2. pc[Main] # "boot"
    BY <2>1
  <2> QED
    BY <2>1, <2>2, ThreadAssumption
<1>3. ASSUME NEW t \in Thread, Exit(t) PROVE MutexInv'
  BY <1>0, <1>3, ThreadAssumption DEF Exit
<1>4. ASSUME NEW t \in Thread, NEW lr \in Addr, Call(t, lr) PROVE MutexInv'
  BY <1>0, <1>4, ThreadAssumption DEF Call
<1>5. ASSUME NEW t \in Thread, Return(t) PROVE MutexInv'
  BY <1>0, <1>5, ThreadAssumption DEF Return
<1>6. ASSUME NEW t \in Thread, shadow_stack_save(t) PROVE MutexInv'
  BY <1>0, <1>6, ThreadAssumption DEF shadow_stack_save
<1>7. ASSUME NEW t \in Thread, shadow_stack_restore(t) PROVE MutexInv'
  BY <1>0, <1>7, ThreadAssumption DEF shadow_stack_restore
<1>8. CASE Restart
  BY <1>8, ThreadAssumption DEF Restart
<1>9. CASE UNCHANGED vars
  BY <1>9 DEF vars, threads
<1> QED
  BY <1>1, <1>2, <1>3, <1>4, <1>5, <1>6, <1>7, <1>8, <1>9, MutexRegister, MutexLeaves
     DEF Next, Finish

-----------------------------------------------------------------------------
(* The ids: whom the list and the calls in progress can mean.              *)

InLeave == {"leave_scan", "leave_read", "leave_free", "leave_real"}

\* Nobody has left t, and it took no entry that a lookup had found.
Kept(t) == NotLeft(t) /\ tidOf[t] \notin crossed

\* The ids of the threads are different and were given out in order; an entry
\* of the list, or a call in progress, that has the id of a thread nobody has
\* left stands for that thread.
IdsInv ==
    /\ \A t \in Thread : /\ tidOf[t] =< lastTid
                         /\ pc[t] # "none" => tidOf[t] # 0
                         /\ leave[t].subtid =< lastTid
                         /\ pc[t] \notin InLeave => leave[t].target = NoThread
    /\ \A t, u \in Thread : tidOf[t] # 0 /\ tidOf[t] = tidOf[u] => t = u
    /\ \A e \in FakeIndex : fake[e].tid =< lastTid
    /\ \A e \in FakeIndex, u \in Thread :
          tidOf[u] # 0 /\ fake[e].tid = tidOf[u] /\ Kept(u)
             => fake[e].value = u /\ fake[e].flag = 1
    /\ \A c, u \in Thread :
          tidOf[u] # 0 /\ leave[c].subtid = tidOf[u] => ~ Kept(u)

\* A lookup that has found an entry: the id in it is not that of a thread
\* nobody has left, nor will be once its new owner has filled it.
LookInv ==
    \A c \in Thread : pc[c] = "leave_read" =>
       /\ \A u \in Thread :
             tidOf[u] # 0 /\ fake[at[c]].tid = tidOf[u] => ~ Kept(u)
       /\ \A t \in Thread :
             pc[t] = "list_fill" /\ at[t] = at[c]
                => tidOf[t] \in crossed \/ leave[c].target = t

LEMMA IdsFresh ==
    ASSUME fake = [e \in FakeIndex |-> EmptyEntry],
           pc = [t \in Thread |-> IF t = Main THEN "boot" ELSE "none"],
           leave = [t \in Thread |-> NoLeave],
           tidOf = [t \in Thread |-> IF t = Main THEN 1 ELSE 0],
           lastTid = 1
    PROVE  IdsInv
BY DEF IdsInv, EmptyEntry, NoLeave, InLeave

\* A step that leaves list, calls and ids alone.
LEMMA IdsQuiet ==
    ASSUME IdsInv, UNCHANGED << fake, leave, tidOf, lastTid, mode, crossed >>,
           \A u \in Thread : /\ pc[u] = "none" => pc'[u] = "none"
                             /\ pc[u] \in InLeave => pc'[u] \in InLeave
    PROVE  IdsInv'
BY DEF IdsInv, NotLeft, Kept

\* A step of the list only.
LEMMA IdsList ==
    ASSUME IdsInv, UNCHANGED << leave, tidOf, lastTid, mode >>, crossed \subseteq crossed',
           \A u \in Thread : /\ pc[u] = "none" => pc'[u] = "none"
                             /\ pc[u] \in InLeave => pc'[u] \in InLeave,
           \A e \in FakeIndex :
              /\ fake'[e].tid =< lastTid
              /\ \A u \in Thread : tidOf[u] # 0 /\ fake'[e].tid = tidOf[u] /\ Kept(u)
                                      => fake'[e].value = u /\ fake'[e].flag = 1
    PROVE  IdsInv'
BY DEF IdsInv, NotLeft, Kept

LEMMA IdsRegister ==
    ASSUME TypeOK, MutexInv, IdsInv, NEW t \in Thread, Register(t)
    PROVE  IdsInv'
<1>1. ASSUME UNCHANGED << fake, leave, tidOf, lastTid, mode, crossed >>,
             pc[t] \notin InLeave \cup {"none"}, \A u \in Thread \ {t} : pc'[u] = pc[u]
      PROVE  IdsInv'
  BY <1>1, IdsQuiet
<1>2. CASE \/ InitLock(t) \/ InitScan(t) \/ InitFull(t)
           \/ InitClaim(t) \/ InitClear(t) \/ ListFull(t)
  BY <1>1, <1>2 DEF InitLock, InitScan, InitFull, InitClaim, InitClear, ListFull,
                    InLeave, TypeOK, Goto, tables
<1>3. CASE ListLock(t)
  <2> DEFINE e == FreeEntry
  <2>1. e \in FakeIndex /\ (fake[e].value = NoThread \/ fake[e].flag = 0)
    BY <1>3, FreeEntryProperties DEF ListLock
  <2>2. fake' = [fake EXCEPT ![e].value = t]
    BY <1>3 DEF ListLock
  <2> HIDE DEF e
  <2>3. \A f \in FakeIndex : /\ fake'[f].tid = fake[f].tid /\ fake'[f].flag = fake[f].flag
                             /\ fake'[f].value = IF f = e THEN t ELSE fake[f].value
    BY <2>2 DEF TypeOK, FakeEntry
  <2>4. \A u \in Thread : tidOf[u] # 0 /\ fake[e].tid = tidOf[u] => ~ Kept(u)
    BY <2>1, ThreadAssumption DEF IdsInv
  <2>5. /\ UNCHANGED << leave, tidOf, lastTid, mode >> /\ crossed \subseteq crossed'
        /\ pc[t] = "list_lock" /\ \A u \in Thread \ {t} : pc'[u] = pc[u]
    BY <1>3 DEF ListLock, TypeOK, Goto
  <2>6. \A f \in FakeIndex :
           /\ fake'[f].tid =< lastTid
           /\ \A u \in Thread : tidOf[u] # 0 /\ fake'[f].tid = tidOf[u] /\ Kept(u)
                                   => fake'[f].value = u /\ fake'[f].flag = 1
    BY <2>3, <2>4 DEF IdsInv
  <2> QED
    BY <2>5, <2>6, IdsList DEF InLeave
<1>4. CASE ListFill(t)
  <2> DEFINE e == at[t]
  <2>1. e \in FakeIndex /\ fake[e].value = t /\ tidOf[t] =< lastTid
    BY <1>4 DEF ListFill, MutexInv, IdsInv
  <2>2. fake' = [fake EXCEPT ![e].tid = tidOf[t], ![e].flag = 1]
    BY <1>4 DEF ListFill
  <2> HIDE DEF e
  <2>3. /\ fake'[e].tid = tidOf[t] /\ fake'[e].flag = 1 /\ fake'[e].value = t
        /\ \A f \in FakeIndex \ {e} : fake'[f] = fake[f]
    BY <2>1, <2>2 DEF TypeOK, FakeEntry
  <2>4. /\ UNCHANGED << leave, tidOf, lastTid, mode, crossed >>
        /\ pc[t] = "list_fill" /\ \A u \in Thread \ {t} : pc'[u] = pc[u]
    BY <1>4 DEF ListFill, TypeOK, Goto
  <2>5. \A f \in FakeIndex :
           /\ fake'[f].tid =< lastTid
           /\ \A u \in Thread : tidOf[u] # 0 /\ fake'[f].tid = tidOf[u] /\ Kept(u)
                                   => fake'[f].value = u /\ fake'[f].flag = 1
    BY <2>1, <2>3 DEF IdsInv
  <2> QED
    BY <2>4, <2>5, IdsList DEF InLeave
<1> QED
  BY <1>2, <1>3, <1>4 DEF Register

LEMMA IdsCalls ==
    ASSUME TypeOK, IdsInv, NEW t \in Thread,
           \/ \E lr \in Addr : Call(t, lr)
           \/ Return(t) \/ shadow_stack_save(t) \/ shadow_stack_restore(t)
           \/ LookupScan(t) \/ LookupFails(t) \/ LeaveFree(t)
    PROVE  IdsInv'
<1> USE DEF LookupScan, LookupFails
<1>1. UNCHANGED << fake, leave, tidOf, lastTid, mode, crossed >>
  BY DEF Call, Return, shadow_stack_save, shadow_stack_restore, LeaveFree, tables
<1>2. /\ pc[t] \notin InLeave \cup {"none"} \/ (pc[t] \in InLeave /\ pc'[t] \in InLeave)
      /\ \A u \in Thread \ {t} : pc'[u] = pc[u]
  BY DEF Call, Return, shadow_stack_save, shadow_stack_restore, LeaveFree, InLeave, TypeOK, Goto
<1> QED
  BY <1>1, <1>2, IdsQuiet DEF InLeave

\* Threads that are left come and go: a step that keeps the list and the ids
\* of those that stay, and leaves more threads at most.
LEMMA IdsLeft ==
    ASSUME IdsInv, UNCHANGED << fake, lastTid, crossed >>, lastTid \in Nat,
           tidOf \in [Thread -> Int],
           \A u \in Thread :
              /\ tidOf'[u] = tidOf[u] \/ tidOf'[u] = 0
              /\ pc'[u] # "none" => tidOf'[u] = tidOf[u] /\ pc[u] # "none"
              /\ NotLeft(u)' /\ tidOf'[u] # 0 => NotLeft(u)
              /\ leave'[u].subtid =< lastTid
              /\ pc'[u] \notin InLeave => leave'[u].target = NoThread
              /\ \A v \in Thread : tidOf'[v] # 0 /\ leave'[u].subtid = tidOf'[v] => ~ Kept(v)'
    PROVE  IdsInv'
BY DEF IdsInv, Kept

\* A lookup only sets the id it has found.
LEMMA LookupKeeps ==
    ASSUME TypeOK, NEW c \in Thread, Lookup(c)
    PROVE  \A u \in Thread : leave'[u].target = leave[u].target
<1>1. leave' = leave \/ \E n : leave' = [leave EXCEPT ![c].subtid = n]
  BY DEF Lookup, LookupScan, LookupFails, LookupRead
<1> QED
  BY <1>1, SubtidSet

LEMMA TidTypes == TypeOK => lastTid \in Nat /\ tidOf \in [Thread -> Int]
<1>1. MaxTid \in Nat /\ \A n \in Tid \cup {0} : n \in Int
  BY BoundAssumption
<1> QED
  BY <1>1 DEF TypeOK

LEMMA IdsLeave ==
    ASSUME TypeOK, IdsInv, NEW c \in Thread, NEW t \in Thread,
           NEW call \in {"detach", "join"}, Leave(c, t, call)
    PROVE  IdsInv'
<1>1. /\ pc[c] = "run" /\ pc'[c] = "leave_scan"
      /\ \A u \in Thread \ {c} : pc'[u] = pc[u] /\ leave'[u] = leave[u]
      /\ leave'[c].target = t /\ leave'[c].subtid = -1
      /\ UNCHANGED << fake, tidOf, lastTid, mode, crossed >>
  BY DEF Leave, MayLeave, TypeOK, Goto, tables
<1>2. leave[c].target = NoThread
  BY <1>1 DEF IdsInv, InLeave
<1>3. ASSUME NEW u \in Thread PROVE (NotLeft(u)' => NotLeft(u)) /\ (Kept(u)' => Kept(u))
  BY <1>1, <1>2, ThreadAssumption DEF NotLeft, Kept
<1>4. ASSUME NEW u \in Thread
      PROVE  /\ leave'[u].subtid =< lastTid
             /\ pc'[u] \notin InLeave => leave'[u].target = NoThread
             /\ \A v \in Thread : tidOf[v] # 0 /\ leave'[u].subtid = tidOf[v] => ~ Kept(v)'
  <2>1. lastTid \in Nat /\ \A v \in Thread : tidOf[v] # -1
    BY TidTypes, Sizes DEF TypeOK
  <2> QED
    BY <1>1, <1>3, <2>1 DEF IdsInv, InLeave
<1> QED
  BY <1>1, <1>3, <1>4, IdsLeft, TidTypes DEF IdsInv

\* The id that get_fake_pthread returns.
LEMMA IdsRead ==
    ASSUME TypeInv, IdsInv, LookInv, NEW c \in Thread, LookupRead(c)
    PROVE  IdsInv'
<1> DEFINE tid == fake[at[c]].tid
<1>0. TypeOK
  BY DEF TypeInv
<1>1. /\ pc[c] = "leave_read" /\ pc'[c] = "leave_free"
      /\ \A u \in Thread \ {c} : pc'[u] = pc[u]
      /\ \A u \in Thread : /\ leave'[u].target = leave[u].target
                           /\ leave'[u].subtid = IF u = c THEN tid ELSE leave[u].subtid
      /\ UNCHANGED << fake, tidOf, lastTid, mode, crossed >>
  BY <1>0 DEF LookupRead, TypeOK, Goto, tables
<1>2. tid =< lastTid /\ \A u \in Thread : tidOf[u] # 0 /\ tid = tidOf[u] => ~ Kept(u)
  BY <1>1 DEF TypeInv, IdsInv, LookInv
<1> HIDE DEF tid
<1>3. ASSUME NEW u \in Thread PROVE (NotLeft(u)' <=> NotLeft(u)) /\ (Kept(u)' <=> Kept(u))
  BY <1>1 DEF NotLeft, Kept
<1>4. ASSUME NEW u \in Thread
      PROVE  /\ leave'[u].subtid =< lastTid
             /\ pc'[u] \notin InLeave => leave'[u].target = NoThread
             /\ \A v \in Thread : tidOf[v] # 0 /\ leave'[u].subtid = tidOf[v] => ~ Kept(v)'
  BY <1>1, <1>2, <1>3 DEF IdsInv, InLeave
<1> QED
  BY <1>0, <1>1, <1>3, <1>4, IdsLeft, TidTypes DEF IdsInv

\* The C library's part: the target is left for good, or was before.
LEMMA RealEffects ==
    ASSUME TypeOK, NEW c \in Thread, RealDetach(c) \/ RealJoin(c)
    PROVE  /\ UNCHANGED << tables, at, lastTid, mapped, frames >>
           /\ pc[c] = "leave_real" /\ pc'[c] = "leave_unlist"
           /\ \A u \in Thread :
                 /\ leave'[u].target = IF u = c THEN NoThread ELSE leave[u].target
                 /\ leave'[u].subtid = leave[u].subtid
                 /\ \/ tidOf'[u] = 0 /\ pc'[u] = "none" /\ pc[u] = "exited"
                    \/ tidOf'[u] = tidOf[u] /\ (u = c \/ pc'[u] = pc[u])
                 /\ IF u = leave[c].target
                    THEN mode'[u] # "joinable" /\ (pc[u] # "exited" /\ mode[u] # "none" => mode'[u] # "none")
                    ELSE mode'[u] = mode[u]
                 /\ NotLeft(u)' => NotLeft(u)
<1> DEFINE t == leave[c].target
<1>1. \A u \in Thread : /\ leave'[u].target = IF u = c THEN NoThread ELSE leave[u].target
                        /\ leave'[u].subtid = leave[u].subtid
  BY TargetCleared DEF RealDetach, RealJoin
<1>2. UNCHANGED << tables, at, lastTid, mapped, frames >> /\ pc[c] = "leave_real"
  BY DEF RealDetach, RealJoin
<1>3. \/ /\ pc[t] = "exited"
         /\ pc' = [pc EXCEPT ![t] = "none", ![c] = "leave_unlist"]
         /\ mode' = [mode EXCEPT ![t] = "none"] /\ tidOf' = [tidOf EXCEPT ![t] = 0]
      \/ /\ pc' = [pc EXCEPT ![c] = "leave_unlist"] /\ tidOf' = tidOf
         /\ \/ mode' = [mode EXCEPT ![t] = "detached"]
            \/ mode' = mode /\ mode[t] # "joinable"
  BY DEF RealDetach, RealJoin, Goto
<1> HIDE DEF t
<1>4. pc'[c] = "leave_unlist"
  BY <1>3 DEF TypeOK
<1>5. \A u \in Thread : /\ \/ tidOf'[u] = 0 /\ pc'[u] = "none" /\ pc[u] = "exited"
                           \/ tidOf'[u] = tidOf[u] /\ (u = c \/ pc'[u] = pc[u])
                        /\ IF u = t
                           THEN mode'[u] # "joinable" /\ (pc[u] # "exited" /\ mode[u] # "none" => mode'[u] # "none")
                           ELSE mode'[u] = mode[u]
  BY <1>2, <1>3 DEF TypeOK
<1>6. ASSUME NEW u \in Thread PROVE NotLeft(u)' => NotLeft(u)
  BY <1>1, <1>5, ThreadAssumption DEF NotLeft, t
<1> QED
  BY <1>1, <1>2, <1>4, <1>5, <1>6 DEF t

LEMMA IdsReal ==
    ASSUME TypeOK, IdsInv, NEW c \in Thread, RealDetach(c) \/ RealJoin(c)
    PROVE  IdsInv'
<1>1. ASSUME NEW u \in Thread
      PROVE  /\ tidOf'[u] = tidOf[u] \/ tidOf'[u] = 0
             /\ pc'[u] # "none" => tidOf'[u] = tidOf[u] /\ pc[u] # "none"
             /\ NotLeft(u)' => NotLeft(u)
  BY RealEffects
<1>2. ASSUME NEW u \in Thread PROVE pc'[u] \notin InLeave => leave'[u].target = NoThread
  BY RealEffects DEF IdsInv, InLeave
<1>3. UNCHANGED << fake, lastTid, crossed >>
  BY RealEffects DEF tables
<1>4. ASSUME NEW u \in Thread
      PROVE  /\ leave'[u].subtid =< lastTid
             /\ \A v \in Thread : tidOf'[v] # 0 /\ leave'[u].subtid = tidOf'[v]
                                   => ~ Kept(v)'
  BY <1>1, <1>3, RealEffects DEF IdsInv, Kept
<1> QED
  BY <1>1, <1>2, <1>3, <1>4, IdsLeft, TidTypes

LEMMA IdsUnlist ==
    ASSUME TypeOK, IdsInv, NEW c \in Thread, LeaveUnlist(c)
    PROVE  IdsInv'
<1> DEFINE tid == leave[c].subtid
<1>1. /\ UNCHANGED << tidOf, lastTid, mode, crossed >>
      /\ pc[c] = "leave_unlist" /\ pc'[c] \in {"ended", "run"}
      /\ \A u \in Thread \ {c} : pc'[u] = pc[u]
  BY DEF LeaveUnlist, TypeOK, Goto
<1>2. \A u \in Thread : leave'[u] = IF u = c THEN NoLeave ELSE leave[u]
  BY DEF LeaveUnlist, TypeOK
<1>3. \A e \in FakeIndex : /\ fake'[e].value = fake[e].value
                           /\ fake'[e].tid = fake[e].tid
                           /\ fake'[e].flag # fake[e].flag => fake[e].tid = tid
  BY FakeFreedType DEF LeaveUnlist, TypeOK
<1> HIDE DEF tid
<1>4. leave[c].target = NoThread
  BY <1>1 DEF IdsInv, InLeave
<1>5. \A u \in Thread : Kept(u)' <=> Kept(u)
  BY <1>1, <1>2, <1>4 DEF Kept, NotLeft, NoLeave
<1>6. \A u \in Thread : tidOf[u] # 0 /\ tid = tidOf[u] => ~ Kept(u)
  BY DEF IdsInv, tid
<1>7. ASSUME NEW u \in Thread
      PROVE  /\ tidOf'[u] =< lastTid' /\ (pc'[u] # "none" => tidOf'[u] # 0)
             /\ leave'[u].subtid =< lastTid'
             /\ pc'[u] \notin InLeave => leave'[u].target = NoThread
  BY <1>1, <1>2, TidTypes DEF IdsInv, InLeave, NoLeave
<1>8. ASSUME NEW e \in FakeIndex, NEW u \in Thread,
             tidOf'[u] # 0, fake'[e].tid = tidOf'[u], Kept(u)'
      PROVE  fake'[e].value = u /\ fake'[e].flag = 1
  BY <1>1, <1>3, <1>5, <1>6, <1>8 DEF IdsInv
<1>9. ASSUME NEW u \in Thread, NEW v \in Thread, tidOf'[v] # 0, leave'[u].subtid = tidOf'[v]
      PROVE  ~ Kept(v)'
  BY <1>1, <1>2, <1>5, <1>9 DEF IdsInv, NoLeave
<1>10. /\ \A t, u \in Thread : tidOf'[t] # 0 /\ tidOf'[t] = tidOf'[u] => t = u
       /\ \A e \in FakeIndex : fake'[e].tid =< lastTid'
  BY <1>1, <1>3 DEF IdsInv
<1> QED
  BY <1>7, <1>8, <1>9, <1>10 DEF IdsInv

LEMMA ExitEffects ==
    ASSUME TypeOK, NEW t \in Thread, Exit(t)
    PROVE  /\ UNCHANGED << tables, at, leave, lastTid >>
           /\ t # Main /\ pc[t] = "run" /\ pc'[t] \in {"none", "exited"}
           /\ \A u \in Thread \ {t} : /\ pc'[u] = pc[u] /\ frames'[u] = frames[u]
                                      /\ mode'[u] = mode[u] /\ tidOf'[u] = tidOf[u]
           /\ frames'[t] = << >>
           /\ \/ pc'[t] = "none" /\ tidOf'[t] = 0
              \/ pc'[t] = "exited" /\ tidOf'[t] = tidOf[t] /\ mode'[t] = mode[t]
           /\ \A u \in Thread : tidOf'[u] # 0 => (NotLeft(u)' <=> NotLeft(u))
<1>1. UNCHANGED << tables, at, leave, lastTid >> /\ pc[t] = "run" /\ t # Main
  BY DEF Exit
<1>2. /\ \A u \in Thread \ {t} : /\ pc'[u] = pc[u] /\ frames'[u] = frames[u]
                                 /\ mode'[u] = mode[u] /\ tidOf'[u] = tidOf[u]
      /\ frames'[t] = << >>
  BY DEF Exit, TypeOK, Goto
<1>3. \/ pc'[t] = "none" /\ tidOf'[t] = 0
      \/ pc'[t] = "exited" /\ tidOf'[t] = tidOf[t] /\ mode'[t] = mode[t]
  BY DEF Exit, TypeOK, Goto
<1>4. ASSUME NEW u \in Thread, tidOf'[u] # 0 PROVE NotLeft(u)' <=> NotLeft(u)
  BY <1>1, <1>2, <1>3, <1>4 DEF NotLeft
<1> QED
  BY <1>1, <1>2, <1>3, <1>4

LEMMA IdsExit ==
    ASSUME TypeOK, IdsInv, NEW t \in Thread, Exit(t)
    PROVE  IdsInv'
<1>1. UNCHANGED << fake, lastTid, crossed >>
  BY ExitEffects DEF tables
<1>2. ASSUME NEW u \in Thread
      PROVE  /\ tidOf'[u] = tidOf[u] \/ tidOf'[u] = 0
             /\ pc'[u] # "none" => tidOf'[u] = tidOf[u] /\ pc[u] # "none"
             /\ tidOf'[u] # 0 => (NotLeft(u)' <=> NotLeft(u))
  BY ExitEffects
<1>3. ASSUME NEW u \in Thread
      PROVE  /\ leave'[u].subtid =< lastTid
             /\ pc'[u] \notin InLeave => leave'[u].target = NoThread
             /\ \A v \in Thread : tidOf'[v] # 0 /\ leave'[u].subtid = tidOf'[v]
                                   => ~ Kept(v)'
  BY <1>1, <1>2, ExitEffects DEF IdsInv, InLeave, Kept
<1> QED
  BY <1>1, <1>2, <1>3, IdsLeft, TidTypes

LEMMA IdsCreate ==
    ASSUME TypeOK, IdsInv, NEW c \in Thread, NEW t \in Thread, my_pthread_create(c, t)
    PROVE  IdsInv'
<1>1. /\ UNCHANGED << fake, leave, crossed >> /\ lastTid' = lastTid + 1
      /\ \A u \in Thread : tidOf'[u] = IF u = t THEN lastTid + 1 ELSE tidOf[u]
      /\ \A u \in Thread \ {t} : mode'[u] = mode[u] /\ pc'[u] = pc[u]
      /\ pc[t] = "none" /\ pc'[t] = "init_lock"
  BY DEF my_pthread_create, TypeOK, Goto, tables
<1>2. lastTid \in Nat /\ \A u \in Thread : tidOf[u] \in Int
  BY TidTypes
<1>3. \A u \in Thread \ {t} : Kept(u)' <=> Kept(u)
  BY <1>1 DEF NotLeft, Kept
<1>4. /\ \A e \in FakeIndex : fake[e].tid =< lastTid /\ fake[e].tid \in Int
      /\ \A u \in Thread : leave[u].subtid =< lastTid /\ leave[u].subtid \in Int
  <2>1. \A n \in Tid \cup {0, NotFound} : n \in Int
    BY BoundAssumption
  <2> QED
    BY <2>1 DEF IdsInv, TypeOK, FakeEntry
<1>5. ASSUME NEW u \in Thread
      PROVE  /\ tidOf'[u] =< lastTid' /\ (pc'[u] # "none" => tidOf'[u] # 0)
             /\ leave'[u].subtid =< lastTid'
             /\ pc'[u] \notin InLeave => leave'[u].target = NoThread
  BY <1>1, <1>2, <1>4 DEF IdsInv, InLeave
<1>6. ASSUME NEW u \in Thread, NEW v \in Thread, tidOf'[u] # 0, tidOf'[u] = tidOf'[v]
      PROVE  u = v
  <2>1. tidOf[u] =< lastTid /\ tidOf[v] =< lastTid
    BY DEF IdsInv
  <2> QED
    BY <1>1, <1>2, <1>6, <2>1 DEF IdsInv
<1>7. ASSUME NEW e \in FakeIndex, NEW u \in Thread,
             tidOf'[u] # 0, fake'[e].tid = tidOf'[u], Kept(u)'
      PROVE  fake'[e].value = u /\ fake'[e].flag = 1
  <2>1. u # t
    BY <1>1, <1>2, <1>4, <1>7
  <2> QED
    BY <1>1, <1>3, <1>7, <2>1 DEF IdsInv
<1>8. ASSUME NEW u \in Thread, NEW v \in Thread, tidOf'[v] # 0, leave'[u].subtid = tidOf'[v]
      PROVE  ~ Kept(v)'
  <2>1. v # t
    BY <1>1, <1>2, <1>4, <1>8
  <2> QED
    BY <1>1, <1>3, <1>8, <2>1 DEF IdsInv
<1>9. \A e \in FakeIndex : fake'[e].tid =< lastTid'
  BY <1>1, <1>2, <1>4
<1> QED
  BY <1>5, <1>6, <1>7, <1>8, <1>9 DEF IdsInv

LEMMA IdsWhole == TypeOK /\ MutexInv /\ IdsInv /\ InitWhole => IdsInv'
<1> SUFFICES ASSUME TypeOK, MutexInv, IdsInv, InitWhole PROVE IdsInv'
  OBVIOUS
<1>1. /\ UNCHANGED << leave, tidOf, lastTid, mode, crossed >>
      /\ fake' = [e \in FakeIndex |-> EmptyEntry]
      /\ pc[Main] = "boot" /\ \A u \in Thread \ {Main} : pc'[u] = pc[u]
  BY DEF InitWhole, Goto, TypeOK
<1>2. \A e \in FakeIndex : fake'[e].tid = 0
  BY <1>1 DEF EmptyEntry
<1>3. 0 =< lastTid
  BY TidTypes
<1> QED
  BY <1>1, <1>2, <1>3, IdsList DEF InLeave

LEMMA IdsStep == TypeInv /\ MutexInv /\ IdsInv /\ LookInv /\ [Next]_vars => IdsInv'
<1> SUFFICES ASSUME TypeInv, MutexInv, IdsInv, LookInv, [Next]_vars PROVE IdsInv'
  OBVIOUS
<1>0. TypeOK
  BY DEF TypeInv
<1>1. CASE Restart
  BY <1>1 DEF Restart, IdsInv, NoLeave, EmptyEntry, NotLeft, InLeave
<1>2. CASE UNCHANGED vars
  BY <1>2, IdsQuiet DEF vars, tables, threads
<1> QED
  BY <1>0, <1>1, <1>2, IdsRegister, IdsCalls, IdsRead, IdsLeave, IdsReal, IdsUnlist, IdsExit,
     IdsCreate, IdsWhole DEF Next, Finish, Lookup

\* A step that begins no lookup and writes no id.
LEMMA LookIdle ==
    ASSUME LookInv, crossed \subseteq crossed',
           \A c \in Thread : pc'[c] = "leave_read" =>
              /\ pc[c] = "leave_read" /\ at'[c] = at[c] /\ at[c] \in FakeIndex
              /\ leave'[c].target = leave[c].target,
           \A t \in Thread : pc'[t] = "list_fill" =>
              pc[t] = "list_fill" /\ at'[t] = at[t] /\ tidOf'[t] = tidOf[t],
           \A e \in FakeIndex : fake'[e].tid = fake[e].tid,
           \A u \in Thread : tidOf'[u] # 0 /\ NotLeft(u)' =>
              \/ tidOf'[u] = tidOf[u] /\ NotLeft(u)
              \/ \A e \in FakeIndex : fake[e].tid # tidOf'[u]
    PROVE  LookInv'
BY DEF LookInv, Kept

LEMMA LookRegister ==
    ASSUME TypeInv, MutexInv, IdsInv, LookInv, NEW t \in Thread, Register(t)
    PROVE  LookInv'
<1>0. TypeOK /\ \A c \in Thread : pc[c] = "leave_read" => at[c] \in FakeIndex
  BY DEF TypeInv
<1>1. /\ UNCHANGED << leave, tidOf, lastTid, mode >> /\ crossed \subseteq crossed'
      /\ \A u \in Thread \ {t} : pc'[u] = pc[u] /\ at'[u] = at[u]
      /\ pc'[t] # "leave_read"
  BY <1>0 DEF Register, InitLock, InitScan, InitFull, InitClaim, InitClear, ListLock, ListFull,
         ListFill, TypeOK, Goto, tables
<1>2. \A u \in Thread : NotLeft(u)' <=> NotLeft(u)
  BY <1>1 DEF NotLeft
<1>3. CASE \/ InitLock(t) \/ InitScan(t) \/ InitFull(t)
           \/ InitClaim(t) \/ InitClear(t) \/ ListFull(t)
  <2>1. UNCHANGED fake /\ pc'[t] # "list_fill"
    BY <1>0, <1>3 DEF InitLock, InitScan, InitFull, InitClaim, InitClear, ListFull, TypeOK,
       Goto, tables
  <2> QED
    BY <1>0, <1>1, <1>2, <2>1, LookIdle
<1>4. CASE ListLock(t)
  <2> DEFINE e == FreeEntry
  <2>1. e \in FakeIndex /\ fake' = [fake EXCEPT ![e].value = t] /\ at'[t] = e
    BY <1>0, <1>4, FreeEntryProperties DEF ListLock, TypeOK
  <2>2. (\E c \in Thread : pc[c] = "leave_read" /\ at[c] = e) => tidOf[t] \in crossed'
    BY <1>4 DEF ListLock
  <2> HIDE DEF e
  <2>3. \A f \in FakeIndex : fake'[f].tid = fake[f].tid
    BY <1>0, <2>1 DEF TypeOK, FakeEntry
  <2> QED
    BY <1>0, <1>1, <1>2, <2>1, <2>2, <2>3 DEF LookInv, Kept
<1>5. CASE ListFill(t)
  <2> DEFINE e == at[t]
  <2>1. /\ pc[t] = "list_fill" /\ e \in FakeIndex /\ pc'[t] = "run"
        /\ fake' = [fake EXCEPT ![e].tid = tidOf[t], ![e].flag = 1]
        /\ crossed' = crossed
    BY <1>0, <1>5 DEF ListFill, MutexInv, TypeOK, Goto
  <2>2. \A c \in Thread : pc[c] = "leave_read" /\ at[c] = e
                             => tidOf[t] \in crossed \/ leave[c].target = t
    BY <2>1 DEF LookInv
  <2> HIDE DEF e
  <2>3. \A f \in FakeIndex : fake'[f].tid = IF f = e THEN tidOf[t] ELSE fake[f].tid
    BY <1>0, <2>1 DEF TypeOK, FakeEntry
  <2>4. ASSUME NEW c \in Thread, pc'[c] = "leave_read", NEW u \in Thread,
               tidOf'[u] # 0, fake'[at'[c]].tid = tidOf'[u]
        PROVE  ~ Kept(u)'
    <3>1. pc[c] = "leave_read" /\ at'[c] = at[c] /\ at[c] \in FakeIndex
      BY <1>0, <1>1, <2>4
    <3>2. CASE at[c] # e
      BY <1>1, <1>2, <2>1, <2>3, <2>4, <3>1, <3>2 DEF LookInv, Kept
    <3>3. CASE at[c] = e
      <4>1. tidOf[u] # 0 /\ tidOf[u] = tidOf[t]
        BY <1>1, <2>3, <2>4, <3>1, <3>3
      <4>2. u = t
        BY <4>1 DEF IdsInv
      <4> QED
        BY <1>1, <2>1, <2>2, <3>1, <3>3, <4>2 DEF Kept, NotLeft
    <3> QED
      BY <3>2, <3>3
  <2> QED
    BY <1>1, <2>1, <2>4 DEF LookInv
<1> QED
  BY <1>3, <1>4, <1>5 DEF Register

\* A lookup reaches an entry, whose value is the thread that is left.
LEMMA LookFound ==
    ASSUME TypeInv, MutexInv, IdsInv, LookInv, NEW c \in Thread, LookupScan(c)
    PROVE  LookInv'
<1>0. TypeOK
  BY DEF TypeInv
<1>1. /\ UNCHANGED << fake, leave, tidOf, mode, crossed >>
      /\ pc[c] = "leave_scan" /\ at[c] \in FakeIndex
      /\ \A u \in Thread \ {c} : pc'[u] = pc[u] /\ at'[u] = at[u]
      /\ \/ pc'[c] = "leave_scan"
         \/ /\ pc'[c] = "leave_read" /\ at'[c] = at[c]
            /\ fake[at[c]].value = leave[c].target
  BY <1>0 DEF LookupScan, TypeOK, Goto, tables
<1>2. \A u \in Thread : (NotLeft(u)' <=> NotLeft(u)) /\ (Kept(u)' <=> Kept(u))
  BY <1>1 DEF NotLeft, Kept
<1>3. ASSUME fake[at[c]].value = leave[c].target, NEW u \in Thread,
             tidOf[u] # 0, fake[at[c]].tid = tidOf[u]
      PROVE  ~ Kept(u)
  BY <1>1, <1>3 DEF IdsInv, Kept, NotLeft
<1>4. ASSUME fake[at[c]].value = leave[c].target, NEW t \in Thread,
             pc[t] = "list_fill", at[t] = at[c]
      PROVE  leave[c].target = t
  BY <1>4 DEF MutexInv
<1> QED
  BY <1>1, <1>2, <1>3, <1>4 DEF LookInv

LEMMA LookStep == TypeInv /\ MutexInv /\ IdsInv /\ LookInv /\ [Next]_vars => LookInv'
<1> SUFFICES ASSUME TypeInv, MutexInv, IdsInv, LookInv, [Next]_vars PROVE LookInv'
  OBVIOUS
<1>0. TypeOK /\ \A c \in Thread : pc[c] = "leave_read" => at[c] \in FakeIndex
  BY DEF TypeInv
<1>1. ASSUME NEW t \in Thread,
             \/ \E lr \in Addr : Call(t, lr)
             \/ Return(t) \/ shadow_stack_save(t) \/ shadow_stack_restore(t)
             \/ LookupFails(t) \/ LookupRead(t) \/ LeaveFree(t)
      PROVE  LookInv'
  <2>1. /\ UNCHANGED << fake, tidOf, mode, crossed >>
        /\ \A u \in Thread \ {t} : pc'[u] = pc[u] /\ at'[u] = at[u]
        /\ pc'[t] \notin {"leave_read", "list_fill"}
    BY <1>0, <1>1 DEF Call, Return, shadow_stack_save, shadow_stack_restore, LookupFails,
       LookupRead, LeaveFree, TypeOK, Goto, tables
  <2>2. \A u \in Thread : leave'[u].target = leave[u].target
    <3>1. leave' = leave \/ \E n : leave' = [leave EXCEPT ![t].subtid = n]
      BY <1>1 DEF Call, Return, shadow_stack_save, shadow_stack_restore, LookupFails,
         LookupRead, LeaveFree
    <3> QED
      BY <1>0, <3>1, SubtidSet
  <2>3. \A u \in Thread : NotLeft(u)' <=> NotLeft(u)
    BY <2>1, <2>2 DEF NotLeft
  <2> QED
    BY <1>0, <2>1, <2>2, <2>3, LookIdle
<1>2. ASSUME NEW c \in Thread, NEW t \in Thread, NEW call \in {"detach", "join"},
             Leave(c, t, call)
      PROVE  LookInv'
  <2>1. /\ UNCHANGED << fake, tidOf, mode, crossed >> /\ pc[c] = "run"
        /\ \A u \in Thread \ {c} : pc'[u] = pc[u] /\ at'[u] = at[u] /\ leave'[u] = leave[u]
        /\ pc'[c] = "leave_scan"
    BY <1>0, <1>2 DEF Leave, MayLeave, TypeOK, Goto, tables
  <2>2. leave[c].target = NoThread
    BY <2>1 DEF IdsInv, InLeave
  <2>3. \A u \in Thread : NotLeft(u)' => NotLeft(u)
    BY <2>1, <2>2, ThreadAssumption DEF NotLeft
  <2> QED
    BY <1>0, <2>1, <2>3, LookIdle
<1>3. ASSUME NEW c \in Thread, LeaveUnlist(c) PROVE LookInv'
  <2>1. /\ UNCHANGED << at, tidOf, mode, crossed >> /\ pc[c] = "leave_unlist"
        /\ \A u \in Thread \ {c} : pc'[u] = pc[u] /\ leave'[u] = leave[u]
        /\ pc'[c] \in {"run", "ended"}
    BY <1>0, <1>3 DEF LeaveUnlist, TypeOK, Goto
  <2>2. \A e \in FakeIndex : fake'[e].tid = fake[e].tid
    BY <1>0, <1>3, FakeFreedType DEF LeaveUnlist, TypeOK
  <2>3. leave[c].target = NoThread
    BY <2>1 DEF IdsInv, InLeave
  <2>4. \A u \in Thread : NotLeft(u)' => NotLeft(u)
    BY <2>1, <2>3, ThreadAssumption DEF NotLeft
  <2> QED
    BY <1>0, <2>1, <2>2, <2>4, LookIdle
<1>4. ASSUME NEW c \in Thread, RealDetach(c) \/ RealJoin(c) PROVE LookInv'
  <2>1. UNCHANGED << fake, at, crossed >> /\ pc[c] = "leave_real"
    BY <1>0, <1>4, RealEffects DEF tables
  <2>2. ASSUME NEW u \in Thread
        PROVE  /\ leave'[u].target = IF u = c THEN NoThread ELSE leave[u].target
               /\ pc'[u] = pc[u] \/ pc'[u] \in {"none", "leave_unlist"}
               /\ pc'[u] # "none" => tidOf'[u] = tidOf[u]
               /\ tidOf'[u] # 0 => tidOf'[u] = tidOf[u]
               /\ NotLeft(u)' => NotLeft(u)
               /\ u = c => pc'[u] = "leave_unlist"
    BY <1>0, <1>4, RealEffects
  <2> QED
    BY <1>0, <2>1, <2>2, LookIdle
<1>5. ASSUME NEW t \in Thread, Exit(t) PROVE LookInv'
  <2>1. UNCHANGED << fake, at, leave, crossed >> /\ pc'[t] \in {"none", "exited"}
    BY <1>0, <1>5, ExitEffects DEF tables
  <2>2. ASSUME NEW u \in Thread
        PROVE  /\ u # t => pc'[u] = pc[u] /\ tidOf'[u] = tidOf[u]
               /\ tidOf'[u] # 0 => tidOf'[u] = tidOf[u] /\ (NotLeft(u)' <=> NotLeft(u))
    BY <1>0, <1>5, ExitEffects
  <2> QED
    BY <1>0, <2>1, <2>2, LookIdle
<1>6. ASSUME NEW c \in Thread, NEW t \in Thread, my_pthread_create(c, t) PROVE LookInv'
  <2>1. /\ UNCHANGED << fake, at, leave, crossed >>
        /\ \A u \in Thread : tidOf'[u] = IF u = t THEN lastTid + 1 ELSE tidOf[u]
        /\ \A u \in Thread \ {t} : mode'[u] = mode[u] /\ pc'[u] = pc[u]
        /\ pc'[t] = "init_lock"
    BY <1>0, <1>6 DEF my_pthread_create, TypeOK, Goto, tables
  <2>2. \A e \in FakeIndex : fake[e].tid # lastTid + 1
    <3>1. \A e \in FakeIndex : fake[e].tid =< lastTid /\ fake[e].tid \in Int
      <4>1. \A n \in Tid \cup {0} : n \in Int
        BY BoundAssumption
      <4> QED
        BY <1>0, <4>1 DEF IdsInv, TypeOK, FakeEntry
    <3> QED
      BY <1>0, <3>1, TidTypes
  <2>3. \A u \in Thread \ {t} : NotLeft(u)' => NotLeft(u)
    BY <2>1 DEF NotLeft
  <2> QED
    BY <1>0, <2>1, <2>2, <2>3, LookIdle
<1>7. CASE InitWhole
  <2>1. pc[Main] = "boot" /\ \A u \in Thread : pc[u] = "none" \/ u = Main
    BY <1>7 DEF InitWhole, MutexInv
  <2>2. \A u \in Thread : pc'[u] \in {"none", "init_lock"}
    BY <1>0, <1>7, <2>1 DEF InitWhole, TypeOK, Goto
  <2> QED
    BY <2>2 DEF LookInv
<1>8. CASE Restart
  BY <1>8 DEF Restart, LookInv
<1>9. CASE UNCHANGED vars
  BY <1>9 DEF vars, tables, threads, LookInv, Kept, NotLeft
<1> QED
  BY <1>1, <1>2, <1>3, <1>4, <1>5, <1>6, <1>7, <1>8, <1>9, LookRegister, LookFound
     DEF Next, Finish, Lookup

-----------------------------------------------------------------------------
(* The slots of the threads of this process.                               *)

Unclaimed == {"init_lock", "init_scan", "init_claim"}

\* Once the table has been reset each thread has one slot at most, and one
\* that has been through init_thread_local_ss and that nobody has left keeps
\* the flag of its slot.
SlotsInv ==
    /\ \A i \in SlotIndex : slots[i].thread_id =< lastTid
    /\ \A i, j \in SlotIndex :
          slots[i].thread_id # 0 /\ slots[i].thread_id = slots[j].thread_id => i = j
    /\ \A t \in Thread, i \in SlotIndex :
          pc[t] \in Unclaimed => slots[i].thread_id # tidOf[t]
    /\ \A t \in Thread :
          /\ pc[t] = "init_claim" => /\ at[t] \in SlotIndex
                                     /\ \/ slots[at[t]].thread_id = 0
                                        \/ slots[at[t]].flag = 0
          /\ pc[t] = "init_clear" => /\ at[t] \in SlotIndex
                                     /\ slots[at[t]].thread_id = tidOf[t]
    /\ \A t \in Thread, i \in SlotIndex :
          Settled(t) /\ Kept(t) /\ slots[i].thread_id = tidOf[t]
             => slots[i].flag = 1

LibInv == /\ TypeInv /\ MutexInv /\ IdsInv /\ LookInv
          /\ pc[Main] # "boot" => SlotsInv

\* A step that leaves the ids and the flags of the slots alone.
LEMMA SlotsQuiet ==
    ASSUME SlotsInv, UNCHANGED lastTid,
           \A i \in SlotIndex : /\ slots'[i].thread_id = slots[i].thread_id
                                /\ slots'[i].flag = slots[i].flag,
           \A u \in Thread :
              /\ pc'[u] \in Unclaimed => pc[u] \in Unclaimed /\ tidOf'[u] = tidOf[u]
              /\ pc'[u] \in {"init_claim", "init_clear"}
                    => pc'[u] = pc[u] /\ at'[u] = at[u] /\ tidOf'[u] = tidOf[u]
              /\ Settled(u)' /\ Kept(u)'
                    => /\ tidOf'[u] = tidOf[u]
                       /\ pc[u] \in Unclaimed \/ (Settled(u) /\ Kept(u))
    PROVE  SlotsInv'
BY DEF SlotsInv

LEMMA SlotsCalls ==
    ASSUME TypeOK, SlotsInv, NEW t \in Thread,
           \/ \E lr \in Addr : Call(t, lr)
           \/ Return(t) \/ shadow_stack_save(t) \/ shadow_stack_restore(t)
    PROVE  SlotsInv'
<1>1. /\ UNCHANGED << leave, tidOf, lastTid, mode, crossed >>
      /\ pc[t] \in {"run", "save", "restore"} /\ pc'[t] \in {"run", "save", "restore", "lost"}
      /\ \A u \in Thread \ {t} : pc'[u] = pc[u] /\ at'[u] = at[u]
  BY DEF Call, Return, shadow_stack_save, shadow_stack_restore, TypeOK, Goto, tables
<1>2. slots' = slots \/ \E i, s : slots' = [slots EXCEPT ![i].stack = s]
  BY DEF Call, Return, shadow_stack_save, shadow_stack_restore, tables
<1>3. \A i \in SlotIndex : /\ slots'[i].thread_id = slots[i].thread_id
                           /\ slots'[i].flag = slots[i].flag
  <2>1. ASSUME NEW i, NEW s, slots' = [slots EXCEPT ![i].stack = s]
        PROVE  \A j \in SlotIndex : /\ slots'[j].thread_id = slots[j].thread_id
                                     /\ slots'[j].flag = slots[j].flag
    BY <2>1 DEF TypeOK, Table, Slot
  <2> QED
    BY <1>2, <2>1
<1>4. \A u \in Thread : (Kept(u)' => Kept(u)) /\ (Settled(u)' => Settled(u))
  BY <1>1 DEF Kept, NotLeft, Settled
<1> QED
  BY <1>1, <1>3, <1>4, SlotsQuiet DEF Unclaimed

LEMMA SlotsRegister ==
    ASSUME TypeOK, MutexInv, IdsInv, SlotsInv, NEW t \in Thread, Register(t)
    PROVE  SlotsInv'
<1>1. /\ UNCHANGED << leave, tidOf, lastTid, mode >> /\ crossed \subseteq crossed'
      /\ \A u \in Thread \ {t} : pc'[u] = pc[u] /\ at'[u] = at[u]
  BY DEF Register, InitLock, InitScan, InitFull, InitClaim, InitClear, ListLock, ListFull,
         ListFill, TypeOK, Goto, tables
<1>2. \A u \in Thread : /\ Kept(u)' => Kept(u)
                        /\ u # t => (Settled(u)' <=> Settled(u))
  BY <1>1 DEF Kept, NotLeft, Settled
<1>3. CASE InitLock(t) \/ InitFull(t) \/ ListLock(t) \/ ListFull(t) \/ ListFill(t)
  <2>1. /\ UNCHANGED slots
        /\ pc[t] \in {"init_lock", "init_scan"} \/ Settled(t)
        /\ \/ pc'[t] = "init_scan" /\ pc[t] = "init_lock"
           \/ pc'[t] \in {"list_lock", "list_fill", "run"}
    BY <1>3 DEF InitLock, InitFull, ListLock, ListFull, ListFill, TypeOK, Goto, Settled, tables
  <2> QED
    BY <1>1, <1>2, <2>1, SlotsQuiet DEF Unclaimed, Settled
<1>4. CASE InitScan(t)
  <2>1. /\ UNCHANGED slots /\ pc[t] = "init_scan" /\ at[t] \in SlotIndex
        /\ \/ pc'[t] = "init_scan"
           \/ pc'[t] = "init_claim" /\ at'[t] = at[t] /\ Claimable(slots[at[t]])
    BY <1>4 DEF InitScan, TypeOK, Goto, tables
  <2> QED
    BY <1>1, <1>2, <2>1 DEF SlotsInv, Unclaimed, Settled, Claimable
<1>5. CASE InitClaim(t)
  <2> DEFINE i == at[t]
  <2>1. /\ pc[t] = "init_claim" /\ pc'[t] = "init_clear" /\ at' = at
        /\ i \in SlotIndex /\ (slots[i].thread_id = 0 \/ slots[i].flag = 0)
        /\ slots' = [slots EXCEPT ![i].thread_id = tidOf[t]]
    BY <1>5 DEF InitClaim, TypeOK, Goto, SlotsInv
  <2>2. \A u \in Thread \ {t} : pc[u] \notin {"init_claim", "init_clear"}
    BY <2>1 DEF MutexInv
  <2> HIDE DEF i
  <2>3. \A j \in SlotIndex : /\ slots'[j].thread_id = IF j = i THEN tidOf[t] ELSE slots[j].thread_id
                             /\ slots'[j].flag = slots[j].flag
    BY <2>1 DEF TypeOK, Table, Slot
  <2>4. tidOf[t] # 0 /\ tidOf[t] =< lastTid /\ \A u \in Thread \ {t} : tidOf[u] # tidOf[t]
    BY <2>1 DEF IdsInv
  <2>5. \A j \in SlotIndex : slots[j].thread_id # tidOf[t]
    BY <2>1 DEF SlotsInv, Unclaimed
  <2>6. /\ \A j \in SlotIndex : slots'[j].thread_id =< lastTid'
        /\ \A j, k \in SlotIndex :
              slots'[j].thread_id # 0 /\ slots'[j].thread_id = slots'[k].thread_id => j = k
    BY <1>1, <2>3, <2>4, <2>5 DEF SlotsInv
  <2>7. ASSUME NEW u \in Thread, NEW j \in SlotIndex, pc'[u] \in Unclaimed
        PROVE  slots'[j].thread_id # tidOf'[u]
    BY <1>1, <2>1, <2>3, <2>4, <2>7 DEF SlotsInv, Unclaimed
  <2>8. ASSUME NEW u \in Thread
        PROVE  /\ pc'[u] # "init_claim"
               /\ pc'[u] = "init_clear" => at'[u] \in SlotIndex
                                           /\ slots'[at'[u]].thread_id = tidOf'[u]
    BY <1>1, <2>1, <2>2, <2>3 DEF i
  <2>9. ASSUME NEW u \in Thread, NEW j \in SlotIndex,
               Settled(u)', Kept(u)', slots'[j].thread_id = tidOf'[u]
        PROVE  slots'[j].flag = 1
    <3>1. u # t /\ Settled(u) /\ Kept(u) /\ tidOf'[u] = tidOf[u]
      BY <1>1, <1>2, <2>1, <2>9 DEF Settled
    <3>2. j # i
      BY <2>3, <2>4, <2>9, <3>1
    <3> QED
      BY <2>3, <2>9, <3>1, <3>2 DEF SlotsInv
  <2> QED
    BY <2>6, <2>7, <2>8, <2>9 DEF SlotsInv
<1>6. CASE InitClear(t)
  <2> DEFINE i == at[t]
             s == ZeroWords(slots[i].stack)
  <2>1. /\ pc[t] = "init_clear" /\ pc'[t] = "list_lock"
        /\ i \in SlotIndex /\ slots[i].thread_id = tidOf[t]
        /\ slots' = [slots EXCEPT ![i] = Claimed(@, @.thread_id)]
    BY <1>6 DEF InitClear, TypeOK, Goto, SlotsInv
  <2>2. \A u \in Thread \ {t} : pc[u] \notin {"init_claim", "init_clear"}
    BY <2>1 DEF MutexInv
  <2>3. slots'[i] = [thread_id |-> tidOf[t], flag |-> 1, stack |-> s]
    BY <2>1 DEF Claimed, TypeOK, Table
  <2>4. \A j \in SlotIndex \ {i} : slots'[j] = slots[j]
    BY <2>1 DEF TypeOK, Table
  <2> HIDE DEF i, s
  <2>5. \A j \in SlotIndex : /\ slots'[j].thread_id = slots[j].thread_id
                             /\ slots'[j].flag = IF j = i THEN 1 ELSE slots[j].flag
    BY <2>1, <2>3, <2>4
  <2>6. tidOf[t] # 0
    BY <2>1 DEF IdsInv
  <2>7. ASSUME NEW u \in Thread, NEW j \in SlotIndex,
               Settled(u)', Kept(u)', slots'[j].thread_id = tidOf'[u]
        PROVE  slots'[j].flag = 1
    <3>1. CASE u = t
      BY <1>1, <2>1, <2>5, <2>6, <2>7, <3>1 DEF SlotsInv
    <3>2. CASE u # t
      BY <1>1, <1>2, <2>5, <2>7, <3>2 DEF SlotsInv
    <3> QED
      BY <3>1, <3>2
  <2>8. ASSUME NEW u \in Thread
        PROVE  /\ pc'[u] \notin {"init_claim", "init_clear"}
               /\ pc'[u] \in Unclaimed => pc[u] \in Unclaimed
    BY <1>1, <2>1, <2>2 DEF Unclaimed
  <2> QED
    BY <1>1, <2>5, <2>7, <2>8 DEF SlotsInv
<1> QED
  BY <1>3, <1>4, <1>5, <1>6 DEF Register

LEMMA SlotsFree ==
    ASSUME TypeOK, MutexInv, IdsInv, SlotsInv, NEW c \in Thread, LeaveFree(c)
    PROVE  SlotsInv'
<1> DEFINE tid == leave[c].subtid
           i == FindSlot(slots, tid)
<1>1. /\ UNCHANGED << leave, tidOf, lastTid, mode, at, crossed >>
      /\ pc[c] = "leave_free" /\ pc'[c] = "leave_real"
      /\ \A u \in Thread \ {c} : pc'[u] = pc[u]
      /\ ss_mutex = NoThread
  BY DEF LeaveFree, TypeOK, Goto
<1>2. i # NotFound => i \in SlotIndex /\ slots[i].thread_id = tid
  BY FindSlotProperties DEF TypeOK
<1>3. slots' = IF i = NotFound THEN slots ELSE [slots EXCEPT ![i].flag = 0]
  BY DEF LeaveFree
<1> HIDE DEF i, tid
<1>4. \A j \in SlotIndex : /\ slots'[j].thread_id = slots[j].thread_id
                           /\ slots'[j].flag # slots[j].flag => slots[j].thread_id = tid
  BY <1>2, <1>3 DEF TypeOK, Table, Slot
<1>5. \A u \in Thread : pc[u] \notin {"init_claim", "init_clear"}
  BY <1>1, ThreadAssumption DEF MutexInv
<1>6. ASSUME NEW u \in Thread, NEW j \in SlotIndex,
             Settled(u)', Kept(u)', slots'[j].thread_id = tidOf'[u]
      PROVE  slots'[j].flag = 1
  <2>1. Kept(u) /\ Settled(u) /\ pc[u] # "none"
    BY <1>1, <1>6 DEF Kept, NotLeft, Settled
  <2>2. tidOf[u] # tid
    BY <2>1 DEF IdsInv, tid
  <2> QED
    BY <1>1, <1>4, <1>6, <2>1, <2>2 DEF SlotsInv
<1> QED
  BY <1>1, <1>4, <1>5, <1>6 DEF SlotsInv, Unclaimed

LEMMA SlotsLeave ==
    ASSUME TypeOK, IdsInv, SlotsInv, NEW c \in Thread,
           \/ \E t \in Thread, call \in {"detach", "join"} : Leave(c, t, call)
           \/ LeaveUnlist(c)
    PROVE  SlotsInv'
<1>1. /\ UNCHANGED << slots, tidOf, lastTid, mode, crossed >>
      /\ pc[c] \in {"run", "leave_unlist"} /\ pc'[c] \in {"leave_scan", "ended", "run"}
      /\ \A u \in Thread \ {c} : pc'[u] = pc[u] /\ at'[u] = at[u] /\ leave'[u] = leave[u]
  BY DEF Leave, MayLeave, LeaveUnlist, TypeOK, Goto, tables
<1>2. leave[c].target = NoThread
  BY <1>1 DEF IdsInv, InLeave
<1>3. \A u \in Thread : (Kept(u)' => Kept(u)) /\ (Settled(u)' => Settled(u))
  BY <1>1, <1>2, ThreadAssumption DEF Kept, NotLeft, Settled
<1> QED
  BY <1>1, <1>3, SlotsQuiet DEF Unclaimed

LEMMA SlotsLookup ==
    ASSUME TypeOK, SlotsInv, NEW c \in Thread, Lookup(c)
    PROVE  SlotsInv'
<1>1. /\ UNCHANGED << slots, tidOf, lastTid, mode, crossed >>
      /\ \A u \in Thread \ {c} : pc'[u] = pc[u] /\ at'[u] = at[u]
      /\ pc[c] \in {"leave_scan", "leave_read"}
      /\ pc'[c] \in {"leave_scan", "leave_read", "leave_free"}
  BY DEF Lookup, LookupScan, LookupFails, LookupRead, TypeOK, Goto, tables
<1>2. \A u \in Thread : leave'[u].target = leave[u].target
  BY LookupKeeps
<1>3. \A u \in Thread : (Kept(u)' => Kept(u)) /\ (Settled(u)' => Settled(u))
  BY <1>1, <1>2 DEF Kept, NotLeft, Settled
<1> QED
  BY <1>1, <1>3, SlotsQuiet DEF Unclaimed

\* A thread that is settled, or about to be, has not gone.
LEMMA SlotsReal ==
    ASSUME TypeOK, IdsInv, SlotsInv, NEW c \in Thread, RealDetach(c) \/ RealJoin(c)
    PROVE  SlotsInv'
<1>1. UNCHANGED << slots, at, lastTid, crossed >>
  BY RealEffects DEF tables
<1>2. ASSUME NEW u \in Thread
      PROVE  /\ pc'[u] = pc[u] \/ pc'[u] \in {"none", "leave_unlist"}
             /\ pc'[u] # "none" => tidOf'[u] = tidOf[u]
             /\ Settled(u)' => Settled(u)
             /\ NotLeft(u)' => NotLeft(u)
  BY RealEffects DEF Settled
<1> QED
  BY <1>1, <1>2, SlotsQuiet DEF Unclaimed, Settled, Kept

LEMMA SlotsExit ==
    ASSUME TypeOK, IdsInv, SlotsInv, NEW t \in Thread, Exit(t)
    PROVE  SlotsInv'
<1>1. UNCHANGED << slots, at, lastTid, crossed >>
  BY ExitEffects DEF tables
<1>2. ASSUME NEW u \in Thread
      PROVE  /\ pc'[u] = pc[u] \/ pc'[u] \in {"none", "exited"}
             /\ pc'[u] # "none" => tidOf'[u] = tidOf[u]
             /\ Settled(u)' => Settled(u) /\ u # t
             /\ u # t => (NotLeft(u)' <=> NotLeft(u))
  BY ExitEffects DEF Settled, NotLeft
<1> QED
  BY <1>1, <1>2, SlotsQuiet DEF Unclaimed, Settled, Kept

LEMMA SlotsCreate ==
    ASSUME TypeOK, IdsInv, SlotsInv, NEW c \in Thread, NEW t \in Thread,
           my_pthread_create(c, t)
    PROVE  SlotsInv'
<1>1. /\ UNCHANGED << slots, at, leave, crossed >> /\ lastTid' = lastTid + 1
      /\ \A u \in Thread : tidOf'[u] = IF u = t THEN lastTid + 1 ELSE tidOf[u]
      /\ \A u \in Thread \ {t} : mode'[u] = mode[u] /\ pc'[u] = pc[u]
      /\ pc[t] = "none" /\ pc'[t] = "init_lock"
  BY DEF my_pthread_create, TypeOK, Goto, tables
<1>2. /\ lastTid \in Nat
      /\ \A i \in SlotIndex : slots[i].thread_id \in Int /\ slots[i].thread_id =< lastTid
  <2>1. \A n \in Tid \cup {0} : n \in Int
    BY BoundAssumption
  <2> QED
    BY <2>1, TidTypes DEF SlotsInv, TypeOK, Table, Slot
<1>3. \A u \in Thread \ {t} : /\ Kept(u)' <=> Kept(u)
                              /\ Settled(u)' <=> Settled(u)
  BY <1>1 DEF Kept, NotLeft, Settled
<1>4. \A i \in SlotIndex : slots'[i].thread_id =< lastTid'
  BY <1>1, <1>2
<1>5. ASSUME NEW u \in Thread, NEW i \in SlotIndex, pc'[u] \in Unclaimed
      PROVE  slots'[i].thread_id # tidOf'[u]
  BY <1>1, <1>2, <1>5 DEF SlotsInv
<1>6. ASSUME NEW u \in Thread
      PROVE  /\ pc'[u] = "init_claim" => /\ at'[u] \in SlotIndex
                                         /\ \/ slots'[at'[u]].thread_id = 0
                                            \/ slots'[at'[u]].flag = 0
             /\ pc'[u] = "init_clear" => /\ at'[u] \in SlotIndex
                                         /\ slots'[at'[u]].thread_id = tidOf'[u]
  BY <1>1 DEF SlotsInv
<1>7. ASSUME NEW u \in Thread, NEW i \in SlotIndex,
             Settled(u)', Kept(u)', slots'[i].thread_id = tidOf'[u]
      PROVE  slots'[i].flag = 1
  <2>1. u # t
    BY <1>1, <1>7 DEF Settled
  <2> QED
    BY <1>1, <1>3, <1>7, <2>1 DEF SlotsInv
<1> QED
  BY <1>1, <1>4, <1>5, <1>6, <1>7 DEF SlotsInv

LEMMA SlotsWhole == TypeOK /\ MutexInv /\ IdsInv /\ InitWhole => SlotsInv'
<1> SUFFICES ASSUME TypeOK, MutexInv, IdsInv, InitWhole PROVE SlotsInv'
  OBVIOUS
<1>1. /\ UNCHANGED << tidOf, lastTid >> /\ slots' = ZeroTable
      /\ pc[Main] = "boot" /\ pc'[Main] = "init_lock"
      /\ \A u \in Thread \ {Main} : pc'[u] = "none"
  BY ThreadAssumption DEF InitWhole, Goto, TypeOK, MutexInv
<1>2. \A i \in SlotIndex : slots'[i].thread_id = 0
  BY <1>1 DEF ZeroTable, EmptySlot
<1>3. tidOf[Main] # 0 /\ 0 =< lastTid
  BY <1>1, TidTypes, ThreadAssumption DEF IdsInv
<1> QED
  BY <1>1, <1>2, <1>3 DEF SlotsInv, Unclaimed, Settled

-----------------------------------------------------------------------------

LEMMA LibInit == Init => LibInv
BY TypeInit, IdsFresh, ThreadAssumption DEF Init, LibInv, MutexInv, LookInv

LEMMA LibStep == LibInv /\ [Next]_vars => LibInv'
<1> SUFFICES ASSUME LibInv, [Next]_vars PROVE LibInv'
  OBVIOUS
<1>1. TypeInv' /\ MutexInv' /\ IdsInv' /\ LookInv'
  BY TypeStep, MutexStep, IdsStep, LookStep DEF LibInv
<1>2. TypeOK /\ MutexInv /\ IdsInv
  BY DEF LibInv, TypeInv
<1>3. ASSUME pc'[Main] # "boot" PROVE SlotsInv'
  <2>1. CASE pc[Main] # "boot"
    <3>1. SlotsInv
      BY <2>1 DEF LibInv
    <3>2. ~ InitWhole /\ ~ Restart
      BY <1>3, <2>1, ThreadAssumption DEF InitWhole, Restart
    <3>3. CASE UNCHANGED vars
      BY <3>1, <3>3, SlotsQuiet DEF vars, tables, threads, Unclaimed, Settled, NotLeft,
         Kept
    <3> QED
      BY <1>2, <3>1, <3>2, <3>3, SlotsRegister, SlotsCalls, SlotsFree, SlotsLeave,
         SlotsLookup, SlotsReal, SlotsExit, SlotsCreate DEF Next, Finish
  <2>2. CASE pc[Main] = "boot"
    <3>1. \A u \in Thread : pc[u] \in {"boot", "none"}
      BY <1>2, <2>2 DEF MutexInv
    <3>2. \A t \in Thread : ~ Register(t)
      BY <3>1 DEF Register, InitLock, InitScan, InitFull, InitClaim, InitClear, ListLock,
                  ListFull, ListFill
    <3>3. \A t \in Thread : ~ (\/ Lookup(t) \/ LeaveFree(t)
                                \/ RealDetach(t) \/ RealJoin(t) \/ LeaveUnlist(t))
      BY <3>1 DEF Lookup, LookupScan, LookupFails, LookupRead, LeaveFree, RealDetach, RealJoin,
                  LeaveUnlist
    <3>4. \A t \in Thread : /\ ~ (shadow_stack_save(t) \/ shadow_stack_restore(t))
                            /\ ~ (Return(t) \/ Exit(t)) /\ ~ \E lr \in Addr : Call(t, lr)
      BY <3>1 DEF shadow_stack_save, shadow_stack_restore, Return, Exit, Call
    <3>5. \A c, t \in Thread : /\ ~ my_pthread_create(c, t)
                               /\ ~ \E call \in {"detach", "join"} : Leave(c, t, call)
      BY <3>1 DEF my_pthread_create, Leave, MayLeave
    <3>6. ~ Restart /\ ~ UNCHANGED vars
      BY <1>3, <2>2 DEF Restart, vars, threads
    <3>7. InitWhole
      BY <3>2, <3>3, <3>4, <3>5, <3>6 DEF Next, Finish
    <3> QED
      BY <1>2, <3>7, SlotsWhole
  <2> QED
    BY <2>1, <2>2
<1> QED
  BY <1>1, <1>3 DEF LibInv

\* The library's inductive invariant: shadowstack.c 61-315.
THEOREM LibKept == Spec => []LibInv
BY LibInit, LibStep, PTL DEF Spec

\* shadowstack.c 61-168: a release reaches a thread nobody has left only if
\* that thread took a list entry between the two loads of a lookup that had
\* found it, whatever stale ids the unlocked search of the list returns.
THEOREM FlagsKept == Spec => []KeptUntilLeft
<1>1. LibInv => KeptUntilLeft
  <2> SUFFICES ASSUME LibInv, NEW t \in Thread,
                      Settled(t), NotLeft(t), MySlot(t) # NotFound, tidOf[t] \notin crossed
               PROVE  slots[MySlot(t)].flag = 1
    BY DEF KeptUntilLeft
  <2>1. MySlot(t) \in SlotIndex /\ slots[MySlot(t)].thread_id = tidOf[t]
    BY FindSlotProperties DEF MySlot, LibInv, TypeInv, TypeOK
  <2>2. pc[Main] # "boot"
    BY ThreadAssumption DEF LibInv, MutexInv, Settled
  <2> QED
    BY <2>1, <2>2 DEF LibInv, SlotsInv, Kept
<1> QED
  BY <1>1, LibKept, PTL

-----------------------------------------------------------------------------
(* Pushes and pops.                                                        *)

LEMMA FrontOfAppend ==
    ASSUME NEW S, NEW s \in Seq(S), NEW x \in S
    PROVE  Popped(Append(s, x)) = s
<1>1. /\ Append(s, x) \in Seq(S) /\ Len(Append(s, x)) = Len(s) + 1 /\ Len(s) \in Nat
      /\ \A i \in 1 .. Len(s) : Append(s, x)[i] = s[i]
  BY AppendProperties, LenProperties
<1>2. SubSeq(Append(s, x), 1, Len(s)) = s
  BY <1>1, SubSeqProperties, SeqEqual
<1> QED
  BY <1>1, <1>2 DEF Popped

LEMMA PushedBack ==
    ASSUME NEW S, NEW s \in Seq(S), s # << >>
    PROVE  Pushed(Popped(s), s[Len(s)]) = s
<1>1. /\ Popped(s) \in Seq(S) /\ Len(Popped(s)) = Len(s) - 1
      /\ Len(s) \in Nat /\ s[Len(s)] \in S
  BY PoppedProperties, LenProperties DEF TopWord
<1>2. \A i \in 1 .. Len(s) - 1 : Popped(s)[i] = s[i]
  BY <1>1, SubSeqProperties DEF Popped
<1> QED
  BY <1>1, <1>2, AppendProperties, SeqEqual DEF Pushed

-----------------------------------------------------------------------------
(* Main's own calls.                                                       *)

Starting == {"boot", "init_lock", "init_scan", "init_claim", "init_clear",
             "list_lock", "list_fill"}

\* What main's slot holds: a call that is about to be saved is not in it yet.
Saved == IF pc[Main] = "save" THEN Popped(frames[Main]) ELSE frames[Main]

\* The other threads call nothing that is instrumented and leave only each
\* other.
OthersInv ==
    /\ \A t \in Thread \ {Main} : /\ frames[t] = << >>
                                  /\ pc[t] \notin {"save", "restore", "lost"}
    /\ \A t \in Thread : leave[t].target = Main => t = Main

\* Main registers alone, in slot 0, and leaves itself last.
MainInv ==
    /\ OthersInv
    /\ tidOf[Main] = 1 /\ mode[Main] # "none" /\ 1 \notin crossed
    /\ pc[Main] \notin {"none", "exited", "lost"}
    /\ pc[Main] \in Starting => /\ frames[Main] = << >>
                                /\ \A t \in Thread \ {Main} : pc[t] = "none"
    /\ mode[Main] = "detached" => pc[Main] \in {"leave_unlist", "ended"}
    /\ pc[Main] \in Unclaimed => slots = ZeroTable
    /\ pc[Main] \in {"init_scan", "init_claim", "init_clear"} => at[Main] = 0
    /\ pc[Main] = "init_clear" => slots[0].stack = << >>
    /\ Settled(Main) /\ NotLeft(Main) => /\ slots[0].thread_id = 1
                                         /\ slots[0].stack = Saved
    /\ pc[Main] \in {"save", "restore"} => NotLeft(Main) /\ at[Main] = 0

LEMMA MainFresh ==
    ASSUME pc = [t \in Thread |-> IF t = Main THEN "boot" ELSE "none"],
           leave = [t \in Thread |-> NoLeave],
           tidOf = [t \in Thread |-> IF t = Main THEN 1 ELSE 0],
           mode = [t \in Thread |-> IF t = Main THEN "joinable" ELSE "none"],
           frames = [t \in Thread |-> << >>], crossed = {}
    PROVE  MainInv
BY ThreadAssumption DEF MainInv, OthersInv, NoLeave, Starting, Unclaimed, Settled

\* A step of another thread.
LEMMA MainIdle ==
    ASSUME MainInv, OthersInv', pc[Main] \notin Starting,
           pc'[Main] = pc[Main], at'[Main] = at[Main], frames'[Main] = frames[Main],
           mode'[Main] = mode[Main], tidOf'[Main] = tidOf[Main],
           1 \in crossed' => 1 \in crossed,
           NotLeft(Main)' <=> NotLeft(Main),
           Settled(Main) /\ NotLeft(Main)
              => /\ slots'[0].thread_id = slots[0].thread_id
                 /\ slots'[0].stack = slots[0].stack
    PROVE  MainInv'
BY DEF MainInv, Starting, Unclaimed, Settled, Saved

LEMMA MainSlot ==
    ASSUME LibInv, MainInv, Settled(Main)
    PROVE  /\ SlotsInv /\ TypeOK /\ 0 \in SlotIndex
           /\ NotLeft(Main) => slots[0].flag = 1 /\ MySlot(Main) = 0
<1>1. SlotsInv /\ TypeOK /\ 0 \in SlotIndex
  BY Sizes DEF LibInv, TypeInv, Settled
<1>2. ASSUME NotLeft(Main) PROVE slots[0].flag = 1 /\ MySlot(Main) = 0
  <2>1. slots[0].thread_id = 1 /\ tidOf[Main] = 1 /\ Main \in Thread
    BY <1>2, ThreadAssumption DEF MainInv
  <2>2. MySlot(Main) \in SlotIndex /\ slots[MySlot(Main)].thread_id = 1
    BY <1>1, <2>1, FindSlotProperties DEF MySlot, TypeOK
  <2> QED
    BY <1>1, <1>2, <2>1, <2>2 DEF SlotsInv, Kept, MainInv
<1> QED
  BY <1>1, <1>2

\* Another thread's registration does not touch main's slot.
LEMMA OthersRegister ==
    ASSUME LibInv, MainInv, NEW t \in Thread \ {Main}, Register(t)
    PROVE  MainInv'
<1>1. TypeOK /\ IdsInv /\ 0 \in SlotIndex
  BY Sizes DEF LibInv, TypeInv
<1>2. /\ UNCHANGED << leave, tidOf, mode, frames >>
      /\ \A u \in Thread \ {t} : pc'[u] = pc[u] /\ at'[u] = at[u]
      /\ pc[t] # "none" /\ pc'[t] \notin {"save", "restore", "lost"}
  BY <1>1 DEF Register, InitLock, InitScan, InitFull, InitClaim, InitClear, ListLock, ListFull,
         ListFill, TypeOK, Goto, tables
<1>3. OthersInv'
  BY <1>2 DEF MainInv, OthersInv
<1>4. pc[Main] \notin Starting /\ (NotLeft(Main)' <=> NotLeft(Main))
  BY <1>2 DEF MainInv, NotLeft
<1>5. ASSUME Settled(Main), NotLeft(Main)
      PROVE  slots'[0] = slots[0]
  <2>1. SlotsInv /\ slots[0].flag = 1 /\ slots[0].thread_id = 1
    BY <1>5, MainSlot DEF MainInv
  <2>2. tidOf[t] # 1
    BY <1>1, ThreadAssumption DEF IdsInv, MainInv
  <2>3. CASE InitClaim(t)
    <3>1. at[t] # 0
      BY <2>1, <2>3 DEF SlotsInv, InitClaim
    <3> QED
      BY <1>1, <2>3, <3>1 DEF InitClaim, TypeOK, Table
  <2>4. CASE InitClear(t)
    <3>1. at[t] # 0
      BY <2>1, <2>2, <2>4 DEF SlotsInv, InitClear
    <3> QED
      BY <1>1, <2>4, <3>1 DEF InitClear, TypeOK, Table
  <2> QED
    BY <2>3, <2>4 DEF Register, InitLock, InitScan, InitFull, ListLock, ListFull, ListFill, tables
<1>6. 1 \in crossed' => 1 \in crossed
  <2>1. tidOf[t] # 1
    BY <1>1, ThreadAssumption DEF IdsInv, MainInv
  <2> QED
    BY <2>1 DEF Register, InitLock, InitScan, InitFull, InitClaim, InitClear, ListLock, ListFull,
                ListFill, tables
<1> QED
  BY <1>2, <1>3, <1>4, <1>5, <1>6, MainIdle, ThreadAssumption

\* Main registers in slot 0 of the table it has reset.
LEMMA MainRegisters ==
    ASSUME LibInv, MainInv, Register(Main)
    PROVE  MainInv'
<1>1. TypeOK /\ MutexInv /\ IdsInv /\ 0 \in SlotIndex /\ Main \in Thread
  BY Sizes DEF LibInv, TypeInv
<1>2. /\ UNCHANGED << leave, tidOf, mode, frames >>
      /\ \A u \in Thread \ {Main} : pc'[u] = pc[u] /\ at'[u] = at[u]
      /\ pc[Main] \in Starting
  BY <1>1 DEF Register, InitLock, InitScan, InitFull, InitClaim, InitClear, ListLock, ListFull,
         ListFill, TypeOK, Goto, tables, Starting
<1>3. /\ OthersInv' /\ tidOf'[Main] = 1 /\ mode'[Main] = "joinable"
      /\ frames'[Main] = << >> /\ \A t \in Thread \ {Main} : pc'[t] = "none"
  BY <1>1, <1>2 DEF MainInv, OthersInv, Starting, TypeOK
<1>0. 1 \notin crossed'
  <2>1. \A c \in Thread : pc[c] # "leave_read"
    BY <1>2 DEF MainInv, Starting
  <2> QED
    BY <2>1 DEF Register, InitLock, InitScan, InitFull, InitClaim, InitClear, ListLock, ListFull,
                ListFill, tables, MainInv
<1>4. CASE InitLock(Main)
  BY <1>0, <1>1, <1>3, <1>4 DEF InitLock, MainInv, Unclaimed, Starting, Settled, TypeOK, Goto
<1>5. CASE InitScan(Main)
  <2>1. pc[Main] = "init_scan" /\ at[Main] = 0 /\ slots = ZeroTable
    BY <1>5 DEF InitScan, MainInv, Unclaimed
  <2>2. Claimable(slots[0])
    BY <1>1, <2>1 DEF ZeroTable, EmptySlot, Claimable
  <2>3. pc'[Main] = "init_claim" /\ at' = at /\ slots' = slots
    BY <1>1, <1>5, <2>1, <2>2 DEF InitScan, TypeOK, Goto, tables
  <2> QED
    BY <1>0, <1>3, <2>1, <2>3 DEF MainInv, Unclaimed, Starting, Settled
<1>6. CASE InitFull(Main)
  BY <1>1, <1>6 DEF InitFull, MainInv
<1>7. CASE InitClaim(Main)
  <2>1. /\ pc'[Main] = "init_clear" /\ at'[Main] = 0
        /\ slots' = [ZeroTable EXCEPT ![0].thread_id = 1]
    BY <1>1, <1>7 DEF InitClaim, MainInv, Unclaimed, TypeOK, Goto
  <2>2. slots'[0].stack = << >>
    BY <1>1, <2>1 DEF ZeroTable, EmptySlot
  <2> QED
    BY <1>0, <1>3, <2>1, <2>2 DEF MainInv, Unclaimed, Starting, Settled
<1>8. CASE InitClear(Main)
  <2>1. /\ pc[Main] = "init_clear" /\ pc'[Main] = "list_lock" /\ at[Main] = 0
        /\ slots[0].stack = << >>
        /\ slots' = [slots EXCEPT ![0] = Claimed(@, @.thread_id)]
    BY <1>1, <1>8 DEF InitClear, MainInv, TypeOK, Goto
  <2>2. slots[0].thread_id = 1
    BY <1>1, <2>1 DEF LibInv, SlotsInv, MainInv
  <2>3. slots'[0] = [thread_id |-> 1, flag |-> 1, stack |-> << >>]
    BY <1>1, <2>1, <2>2, ZeroWordsEmpty DEF Claimed, TypeOK, Table
  <2>4. slots'[0].thread_id = 1 /\ slots'[0].stack = << >>
    BY <2>3
  <2> QED
    BY <1>0, <1>3, <2>1, <2>4 DEF MainInv, Unclaimed, Starting, Settled, Saved
<1>9. CASE ListLock(Main) \/ ListFull(Main) \/ ListFill(Main)
  <2>1. /\ pc[Main] \in {"list_lock", "list_fill"} /\ pc'[Main] \in {"list_fill", "run"}
        /\ slots' = slots
    BY <1>1, <1>9 DEF ListLock, ListFull, ListFill, TypeOK, Goto, tables
  <2>2. NotLeft(Main)' => NotLeft(Main)
    BY <1>2 DEF NotLeft
  <2>3. NotLeft(Main)' => slots'[0].thread_id = 1 /\ slots'[0].stack = << >>
    BY <1>2, <1>3, <2>1, <2>2 DEF MainInv, Settled, Saved
  <2> QED
    BY <1>0, <1>3, <2>1, <2>3 DEF MainInv, Unclaimed, Starting, Settled, Saved
<1> QED
  BY <1>4, <1>5, <1>6, <1>7, <1>8, <1>9 DEF Register

\* my_pthread_create by any thread.
LEMMA MainCreates ==
    ASSUME LibInv, MainInv, NEW c \in Thread, NEW t \in Thread, my_pthread_create(c, t)
    PROVE  MainInv'
<1>1. TypeOK
  BY DEF LibInv, TypeInv
<1>2. /\ UNCHANGED << slots, at, leave, frames, crossed >> /\ pc[c] = "run" /\ t # Main
      /\ \A u \in Thread \ {t} : tidOf'[u] = tidOf[u] /\ mode'[u] = mode[u] /\ pc'[u] = pc[u]
      /\ pc'[t] = "init_lock"
  BY <1>1 DEF my_pthread_create, TypeOK, Goto, tables, MainInv
<1>3. OthersInv'
  BY <1>2 DEF MainInv, OthersInv
<1>4. pc[Main] \notin Starting /\ (NotLeft(Main)' <=> NotLeft(Main))
  BY <1>2, ThreadAssumption DEF MainInv, NotLeft, Starting
<1> QED
  BY <1>2, <1>3, <1>4, MainIdle, ThreadAssumption

LEMMA MainExits ==
    ASSUME LibInv, MainInv, NEW t \in Thread, Exit(t)
    PROVE  MainInv'
<1>1. TypeOK
  BY DEF LibInv, TypeInv
<1>2. /\ UNCHANGED << slots, at, leave, crossed >> /\ pc[t] = "run" /\ t # Main
  BY <1>1, ExitEffects DEF tables
<1>3. OthersInv'
  BY <1>1, <1>2, ExitEffects DEF MainInv, OthersInv
<1>4. pc[Main] \notin Starting
  BY <1>2, ThreadAssumption DEF MainInv
<1>5. /\ pc'[Main] = pc[Main] /\ frames'[Main] = frames[Main]
      /\ mode'[Main] = mode[Main] /\ tidOf'[Main] = tidOf[Main]
  BY <1>1, <1>2, ExitEffects, ThreadAssumption
<1>6. NotLeft(Main)' <=> NotLeft(Main)
  BY <1>2, <1>5 DEF NotLeft
<1> QED
  BY <1>2, <1>3, <1>4, <1>5, <1>6, MainIdle

\* my_pthread_detach and my_pthread_join by another thread, which are not
\* about main.
LEMMA OthersLeave ==
    ASSUME LibInv, MainInv, NEW c \in Thread \ {Main},
           \/ \E t \in Thread, call \in {"detach", "join"} : Leave(c, t, call)
           \/ Lookup(c) \/ LeaveFree(c) \/ RealDetach(c) \/ RealJoin(c) \/ LeaveUnlist(c)
    PROVE  MainInv'
<1>1. TypeOK /\ Main \in Thread /\ 0 \in SlotIndex
  BY Sizes DEF LibInv, TypeInv
<1>2. leave[c].target # Main
  BY DEF MainInv, OthersInv
<1>3. ASSUME NEW t \in Thread, NEW call \in {"detach", "join"}, Leave(c, t, call)
      PROVE  MainInv'
  <2>1. /\ UNCHANGED << slots, tidOf, mode, frames, crossed >> /\ pc[c] = "run" /\ t # Main
        /\ \A u \in Thread \ {c} : pc'[u] = pc[u] /\ at'[u] = at[u] /\ leave'[u] = leave[u]
        /\ leave'[c].target = t /\ pc'[c] = "leave_scan"
    BY <1>1, <1>3 DEF Leave, MayLeave, TypeOK, Goto, tables
  <2>2. OthersInv' /\ (NotLeft(Main)' <=> NotLeft(Main)) /\ pc[Main] \notin Starting
    BY <1>2, <2>1 DEF MainInv, OthersInv, NotLeft
  <2> QED
    BY <1>1, <2>1, <2>2, MainIdle
<1>4. CASE LeaveFree(c)
  <2>1. /\ UNCHANGED << at, leave, tidOf, mode, frames, crossed >> /\ pc[c] = "leave_free"
        /\ \A u \in Thread \ {c} : pc'[u] = pc[u]
        /\ pc'[c] = "leave_real"
    BY <1>1, <1>4 DEF LeaveFree, TypeOK, Goto
  <2>2. OthersInv' /\ (NotLeft(Main)' <=> NotLeft(Main)) /\ pc[Main] \notin Starting
    BY <2>1 DEF MainInv, OthersInv, NotLeft
  <2>3. slots'[0].thread_id = slots[0].thread_id /\ slots'[0].stack = slots[0].stack
    BY <1>1, <1>4 DEF LeaveFree, TypeOK, Table, Slot
  <2> QED
    BY <1>1, <2>1, <2>2, <2>3, MainIdle
<1>5. CASE RealDetach(c) \/ RealJoin(c)
  <2>1. /\ UNCHANGED << slots, at, frames, crossed >> /\ pc[c] = "leave_real"
    BY <1>1, <1>5, RealEffects DEF tables
  <2>2. pc[Main] \notin Starting \cup {"exited"}
    BY <2>1 DEF MainInv
  <2>3. /\ \A u \in Thread : leave'[u].target = IF u = c THEN NoThread ELSE leave[u].target
        /\ \A u \in Thread : pc'[u] \in {pc[u], "none", "leave_unlist"}
    BY <1>1, <1>5, RealEffects
  <2>4. pc'[Main] = pc[Main] /\ tidOf'[Main] = tidOf[Main] /\ mode'[Main] = mode[Main]
    BY <1>1, <1>2, <1>5, <2>2, RealEffects
  <2>5. OthersInv' /\ (NotLeft(Main)' <=> NotLeft(Main))
    BY <1>1, <1>2, <2>1, <2>3, <2>4, ThreadAssumption DEF MainInv, OthersInv, NotLeft
  <2> QED
    BY <2>1, <2>2, <2>4, <2>5, MainIdle
<1>6. CASE LeaveUnlist(c)
  <2>1. /\ UNCHANGED << slots, at, tidOf, mode, frames, crossed >> /\ pc[c] = "leave_unlist"
        /\ \A u \in Thread \ {c} : pc'[u] = pc[u] /\ leave'[u] = leave[u]
        /\ leave'[c].target = NoThread /\ pc'[c] \in {"run", "ended"}
    BY <1>1, <1>6 DEF LeaveUnlist, TypeOK, Goto, NoLeave
  <2>2. OthersInv' /\ (NotLeft(Main)' <=> NotLeft(Main)) /\ pc[Main] \notin Starting
    BY <1>1, <1>2, <2>1, ThreadAssumption DEF MainInv, OthersInv, NotLeft
  <2> QED
    BY <1>1, <2>1, <2>2, MainIdle
<1>7. CASE Lookup(c)
  <2>1. /\ UNCHANGED << slots, tidOf, mode, frames, crossed >>
        /\ \A u \in Thread \ {c} : pc'[u] = pc[u] /\ at'[u] = at[u]
        /\ pc[c] \in {"leave_scan", "leave_read"}
        /\ pc'[c] \in {"leave_scan", "leave_read", "leave_free"}
    BY <1>1, <1>7 DEF Lookup, LookupScan, LookupFails, LookupRead, TypeOK, Goto, tables
  <2>2. \A u \in Thread : leave'[u].target = leave[u].target
    BY <1>1, <1>7, LookupKeeps
  <2>3. OthersInv' /\ (NotLeft(Main)' <=> NotLeft(Main)) /\ pc[Main] \notin Starting
    BY <2>1, <2>2 DEF MainInv, OthersInv, NotLeft
  <2> QED
    BY <1>1, <2>1, <2>3, MainIdle
<1> QED
  BY <1>3, <1>4, <1>5, <1>6, <1>7

\* Main leaves others, or itself when it shuts down.
LEMMA MainLeaves ==
    ASSUME LibInv, MainInv,
           \/ \E t \in Thread, call \in {"detach", "join"} : Leave(Main, t, call)
           \/ Lookup(Main) \/ LeaveFree(Main)
           \/ RealDetach(Main) \/ RealJoin(Main) \/ LeaveUnlist(Main)
    PROVE  MainInv'
<1>1. TypeOK /\ IdsInv /\ Main \in Thread /\ 0 \in SlotIndex
  BY Sizes DEF LibInv, TypeInv
<1>2. ASSUME NEW t \in Thread, NEW call \in {"detach", "join"}, Leave(Main, t, call)
      PROVE  MainInv'
  <2>1. /\ UNCHANGED << slots, tidOf, mode, frames, crossed >> /\ pc[Main] = "run"
        /\ \A u \in Thread \ {Main} : pc'[u] = pc[u] /\ leave'[u] = leave[u]
        /\ leave'[Main].target = t /\ pc'[Main] = "leave_scan"
    BY <1>1, <1>2 DEF Leave, MayLeave, TypeOK, Goto, tables
  <2>2. leave[Main].target = NoThread
    BY <1>1, <2>1 DEF IdsInv, InLeave
  <2>3. OthersInv' /\ (NotLeft(Main)' => NotLeft(Main))
    BY <1>1, <2>1, <2>2, ThreadAssumption DEF MainInv, OthersInv, NotLeft
  <2> QED
    BY <1>1, <2>1, <2>3 DEF MainInv, Starting, Unclaimed, Settled, Saved
<1>3. CASE LeaveFree(Main)
  <2>1. /\ UNCHANGED << at, leave, tidOf, mode, frames, crossed >> /\ pc[Main] = "leave_free"
        /\ \A u \in Thread \ {Main} : pc'[u] = pc[u]
        /\ pc'[Main] = "leave_real"
    BY <1>1, <1>3 DEF LeaveFree, TypeOK, Goto
  <2>2. OthersInv' /\ (NotLeft(Main)' => NotLeft(Main))
    BY <2>1 DEF MainInv, OthersInv, NotLeft
  <2>3. slots'[0].thread_id = slots[0].thread_id /\ slots'[0].stack = slots[0].stack
    BY <1>1, <1>3 DEF LeaveFree, TypeOK, Table, Slot
  <2> QED
    BY <1>1, <2>1, <2>2, <2>3 DEF MainInv, Starting, Unclaimed, Settled, Saved
<1>4. CASE RealDetach(Main) \/ RealJoin(Main)
  <2>1. /\ UNCHANGED << slots, at, frames, crossed >>
        /\ pc[Main] = "leave_real" /\ pc'[Main] = "leave_unlist"
    BY <1>1, <1>4, RealEffects DEF tables
  <2>2. /\ \A u \in Thread : leave'[u].target = IF u = Main THEN NoThread ELSE leave[u].target
        /\ \A u \in Thread \ {Main} : pc'[u] \in {pc[u], "none"}
        /\ NotLeft(Main)' => NotLeft(Main)
    BY <1>1, <1>4, RealEffects
  <2>3. tidOf'[Main] = tidOf[Main] /\ mode'[Main] # "none"
    <3>1. pc[Main] # "exited" /\ mode[Main] # "none"
      BY <2>1 DEF MainInv
    <3> QED
      BY <1>1, <1>4, <3>1, RealEffects
  <2>4. OthersInv'
    BY <1>1, <2>1, <2>2, ThreadAssumption DEF MainInv, OthersInv
  <2> QED
    BY <1>1, <2>1, <2>2, <2>3, <2>4 DEF MainInv, Starting, Unclaimed, Settled, Saved
<1>5. CASE LeaveUnlist(Main)
  <2>1. /\ UNCHANGED << slots, at, tidOf, mode, frames, crossed >> /\ pc[Main] = "leave_unlist"
        /\ \A u \in Thread \ {Main} : pc'[u] = pc[u] /\ leave'[u] = leave[u]
        /\ leave'[Main].target = NoThread
        /\ pc'[Main] = IF mode[Main] = "detached" THEN "ended" ELSE "run"
    BY <1>1, <1>5 DEF LeaveUnlist, TypeOK, Goto, NoLeave
  <2>2. leave[Main].target = NoThread
    BY <1>1, <2>1 DEF IdsInv, InLeave
  <2>3. OthersInv' /\ (NotLeft(Main)' => NotLeft(Main))
    BY <1>1, <2>1, <2>2, ThreadAssumption DEF MainInv, OthersInv, NotLeft
  <2> QED
    BY <1>1, <2>1, <2>3 DEF MainInv, Starting, Unclaimed, Settled, Saved
<1>6. CASE Lookup(Main)
  <2>1. /\ UNCHANGED << slots, tidOf, mode, frames, crossed >>
        /\ \A u \in Thread \ {Main} : pc'[u] = pc[u]
        /\ pc[Main] \in {"leave_scan", "leave_read"}
        /\ pc'[Main] \in {"leave_scan", "leave_read", "leave_free"}
    BY <1>1, <1>6 DEF Lookup, LookupScan, LookupFails, LookupRead, TypeOK, Goto, tables
  <2>2. \A u \in Thread : leave'[u].target = leave[u].target
    BY <1>1, <1>6, LookupKeeps
  <2>3. OthersInv' /\ (NotLeft(Main)' => NotLeft(Main))
    BY <2>1, <2>2 DEF MainInv, OthersInv, NotLeft
  <2> QED
    BY <1>1, <2>1, <2>3 DEF MainInv, Starting, Unclaimed, Settled, Saved
<1> QED
  BY <1>2, <1>3, <1>4, <1>5, <1>6

\* The instrumented calls, which are main's: save and restore find its slot,
\* which has room for every call in progress.
LEMMA MainCalls ==
    ASSUME Instrumented \subseteq {Main}, MaxDepth < PSEUDO_THREAD_SS_SIZE,
           LibInv, MainInv, NEW t \in Thread,
           \/ \E lr \in Addr : Call(t, lr)
           \/ Return(t) \/ shadow_stack_save(t) \/ shadow_stack_restore(t)
    PROVE  MainInv'
<1>1. TypeOK /\ TypeInv /\ Main \in Thread /\ 0 \in SlotIndex
  BY Sizes DEF LibInv, TypeInv
<1>2. t = Main
  BY DEF MainInv, OthersInv, Call, Return, shadow_stack_save, shadow_stack_restore
<1>3. /\ UNCHANGED << leave, tidOf, mode, crossed >>
      /\ pc[Main] \in {"run", "save", "restore"}
      /\ \A u \in Thread \ {Main} : pc'[u] = pc[u] /\ frames'[u] = frames[u]
  BY <1>1, <1>2 DEF Call, Return, shadow_stack_save, shadow_stack_restore, TypeOK, Goto, tables
<1>4. leave[Main].target = NoThread /\ mode[Main] # "detached"
  BY <1>1, <1>3 DEF LibInv, IdsInv, InLeave, MainInv
<1>5. NotLeft(Main) /\ NotLeft(Main)' /\ OthersInv'
  <2>1. mode[Main] = "joinable"
    BY <1>1, <1>4 DEF MainInv, TypeOK
  <2> QED
    BY <1>1, <1>3, <1>4, <2>1, ThreadAssumption DEF NotLeft, MainInv, OthersInv
<1>6. slots[0].thread_id = 1 /\ slots[0].stack = Saved /\ MySlot(Main) = 0
  BY <1>3, <1>5, MainSlot DEF MainInv, Settled
<1> DEFINE After == /\ pc'[Main] \in {"run", "save", "restore"}
                    /\ pc'[Main] \in {"save", "restore"} => at'[Main] = 0
                    /\ slots'[0].thread_id = 1 /\ slots'[0].stack = Saved'
<1>7. ASSUME After PROVE MainInv'
  BY <1>3, <1>4, <1>5, <1>7 DEF MainInv, Starting, Unclaimed, Settled
<1>8. ASSUME NEW lr \in Addr, Call(t, lr) PROVE After
  <2> DEFINE s == Append(frames[Main], lr)
  <2>1. /\ pc[Main] = "run" /\ pc'[Main] = "save" /\ at'[Main] = 0 /\ slots' = slots
        /\ frames' = [frames EXCEPT ![Main] = s]
    BY <1>1, <1>2, <1>6, <1>8 DEF Call, TypeOK, Goto, tables
  <2>2. Popped(s) = frames[Main]
    <3>1. frames[Main] \in Seq(Addr)
      BY <1>1 DEF TypeOK
    <3> QED
      BY <3>1, FrontOfAppend
  <2> HIDE DEF s
  <2>3. Saved' = frames[Main]
    BY <1>1, <2>1, <2>2 DEF Saved, TypeOK
  <2> QED
    BY <1>6, <2>1, <2>3 DEF Saved
<1>9. ASSUME Return(t) PROVE After
  <2>1. /\ pc[Main] = "run" /\ pc'[Main] = "restore" /\ at'[Main] = 0
        /\ slots' = slots /\ frames' = frames
    BY <1>1, <1>2, <1>6, <1>9 DEF Return, TypeOK, Goto, tables
  <2>2. Saved = frames[Main]
    BY <2>1 DEF Saved
  <2>3. Saved' = frames'[Main]
    BY <2>1 DEF Saved
  <2> QED
    BY <1>6, <2>1, <2>2, <2>3
<1>10. ASSUME shadow_stack_save(t) PROVE After
  <2> DEFINE f == frames[Main]
             lr == f[Len(f)]
  <2>1. pc[Main] = "save" /\ at[Main] = 0 /\ pc'[Main] = "run" /\ frames' = frames
    BY <1>1, <1>2, <1>10 DEF shadow_stack_save, MainInv, TypeOK, Goto
  <2>2. f \in Seq(Addr) /\ f # << >> /\ Len(f) =< MaxDepth
    BY <1>1, <2>1 DEF TypeInv, TypeOK
  <2>3. slots[0].stack = Popped(f)
    BY <1>6, <2>1 DEF Saved
  <2>4. ~ StackFull(slots[0].stack)
    <3>1. Len(Popped(f)) = Len(f) - 1 /\ Len(f) \in Nat
      BY <2>2, PoppedProperties, LenProperties
    <3> HIDE DEF f
    <3> QED
      BY <2>2, <2>3, <3>1, SizesAssumption, BoundAssumption DEF StackFull
  <2>5. slots' = [slots EXCEPT ![0].stack = Pushed(@, lr)]
    BY <1>2, <1>10, <2>1, <2>4 DEF shadow_stack_save
  <2>6. Pushed(Popped(f), lr) = f
    BY <2>2, PushedBack
  <2> HIDE DEF f, lr
  <2>7. slots'[0].stack = f /\ slots'[0].thread_id = slots[0].thread_id
    BY <1>1, <2>3, <2>5, <2>6 DEF TypeOK, Table, Slot
  <2>8. frames'[Main] = f
    BY <2>1 DEF f
  <2>9. Saved' = frames'[Main]
    BY <2>1 DEF Saved
  <2> QED
    BY <1>6, <2>1, <2>7, <2>8, <2>9
<1>11. ASSUME shadow_stack_restore(t) PROVE After
  <2> DEFINE f == frames[Main]
  <2>1. pc[Main] = "restore" /\ at[Main] = 0
    BY <1>2, <1>11 DEF shadow_stack_restore, MainInv
  <2>2. f \in Seq(Addr) /\ f # << >>
    BY <1>1, <2>1 DEF TypeInv, TypeOK
  <2>3. slots[0].stack = f
    BY <1>6, <2>1 DEF Saved
  <2>4. RestoredWord(0) = f[Len(f)]
    BY <2>2, <2>3 DEF RestoredWord, TopWord
  <2>5. /\ pc'[Main] = "run"
        /\ frames' = [frames EXCEPT ![Main] = Popped(f)]
        /\ slots' = [slots EXCEPT ![0].stack = IF @ = << >> THEN @ ELSE Popped(@)]
    BY <1>1, <1>2, <1>11, <2>1, <2>4 DEF shadow_stack_restore, TypeOK, Goto, Popped
  <2> HIDE DEF f
  <2>6. slots'[0].stack = Popped(f) /\ slots'[0].thread_id = slots[0].thread_id
    BY <1>1, <2>2, <2>3, <2>5 DEF TypeOK, Table, Slot
  <2>7. frames'[Main] = Popped(f)
    BY <1>1, <2>5 DEF TypeOK
  <2>8. Saved' = frames'[Main]
    BY <2>5 DEF Saved
  <2> QED
    BY <1>6, <2>5, <2>6, <2>7, <2>8
<1> QED
  BY <1>7, <1>8, <1>9, <1>10, <1>11

LEMMA MainStep ==
    ASSUME Instrumented \subseteq {Main}, MaxDepth < PSEUDO_THREAD_SS_SIZE
    PROVE  LibInv /\ MainInv /\ [Next]_vars => MainInv'
<1> SUFFICES ASSUME LibInv, MainInv, [Next]_vars PROVE MainInv'
  OBVIOUS
<1>1. CASE InitWhole
  <2>1. TypeOK /\ Main \in Thread
    BY Sizes DEF LibInv, TypeInv
  <2>2. /\ UNCHANGED << leave, tidOf, mode, frames, crossed >> /\ slots' = ZeroTable
        /\ pc[Main] = "boot" /\ pc'[Main] = "init_lock"
        /\ \A u \in Thread \ {Main} : pc'[u] = pc[u]
    BY <1>1, <2>1 DEF InitWhole, TypeOK, Goto
  <2> QED
    BY <2>1, <2>2 DEF MainInv, OthersInv, Starting, Unclaimed, Settled
<1>2. CASE Restart
  BY <1>2, MainFresh, ThreadAssumption
     DEF Restart, MainInv, OthersInv, NoLeave, Starting, Unclaimed, Settled
<1>3. CASE UNCHANGED vars
  BY <1>3 DEF vars, tables, threads, MainInv, OthersInv, Settled, NotLeft, Saved
<1>4. ASSUME NEW t \in Thread, Finish(t) PROVE MainInv'
  BY <1>4, MainRegisters, OthersRegister, MainLeaves, OthersLeave, MainCalls DEF Finish
<1>5. ASSUME NEW c \in Thread, NEW t \in Thread, NEW call \in {"detach", "join"},
             Leave(c, t, call)
      PROVE  MainInv'
  BY <1>5, MainLeaves, OthersLeave
<1> QED
  BY <1>1, <1>2, <1>3, <1>4, <1>5, MainCalls, MainCreates, MainExits DEF Next

\* shadowstack.c 61-315, of the program as it is built: when only functions
\* of main are instrumented and their calls fit the slot, main returns to its
\* callers, whatever the other threads create, leave and end.
THEOREM MainReturns ==
    ASSUME Instrumented \subseteq {Main}, MaxDepth < PSEUDO_THREAD_SS_SIZE
    PROVE  Spec => []ReturnsToCaller
<1>1. Init => MainInv
  BY MainFresh DEF Init
<1>2. MainInv => ReturnsToCaller
  BY DEF MainInv, OthersInv, ReturnsToCaller
<1>3. Spec => [](LibInv /\ MainInv)
  BY <1>1, LibInit, LibStep, MainStep, PTL DEF Spec
<1> QED
  BY <1>2, <1>3, PTL
=============================================================================
