--------------------------- MODULE TeeServiceProofs ---------------------------
(***************************************************************************)
(* Theorems of TeeService, for every table size, stack size, set of thread *)
(* ids and set of addresses, and its refinement: when every thread         *)
(* registers once, it implements ThreadStacks.                             *)
(***************************************************************************)
EXTENDS TeeService, ShadowTableProofs, FiniteSetTheorems

USE DEF NotFound, StackEnd

-----------------------------------------------------------------------------
(* The inductive invariant: every slot on its own is good.  TypeOK alone   *)
(* is not inductive for NoClearedWord, nor is that without                 *)
(* UnclaimedIsEmpty: a fresh slot keeps the stack pointer it has.          *)

GoodSlot(slot) == /\ slot \in Slot
                  /\ Len(slot.stack) =< PSEUDO_THREAD_SS_SIZE - 1
                  /\ slot.stack \in Seq(Addr)
                  /\ slot.thread_id = 0 => slot = EmptySlot

Inv == /\ slots \in Table
       /\ \A i \in SlotIndex : GoodSlot(slots[i])
       /\ reply \in Replies

LEMMA InvImplies == Inv => TypeOK /\ UnclaimedIsEmpty /\ NoClearedWord
BY DEF Inv, GoodSlot, TypeOK, UnclaimedIsEmpty, NoClearedWord

(* A step that replaces one slot by a good one keeps the table good.       *)
LEMMA SlotUpdate ==
    ASSUME Inv, NEW i \in SlotIndex, NEW slot, GoodSlot(slot),
           slots' = [slots EXCEPT ![i] = slot], reply' \in Replies
    PROVE  Inv'
<1>1. slot \in Slot
  BY DEF GoodSlot
<1>2. slots' \in Table
  BY <1>1 DEF Inv, Table
<1>3. \A j \in SlotIndex : slots'[j] = IF j = i THEN slot ELSE slots[j]
  BY DEF Inv, Table
<1>4. \A j \in SlotIndex : GoodSlot(slots'[j])
  BY <1>3 DEF Inv
<1>5. ASSUME NEW x PROVE GoodSlot(x)' <=> GoodSlot(x)
  BY DEF GoodSlot
<1> QED BY <1>2, <1>4 DEF Inv, GoodSlot

LEMMA NoSlotUpdate ==
    ASSUME Inv, UNCHANGED slots, reply' \in Replies
    PROVE  Inv'
BY DEF Inv, GoodSlot

(* Every word a slot can hold is one a reply can carry.                    *)
LEMMA ReplyInReplies ==
    ASSUME NEW call \in {"boot", "init", "save", "restore", "free", "reset",
                         "other"},
           NEW t \in AnyTid,
           NEW ret \in SlotIndex \cup {NotFound, StackEnd},
           NEW lr \in Word \cup {NotFound, StackEnd}
    PROVE  Reply(call, t, ret, lr) \in Replies
BY DEF Reply, Replies

LEMMA ZeroIsSlotIndex == 0 \in SlotIndex /\ 0 \in Word
BY SizesAssumption DEF SlotIndex, Word

LEMMA ZeroTableGood == ZeroTable \in Table /\ \A i \in SlotIndex : GoodSlot(ZeroTable[i])
<1>1. << >> \in Seq(Addr) /\ << >> \in Seq(Word) /\ Len(<< >>) = 0
  BY EmptySeq
<1>2. EmptySlot \in Slot
  BY <1>1 DEF EmptySlot, Slot
<1>3. EmptySlot.stack = << >> /\ GoodSlot(EmptySlot)
  BY <1>1, <1>2, SizesAssumption DEF EmptySlot, GoodSlot
<1> QED BY <1>2, <1>3 DEF ZeroTable, Table

-----------------------------------------------------------------------------
(* One lemma per action.                                                   *)

LEMMA InitInv == Init => Inv
<1> SUFFICES ASSUME Init PROVE Inv
  OBVIOUS
<1>1. reply \in Replies
  BY ReplyInReplies, ZeroIsSlotIndex DEF Init, AnyTid
<1> QED BY <1>1, ZeroTableGood DEF Init, Inv

LEMMA SmcInitInv == ASSUME Inv, NEW t \in Tid, SmcInit(t) PROVE Inv'
<1> DEFINE i == FreeSlot(slots)
<1>1. /\ i \in SlotIndex \cup {NotFound}
      /\ i # NotFound => i \in SlotIndex /\ Claimable(slots[i])
  BY FreeSlotProperties DEF Inv
<1>2. reply' \in Replies
  <2>1. t \in AnyTid
    BY DEF AnyTid
  <2>2. reply' = Reply("init", t, i, 0)
    BY DEF SmcInit
  <2> QED BY <1>1, <2>1, <2>2, ReplyInReplies, ZeroIsSlotIndex
<1>3. CASE i = NotFound
  BY <1>2, <1>3, NoSlotUpdate DEF SmcInit
<1>4. CASE i # NotFound
  <2>1. slots[i].stack = << >>
    BY <1>1, <1>4 DEF Inv, GoodSlot, EmptySlot, Claimable
  <2>2. Claimed(slots[i], t) = [thread_id |-> t, flag |-> 1, stack |-> << >>]
    BY <2>1, ZeroWordsEmpty DEF Claimed
  <2>3. GoodSlot(Claimed(slots[i], t))
    <3>1. << >> \in Seq(Addr) /\ << >> \in Seq(Word) /\ Len(<< >>) = 0
      BY EmptySeq
    <3> QED BY <2>2, <3>1, SizesAssumption, TidAssumption DEF GoodSlot, Slot
  <2>4. slots' = [slots EXCEPT ![i] = Claimed(slots[i], t)]
    BY <1>4 DEF SmcInit
  <2> QED BY <1>1, <1>2, <1>4, <2>3, <2>4, SlotUpdate
<1> QED BY <1>3, <1>4

LEMMA SmcAddLrInv ==
    ASSUME Inv, NEW t \in Tid, NEW lr \in Addr, SmcAddLr(t, lr) PROVE Inv'
<1> DEFINE i == FindSlot(slots, t)
<1>1. /\ i \in SlotIndex \cup {NotFound}
      /\ i # NotFound => i \in SlotIndex /\ slots[i].thread_id = t
  BY FindSlotProperties DEF Inv
<1>2. t \in AnyTid
  BY DEF AnyTid
<1>3. CASE /\ UNCHANGED slots
           /\ \/ reply' = Reply("save", t, NotFound, 0)
              \/ reply' = Reply("save", t, StackEnd, 0)
  <2>1. reply' \in Replies
    BY <1>2, <1>3, ReplyInReplies, ZeroIsSlotIndex
  <2> QED BY <1>3, <2>1, NoSlotUpdate
<1>4. CASE /\ i # NotFound
           /\ ~ StackFull(slots[i].stack)
           /\ slots' = [slots EXCEPT ![i].stack = Pushed(@, lr)]
           /\ reply' = Reply("save", t, i, 0)
  <2> DEFINE slot == [slots[i] EXCEPT !.stack = Pushed(@, lr)]
  <2>1. i \in SlotIndex /\ GoodSlot(slots[i]) /\ slots[i].thread_id = t
    BY <1>1, <1>4 DEF Inv
  <2>2. Pushed(slots[i].stack, lr) \in Seq(Addr)
    BY <1>4, <2>1, PushedProperties DEF GoodSlot
  <2>3. Len(Pushed(slots[i].stack, lr)) =< PSEUDO_THREAD_SS_SIZE - 1
    BY <1>4, <2>1, PushedProperties DEF GoodSlot
  <2>4. Pushed(slots[i].stack, lr) \in Seq(Word)
    BY <2>2, SeqMonotonic DEF Word
  <2>5. GoodSlot(slot)
    BY <2>1, <2>2, <2>3, <2>4, TidAssumption DEF GoodSlot, Slot
  <2>6. slots' = [slots EXCEPT ![i] = slot]
    BY <1>4, <2>1 DEF Inv, Table
  <2>7. reply' \in Replies
    BY <1>2, <1>4, <2>1, ReplyInReplies, ZeroIsSlotIndex
  <2> QED BY <2>1, <2>5, <2>6, <2>7, SlotUpdate
<1> QED BY <1>3, <1>4 DEF SmcAddLr

LEMMA SmcRestoreLrInv == ASSUME Inv, NEW t \in Tid, SmcRestoreLr(t) PROVE Inv'
<1> DEFINE i == FindSlot(slots, t)
<1>1. /\ i \in SlotIndex \cup {NotFound}
      /\ i # NotFound => i \in SlotIndex /\ slots[i].thread_id = t
  BY FindSlotProperties DEF Inv
<1>2. t \in AnyTid
  BY DEF AnyTid
<1>3. CASE /\ UNCHANGED slots
           /\ \/ reply' = Reply("restore", t, 0, NotFound)
              \/ reply' = Reply("restore", t, 0, StackEnd)
  <2>1. reply' \in Replies
    BY <1>2, <1>3, ReplyInReplies, ZeroIsSlotIndex
  <2> QED BY <1>3, <2>1, NoSlotUpdate
<1>4. CASE /\ i # NotFound
           /\ slots[i].stack # << >>
           /\ slots' = [slots EXCEPT ![i].stack = Popped(@)]
           /\ reply' = Reply("restore", t, 0, TopWord(slots[i].stack))
  <2> DEFINE slot == [slots[i] EXCEPT !.stack = Popped(@)]
  <2>1. i \in SlotIndex /\ GoodSlot(slots[i]) /\ slots[i].thread_id = t
    BY <1>1, <1>4 DEF Inv
  <2>2. /\ Popped(slots[i].stack) \in Seq(Addr)
        /\ Len(Popped(slots[i].stack)) = Len(slots[i].stack) - 1
        /\ TopWord(slots[i].stack) \in Addr
    BY <1>4, <2>1, PoppedProperties DEF GoodSlot
  <2>3. Popped(slots[i].stack) \in Seq(Word)
    BY <2>2, SeqMonotonic DEF Word
  <2>4. Len(Popped(slots[i].stack)) =< PSEUDO_THREAD_SS_SIZE - 1
    BY <2>1, <2>2, SizesAssumption, LenProperties DEF GoodSlot
  <2>5. GoodSlot(slot)
    BY <2>1, <2>2, <2>3, <2>4, TidAssumption DEF GoodSlot, Slot
  <2>6. slots' = [slots EXCEPT ![i] = slot]
    BY <1>4, <2>1 DEF Inv, Table
  <2>7. reply' \in Replies
    BY <1>2, <1>4, <2>2, ReplyInReplies, ZeroIsSlotIndex DEF Word
  <2> QED BY <2>1, <2>5, <2>6, <2>7, SlotUpdate
<1> QED BY <1>3, <1>4 DEF SmcRestoreLr

LEMMA SmcFreeInv == ASSUME Inv, NEW t \in AnyTid, SmcFree(t) PROVE Inv'
<1> DEFINE i == FindSlot(slots, t)
<1>1. /\ i \in SlotIndex \cup {NotFound}
      /\ i # NotFound => i \in SlotIndex /\ slots[i].thread_id = t
  BY FindSlotProperties DEF Inv
<1>2. reply' \in Replies
  BY <1>1, ReplyInReplies, ZeroIsSlotIndex DEF SmcFree
<1>3. CASE i = NotFound
  BY <1>2, <1>3, NoSlotUpdate DEF SmcFree
<1>4. CASE i # NotFound
  <2> DEFINE slot == [slots[i] EXCEPT !.flag = 0]
  <2>1. i \in SlotIndex /\ GoodSlot(slots[i])
    BY <1>1, <1>4 DEF Inv
  <2>2. GoodSlot(slot)
    BY <2>1 DEF GoodSlot, Slot, EmptySlot
  <2>3. slots' = [slots EXCEPT ![i] = slot]
    BY <1>4, <2>1 DEF SmcFree, Inv, Table
  <2> QED BY <1>2, <2>1, <2>2, <2>3, SlotUpdate
<1> QED BY <1>3, <1>4

LEMMA SmcFreeWholeInv == ASSUME Inv, SmcFreeWhole PROVE Inv'
<1>1. reply' \in Replies
  BY ReplyInReplies, ZeroIsSlotIndex DEF SmcFreeWhole, AnyTid
<1> QED BY <1>1, ZeroTableGood DEF SmcFreeWhole, Inv, GoodSlot

LEMMA SmcOtherInv == ASSUME Inv, SmcOther PROVE Inv'
<1>1. reply' \in Replies
  BY ReplyInReplies, ZeroIsSlotIndex DEF SmcOther, AnyTid
<1> QED BY <1>1, NoSlotUpdate DEF SmcOther

LEMMA NextInv == Inv /\ [Next]_vars => Inv'
<1> SUFFICES ASSUME Inv, [Next]_vars PROVE Inv'
  OBVIOUS
<1>1. ASSUME NEW t \in Tid, SmcInit(t) PROVE Inv'
  BY <1>1, SmcInitInv
<1>2. ASSUME NEW t \in Tid, NEW lr \in Addr, SmcAddLr(t, lr) PROVE Inv'
  BY <1>2, SmcAddLrInv
<1>3. ASSUME NEW t \in Tid, SmcRestoreLr(t) PROVE Inv'
  BY <1>3, SmcRestoreLrInv
<1>4. ASSUME NEW t \in AnyTid, SmcFree(t) PROVE Inv'
  BY <1>4, SmcFreeInv
<1>5. CASE SmcFreeWhole
  BY <1>5, SmcFreeWholeInv
<1>6. CASE SmcOther
  BY <1>6, SmcOtherInv
<1>7. CASE UNCHANGED vars
  BY <1>7 DEF vars, Inv, GoodSlot
<1> QED BY <1>1, <1>2, <1>3, <1>4, <1>5, <1>6, <1>7 DEF Next

-----------------------------------------------------------------------------

\* std_svc_setup.c 249-427: the inductive invariant of the service.
THEOREM Invariance == Spec => []Inv
BY InitInv, NextInv, PTL DEF Spec

(* Slots and replies keep their types, and no stack uses the last word of  *)
(* its array, for every number and size of slots.                          *)
THEOREM TypeCorrect == Spec => []TypeOK
BY Invariance, InvImplies, PTL

(* A slot nobody has claimed is all zero: init_thread_local_ss may do      *)
(* without resetting shadow_stack_sp.                                      *)
THEOREM UnclaimedStaysEmpty == Spec => []UnclaimedIsEmpty
BY Invariance, InvImplies, PTL

(* The memset of init_thread_local_ss never clears a word that can be      *)
(* restored: a stack holds addresses that were saved.                      *)
THEOREM OnlyAddressesStacked == Spec => []NoClearedWord
BY Invariance, InvImplies, PTL

-----------------------------------------------------------------------------
(* Isolation.                                                              *)

IsolationStep == \A i \in SlotIndex :
                    InUse(slots[i]) /\ slots'[i] # slots[i]
                       => \/ reply'.call = "reset"
                          \/ reply'.tid = slots[i].thread_id

LEMMA NextIsolates == Inv /\ [Next]_vars => IsolationStep
<1> SUFFICES ASSUME Inv, [Next]_vars,
                    NEW i \in SlotIndex,
                    InUse(slots[i]), slots'[i] # slots[i]
             PROVE  \/ reply'.call = "reset"
                    \/ reply'.tid = slots[i].thread_id
  BY DEF IsolationStep
<1> DEFINE Mine(t) == reply'.tid = t /\ slots[i].thread_id = t
<1>1. ASSUME NEW t \in Tid, SmcInit(t) PROVE FALSE
  <2>1. /\ FreeSlot(slots) = i
        /\ i # NotFound
    BY <1>1 DEF SmcInit, Inv, Table
  <2>2. Claimable(slots[i])
    BY <2>1, FreeSlotProperties DEF Inv
  <2>3. GoodSlot(slots[i])
    BY DEF Inv
  <2> QED BY <2>2, <2>3 DEF InUse, Claimable, GoodSlot, EmptySlot
<1>2. ASSUME NEW t \in Tid, NEW lr \in Addr, SmcAddLr(t, lr) PROVE Mine(t)
  <2>1. FindSlot(slots, t) = i /\ i # NotFound
    BY <1>2 DEF SmcAddLr, Inv, Table
  <2>2. slots[i].thread_id = t
    BY <2>1, FindSlotProperties DEF Inv
  <2> QED BY <1>2, <2>2 DEF SmcAddLr, Reply
<1>3. ASSUME NEW t \in Tid, SmcRestoreLr(t) PROVE Mine(t)
  <2>1. FindSlot(slots, t) = i /\ i # NotFound
    BY <1>3 DEF SmcRestoreLr, Inv, Table
  <2>2. slots[i].thread_id = t
    BY <2>1, FindSlotProperties DEF Inv
  <2> QED BY <1>3, <2>2 DEF SmcRestoreLr, Reply
<1>4. ASSUME NEW t \in AnyTid, SmcFree(t) PROVE Mine(t)
  <2>1. FindSlot(slots, t) = i /\ i # NotFound
    BY <1>4 DEF SmcFree, Inv, Table
  <2>2. slots[i].thread_id = t
    BY <2>1, FindSlotProperties DEF Inv
  <2> QED BY <1>4, <2>2 DEF SmcFree, Reply
<1>5. CASE SmcFreeWhole
  BY <1>5 DEF SmcFreeWhole, Reply
<1>6. CASE SmcOther
  BY <1>6 DEF SmcOther
<1>7. CASE UNCHANGED vars
  BY <1>7 DEF vars
<1> QED BY <1>1, <1>2, <1>3, <1>4, <1>5, <1>6, <1>7 DEF Next

(* Whatever the other threads call, and in whatever order, a slot that is  *)
(* flagged or holds an address changes only on calls that name its thread, *)
(* or when the whole table is reset.                                       *)
THEOREM ThreadsIsolated == Spec => Isolation
BY Invariance, NextIsolates, PTL DEF Spec, Isolation, IsolationStep

-----------------------------------------------------------------------------
(* One slot for a thread id, as long as no thread registers again, which   *)
(* the clients of the refinement are assumed not to do.                    *)

UniqueTid == \A i, j \in SlotIndex :
                /\ slots[i].thread_id # 0
                /\ slots[i].thread_id = slots[j].thread_id
                => i = j

LEMMA NextUnique ==
    ASSUME Reinit = FALSE
    PROVE  Inv /\ UniqueTid /\ [Next]_vars => UniqueTid'
<1> SUFFICES ASSUME Inv, UniqueTid, [Next]_vars,
                    NEW i \in SlotIndex, NEW j \in SlotIndex,
                    slots'[i].thread_id # 0,
                    slots'[i].thread_id = slots'[j].thread_id
             PROVE  i = j
  BY DEF UniqueTid
<1> DEFINE SameIds == \A k \in SlotIndex :
                         slots'[k].thread_id = slots[k].thread_id
<1>1. ASSUME SameIds PROVE i = j
  BY <1>1 DEF UniqueTid
<1>2. ASSUME NEW t \in Tid, SmcInit(t) PROVE i = j
  <2> DEFINE k == FreeSlot(slots)
  <2>1. CASE k = NotFound
    BY <1>1, <1>2, <2>1 DEF SmcInit
  <2>2. CASE k # NotFound
    <3>1. k \in SlotIndex
      BY <2>2, FreeSlotProperties DEF Inv
    <3>2. \A m \in SlotIndex : slots[m].thread_id # t
      BY <1>2, FindSlotProperties DEF SmcInit, Inv
    <3>3. \A m \in SlotIndex : slots'[m].thread_id =
                                  IF m = k THEN t ELSE slots[m].thread_id
      BY <1>2, <2>2, <3>1 DEF SmcInit, Claimed, Inv, Table
    <3> QED BY <3>2, <3>3 DEF UniqueTid
  <2> QED BY <2>1, <2>2
<1>3. ASSUME NEW t \in Tid, NEW lr \in Addr, SmcAddLr(t, lr) PROVE SameIds
  <2>1. \/ slots' = slots
        \/ \E k, s : slots' = [slots EXCEPT ![k].stack = s]
    BY <1>3 DEF SmcAddLr
  <2>2. slots \in Table BY DEF Inv
  <2> QED BY <2>1, <2>2, StackChanged
<1>4. ASSUME NEW t \in Tid, SmcRestoreLr(t) PROVE SameIds
  <2>1. \/ slots' = slots
        \/ \E k, s : slots' = [slots EXCEPT ![k].stack = s]
    BY <1>4 DEF SmcRestoreLr
  <2>2. slots \in Table BY DEF Inv
  <2> QED BY <2>1, <2>2, StackChanged
<1>5. ASSUME NEW t \in AnyTid, SmcFree(t) PROVE SameIds
  BY <1>5 DEF SmcFree, Inv, Table, Slot
<1>6. CASE SmcFreeWhole
  BY <1>6 DEF SmcFreeWhole, ZeroTable, EmptySlot
<1>7. CASE SmcOther \/ UNCHANGED vars
  BY <1>1, <1>7 DEF SmcOther, vars
<1> QED BY <1>1, <1>2, <1>3, <1>4, <1>5, <1>6, <1>7 DEF Next

LEMMA IdsUnique == ASSUME Reinit = FALSE PROVE Spec => []UniqueTid
<1>1. Init => UniqueTid
  BY DEF Init, UniqueTid, ZeroTable, EmptySlot
<1>2. Inv /\ UniqueTid /\ [Next]_vars => UniqueTid'
  BY NextUnique
<1> QED BY <1>1, <1>2, Invariance, PTL DEF Spec

-----------------------------------------------------------------------------
(* TeeService implements ThreadStacks.                                     *)

\* What the threads of a table are, when no id is in two slots.
Ids(tab) == {tab[i].thread_id : i \in SlotIndex} \ {0}

OneSlotEach(tab) == \A i, j \in SlotIndex :
                       /\ tab[i].thread_id # 0
                       /\ tab[i].thread_id = tab[j].thread_id
                       => i = j

\* The search finds the slot of an id, which is the only one.
LEMMA FindsOwn ==
    ASSUME NEW tab \in Table, OneSlotEach(tab),
           NEW i \in SlotIndex, tab[i].thread_id # 0
    PROVE  FindSlot(tab, tab[i].thread_id) = i
BY FindSlotProperties DEF OneSlotEach

\* The abstract state of a table, slot by slot.
LEMMA ViewOf ==
    ASSUME NEW tab \in Table, OneSlotEach(tab)
    PROVE  /\ DOMAIN StkOf(tab) = Ids(tab)
           /\ ReleasedOf(tab) \subseteq Ids(tab)
           /\ \A i \in SlotIndex :
                 tab[i].thread_id # 0
                    => /\ tab[i].thread_id \in Ids(tab)
                       /\ StkOf(tab)[tab[i].thread_id] = tab[i].stack
                       /\ tab[i].thread_id \in ReleasedOf(tab)
                             <=> tab[i].flag = 0
           /\ \A t : t \in Ids(tab) <=> t # 0 /\ FindSlot(tab, t) # NotFound
<1>1. DOMAIN StkOf(tab) = Ids(tab)
  BY DEF StkOf, Ids
<1>2. ReleasedOf(tab) \subseteq Ids(tab)
  BY <1>1 DEF ReleasedOf
<1>3. ASSUME NEW i \in SlotIndex, tab[i].thread_id # 0
      PROVE  /\ tab[i].thread_id \in Ids(tab)
             /\ StkOf(tab)[tab[i].thread_id] = tab[i].stack
             /\ tab[i].thread_id \in ReleasedOf(tab) <=> tab[i].flag = 0
  <2>1. FindSlot(tab, tab[i].thread_id) = i
    BY <1>3, FindsOwn
  <2>2. tab[i].thread_id \in Ids(tab)
    BY <1>3 DEF Ids
  <2>3. StkOf(tab)[tab[i].thread_id] = tab[i].stack
    BY <2>1, <2>2 DEF StkOf, Ids
  <2> QED
    BY <1>1, <2>1, <2>2, <2>3 DEF ReleasedOf
<1>4. ASSUME NEW t PROVE t \in Ids(tab) <=> t # 0 /\ FindSlot(tab, t) # NotFound
  BY FindSlotProperties DEF Ids
<1> QED
  BY <1>1, <1>2, <1>3, <1>4

\* A step that moves no id changes the view of the slot it writes only.
LEMMA SameIds ==
    ASSUME NEW tab \in Table, NEW new \in Table, OneSlotEach(tab),
           \A i \in SlotIndex : new[i].thread_id = tab[i].thread_id
    PROVE  /\ OneSlotEach(new)
           /\ Ids(new) = Ids(tab)
           /\ \A t : FindSlot(new, t) = FindSlot(tab, t)
           /\ StkOf(new) = [t \in Ids(tab) |-> new[FindSlot(tab, t)].stack]
           /\ ReleasedOf(new) = {t \in Ids(tab) : new[FindSlot(tab, t)].flag = 0}
<1>1. OneSlotEach(new)
  BY DEF OneSlotEach
<1>2. Ids(new) = Ids(tab)
  BY DEF Ids
<1>3. ASSUME NEW t PROVE FindSlot(new, t) = FindSlot(tab, t)
  BY DEF FindSlot
<1>4. StkOf(new) = [t \in Ids(tab) |-> new[FindSlot(tab, t)].stack]
  BY <1>2, <1>3 DEF StkOf, Ids
<1>5. DOMAIN StkOf(new) = Ids(tab)
  BY <1>4
<1> QED
  BY <1>1, <1>2, <1>3, <1>4, <1>5 DEF ReleasedOf

-----------------------------------------------------------------------------
(* How many threads are registered.                                        *)

LEMMA SlotCount ==
    /\ IsFiniteSet(SlotIndex) /\ Cardinality(SlotIndex) = PSEUDO_THREAD_NUM
    /\ \A i \in SlotIndex : /\ IsFiniteSet(SlotIndex \ {i})
                             /\ Cardinality(SlotIndex \ {i}) = PSEUDO_THREAD_NUM - 1
<1>1. IsFiniteSet(SlotIndex) /\ Cardinality(SlotIndex) = PSEUDO_THREAD_NUM
  <2>1. 0 \in Int /\ PSEUDO_THREAD_NUM - 1 \in Int /\ ~ 0 > PSEUDO_THREAD_NUM - 1
    BY SizesAssumption
  <2> QED
    BY <2>1, FS_Interval, SizesAssumption DEF SlotIndex
<1> QED
  BY <1>1, FS_RemoveElement

\* Threads with slots of their own other than i leave room for one more.
LEMMA RoomFor ==
    ASSUME NEW tab \in Table, NEW i \in SlotIndex,
           NEW T \in SUBSET Ids(tab), \A t \in T : FindSlot(tab, t) # i
    PROVE  Cardinality(T) < PSEUDO_THREAD_NUM
<1> DEFINE f == [t \in T |-> FindSlot(tab, t)]
<1>1. ASSUME NEW t \in T
      PROVE  /\ FindSlot(tab, t) \in SlotIndex \ {i}
             /\ tab[FindSlot(tab, t)].thread_id = t
  BY <1>1, FindSlotProperties DEF Ids
<1>2. f \in Injection(T, SlotIndex \ {i})
  BY <1>1 DEF Injection, IsInjective
<1>3. IsFiniteSet(T) /\ Cardinality(T) =< Cardinality(SlotIndex \ {i})
  BY <1>2, SlotCount, FS_Injection
<1>4. Cardinality(T) \in Nat /\ Cardinality(SlotIndex \ {i}) = PSEUDO_THREAD_NUM - 1
  BY <1>3, SlotCount, FS_CardinalityType
<1> QED
  BY <1>3, <1>4, SizesAssumption

\* Slots that all have an owner have as many owners as there are slots.
LEMMA AllOwned ==
    ASSUME NEW tab \in Table, OneSlotEach(tab),
           \A i \in SlotIndex : tab[i].thread_id # 0
    PROVE  Cardinality(Ids(tab)) = PSEUDO_THREAD_NUM
<1> DEFINE f == [i \in SlotIndex |-> tab[i].thread_id]
<1>1. f \in Bijection(SlotIndex, Ids(tab))
  <2>1. f \in [SlotIndex -> Ids(tab)] /\ IsInjective(f)
    BY DEF IsInjective, OneSlotEach, Ids
  <2>2. \A t \in Ids(tab) : \E i \in SlotIndex : f[i] = t
    BY DEF Ids
  <2> QED
    BY <2>1, <2>2 DEF Bijection, Injection, Surjection
<1> QED
  BY <1>1, SlotCount, FS_Bijection DEF ExistsBijection

-----------------------------------------------------------------------------
(* Registration.                                                           *)

\* What the old thread of slot i had is gone, t has an empty stack, and nobody
\* else sees a difference.
TakesPlace(tab, new, i, t) ==
    LET gone == {tab[i].thread_id} \ {0}
    IN  /\ StkOf(new) = [u \in (Ids(tab) \ gone) \cup {t} |->
                           IF u = t THEN << >> ELSE StkOf(tab)[u]]
        /\ ReleasedOf(new) = ReleasedOf(tab) \ gone

\* Claiming a slot takes the place of its thread.
LEMMA ClaimView ==
    ASSUME NEW tab \in Table, NEW new \in Table,
           OneSlotEach(tab), OneSlotEach(new),
           NEW i \in SlotIndex, NEW t, t # 0, t \notin Ids(tab),
           new[i].thread_id = t, new[i].flag = 1, new[i].stack = << >>,
           \A j \in SlotIndex \ {i} : new[j] = tab[j]
    PROVE  TakesPlace(tab, new, i, t)
<1> DEFINE gone == {tab[i].thread_id} \ {0}
<1>1. Ids(new) = (Ids(tab) \ gone) \cup {t}
  BY DEF Ids, OneSlotEach
<1>2. ASSUME NEW u \in Ids(new), u # t
      PROVE  /\ u \in Ids(tab) \ gone
             /\ StkOf(new)[u] = StkOf(tab)[u]
             /\ u \in ReleasedOf(new) <=> u \in ReleasedOf(tab)
  <2>1. PICK j \in SlotIndex : new[j].thread_id = u /\ u # 0
    BY <1>2 DEF Ids
  <2>2. j # i /\ tab[j] = new[j]
    BY <1>2, <2>1
  <2> QED
    BY <1>1, <1>2, <2>1, <2>2, ViewOf
<1>3. StkOf(new)[t] = << >> /\ t \notin ReleasedOf(new)
  BY ViewOf
<1>4. StkOf(new) = [u \in Ids(new) |-> StkOf(new)[u]]
  BY DEF StkOf, Ids
<1>5. ReleasedOf(new) \subseteq Ids(new) /\ ReleasedOf(tab) \subseteq Ids(tab)
  BY ViewOf
<1>6. StkOf(new) = [u \in (Ids(tab) \ gone) \cup {t} |->
                      IF u = t THEN << >> ELSE StkOf(tab)[u]]
  BY <1>1, <1>2, <1>3, <1>4
<1>7. ReleasedOf(new) = ReleasedOf(tab) \ gone
  BY <1>1, <1>2, <1>3, <1>5
<1> QED
  BY <1>6, <1>7 DEF TakesPlace

\* A step between tables without doubles.
Unique == Inv /\ UniqueTid

\* The instance counts as this module does.
LEMMA SameCardinality == \A S : Stacks!Cardinality(S) = Cardinality(S)
BY DEF Stacks!Cardinality, Cardinality

LEMMA UniqueTables ==
    Unique => slots \in Table /\ OneSlotEach(slots) /\ Stacks!Registered = Ids(slots)
BY ViewOf DEF Unique, Inv, UniqueTid, OneSlotEach, Stacks!Registered

LEMMA InitMapped ==
    ASSUME Unique, Unique', Reinit = FALSE, NEW t \in Tid, SmcInit(t)
    PROVE  Stacks!Register(t) \/ Stacks!RefuseRegister(t)
<1> DEFINE i == FreeSlot(slots)
<1>1. /\ slots \in Table /\ OneSlotEach(slots) /\ Stacks!Registered = Ids(slots)
      /\ slots' \in Table /\ OneSlotEach(slots')
  BY UniqueTables DEF Unique, Inv, UniqueTid, OneSlotEach
<1>2. t # 0 /\ t \notin Ids(slots)
  BY <1>1, ViewOf, TidAssumption DEF SmcInit
<1>3. i # NotFound => i \in SlotIndex /\ Claimable(slots[i])
  BY <1>1, FreeSlotProperties
<1>4. reply' = Reply("init", t, i, 0)
  BY DEF SmcInit
<1>5. CASE i = NotFound
  <2>1. \A j \in SlotIndex : ~ Claimable(slots[j])
    BY <1>1, <1>5, FreeSlotProperties
  <2>2. Cardinality(Ids(slots)) = PSEUDO_THREAD_NUM
    BY <1>1, <2>1, AllOwned DEF Claimable
  <2>3. Stacks!Idle = {}
    <3> SUFFICES ASSUME NEW u \in ReleasedOf(slots), StkOf(slots)[u] = << >>
                 PROVE  FALSE
      BY DEF Stacks!Idle
    <3>1. u \in Ids(slots)
      BY <1>1, ViewOf
    <3>2. PICK j \in SlotIndex : slots[j].thread_id = u /\ u # 0
      BY <3>1 DEF Ids
    <3> QED
      BY <1>1, <2>1, <3>2, ViewOf DEF Claimable
  <2>4. slots' = slots
    BY <1>5 DEF SmcInit
  <2>5. AnswerOf(reply)' = Stacks!Answer("init", t, "full", 0)
    BY <1>4, <1>5 DEF AnswerOf, ResultOf, Reply, Stacks!Answer
  <2>6. StkOf(slots)' = StkOf(slots) /\ ReleasedOf(slots)' = ReleasedOf(slots)
    BY <2>4 DEF StkOf, ReleasedOf, FindSlot, FirstIn
  <2> QED
    BY <1>1, <1>2, <2>2, <2>3, <2>5, <2>6, SameCardinality DEF Stacks!RefuseRegister
<1>6. CASE i # NotFound
  <2> DEFINE gone == {slots[i].thread_id} \ {0}
  <2>1. i \in SlotIndex /\ Claimable(slots[i]) /\ GoodSlot(slots[i])
    BY <1>3, <1>6 DEF Unique, Inv
  <2>2. slots[i].stack = << >> /\ (slots[i].thread_id # 0 => slots[i].flag = 0)
    BY <2>1 DEF GoodSlot, Claimable, EmptySlot
  <2>3. slots' = [slots EXCEPT ![i] = Claimed(slots[i], t)]
    BY <1>6 DEF SmcInit
  <2>4. slots'[i].thread_id = t /\ slots'[i].flag = 1 /\ slots'[i].stack = << >>
    BY <1>1, <2>1, <2>2, <2>3, ZeroWordsEmpty DEF Claimed, Table
  <2>5. \A j \in SlotIndex \ {i} : slots'[j] = slots[j]
    BY <1>1, <2>1, <2>3 DEF Table
  <2>6. /\ StkOf(slots') = [u \in (Ids(slots) \ gone) \cup {t} |->
                               IF u = t THEN << >> ELSE StkOf(slots)[u]]
        /\ ReleasedOf(slots') = ReleasedOf(slots) \ gone
    <3>1. TakesPlace(slots, slots', i, t)
      BY <1>1, <1>2, <2>1, <2>4, <2>5, ClaimView
    <3> QED
      BY <3>1 DEF TakesPlace
  <2>7. gone \in {{}} \cup {{u} : u \in Stacks!Idle}
    <3>1. CASE slots[i].thread_id = 0
      BY <3>1
    <3>2. CASE slots[i].thread_id # 0
      <4>1. slots[i].thread_id \in Stacks!Idle
        BY <1>1, <2>1, <2>2, <3>2, ViewOf DEF Stacks!Idle
      <4> QED
        BY <3>2, <4>1
    <3> QED
      BY <3>1, <3>2
  <2>8. Cardinality(Ids(slots) \ gone) < PSEUDO_THREAD_NUM
    <3>1. \A u \in Ids(slots) \ gone : FindSlot(slots, u) # i
      BY <1>1, <2>1, FindSlotProperties DEF Ids
    <3> QED
      BY <1>1, <2>1, <3>1, RoomFor
  <2>9. AnswerOf(reply)' = Stacks!Answer("init", t, "ok", 0)
    BY <1>4, <1>6 DEF AnswerOf, ResultOf, Reply, Stacks!Answer
  <2>10. StkOf(slots)' = StkOf(slots') /\ ReleasedOf(slots)' = ReleasedOf(slots')
    BY DEF StkOf, ReleasedOf, FindSlot, FirstIn
  <2> HIDE DEF gone
  <2>11. Stacks!Cardinality(Ids(slots) \ gone) < PSEUDO_THREAD_NUM
    BY <2>8, SameCardinality
  <2>12. \E g \in {{}} \cup {{u} : u \in Stacks!Idle} :
            /\ Stacks!Cardinality(Ids(slots) \ g) < PSEUDO_THREAD_NUM
            /\ StkOf(slots)' = [u \in (Ids(slots) \ g) \cup {t} |->
                                   IF u = t THEN << >> ELSE StkOf(slots)[u]]
            /\ ReleasedOf(slots)' = ReleasedOf(slots) \ g
    BY <2>6, <2>7, <2>10, <2>11
  <2> QED
    BY <1>1, <1>2, <2>9, <2>12 DEF Stacks!Register
<1> QED
  BY <1>5, <1>6

-----------------------------------------------------------------------------
(* The other calls.                                                        *)

LEMMA ViewStays ==
    ASSUME UNCHANGED slots
    PROVE  StkOf(slots)' = StkOf(slots) /\ ReleasedOf(slots)' = ReleasedOf(slots)
BY DEF StkOf, ReleasedOf, FindSlot, FirstIn

\* A step that writes one field of the slot of t is seen by t alone.
LEMMA ViewMoves ==
    ASSUME Unique, slots' \in Table, NEW t \in Ids(slots),
           \A j \in SlotIndex : slots'[j].thread_id = slots[j].thread_id,
           \A j \in SlotIndex \ {FindSlot(slots, t)} : slots'[j] = slots[j],
           NEW stack, slots'[FindSlot(slots, t)].stack = stack,
           slots'[FindSlot(slots, t)].flag = slots[FindSlot(slots, t)].flag
    PROVE  /\ StkOf(slots)' = [StkOf(slots) EXCEPT ![t] = stack]
           /\ ReleasedOf(slots)' = ReleasedOf(slots)
<1>1. slots \in Table /\ OneSlotEach(slots)
  BY UniqueTables
<1>2. /\ StkOf(slots') = [u \in Ids(slots) |-> slots'[FindSlot(slots, u)].stack]
      /\ ReleasedOf(slots') = {u \in Ids(slots) : slots'[FindSlot(slots, u)].flag = 0}
  BY <1>1, SameIds
<1>3. ASSUME NEW u \in Ids(slots)
      PROVE  /\ FindSlot(slots, u) \in SlotIndex
             /\ FindSlot(slots, u) = FindSlot(slots, t) => u = t
  BY <1>1, ViewOf, FindSlotProperties
<1>4. StkOf(slots) = [u \in Ids(slots) |-> slots[FindSlot(slots, u)].stack]
  BY DEF StkOf, Ids
<1>5. ReleasedOf(slots) = {u \in Ids(slots) : slots[FindSlot(slots, u)].flag = 0}
  BY <1>4 DEF ReleasedOf
<1>6. StkOf(slots') = [StkOf(slots) EXCEPT ![t] = stack]
  BY <1>2, <1>3, <1>4
<1>7. ReleasedOf(slots') = ReleasedOf(slots)
  BY <1>2, <1>3, <1>5
<1>8. StkOf(slots)' = StkOf(slots') /\ ReleasedOf(slots)' = ReleasedOf(slots')
  BY DEF StkOf, ReleasedOf, FindSlot, FirstIn
<1> QED
  BY <1>6, <1>7, <1>8

\* What the registers an SMC returns stand for.
LEMMA Answers ==
    ASSUME NEW t
    PROVE  /\ \A i \in SlotIndex :
                 AnswerOf(Reply("save", t, i, 0)) = Stacks!Answer("save", t, "ok", 0)
           /\ AnswerOf(Reply("save", t, NotFound, 0)) = Stacks!Answer("save", t, "unknown", 0)
           /\ AnswerOf(Reply("save", t, StackEnd, 0)) = Stacks!Answer("save", t, "full", 0)
           /\ \A lr \in Addr : AnswerOf(Reply("restore", t, 0, lr))
                                  = Stacks!Answer("restore", t, "ok", lr)
           /\ AnswerOf(Reply("restore", t, 0, NotFound)) = Stacks!Answer("restore", t, "unknown", 0)
           /\ AnswerOf(Reply("restore", t, 0, StackEnd)) = Stacks!Answer("restore", t, "empty", 0)
           /\ \A i \in SlotIndex :
                 AnswerOf(Reply("free", t, i, 0)) = Stacks!Answer("free", t, "ok", 0)
           /\ AnswerOf(Reply("free", t, NotFound, 0)) = Stacks!Answer("free", t, "unknown", 0)
<1>1. ASSUME NEW call, NEW ret, NEW lr, NEW result,
             ResultOf(Reply(call, t, ret, lr)) = result
      PROVE  AnswerOf(Reply(call, t, ret, lr))
                = Stacks!Answer(call, t, result, IF result = "ok" THEN lr ELSE 0)
  BY <1>1 DEF AnswerOf, Reply, Stacks!Answer
<1>2. ASSUME NEW ret
      PROVE  ResultOf(Reply("save", t, ret, 0)) =
                IF ret = NotFound THEN "unknown" ELSE IF ret = StackEnd THEN "full" ELSE "ok"
  BY DEF ResultOf, Reply
<1>3. ASSUME NEW lr
      PROVE  ResultOf(Reply("restore", t, 0, lr)) =
                IF lr = NotFound THEN "unknown" ELSE IF lr = StackEnd THEN "empty" ELSE "ok"
  BY DEF ResultOf, Reply
<1>4. ASSUME NEW ret
      PROVE  ResultOf(Reply("free", t, ret, 0)) =
                IF ret = NotFound THEN "unknown" ELSE "ok"
  BY DEF ResultOf, Reply
<1>5. /\ \A i \in SlotIndex : i # NotFound /\ i # StackEnd
      /\ \A lr \in Addr : lr # NotFound /\ lr # StackEnd
      /\ NotFound # StackEnd
  BY SizesAssumption, AddrAssumption DEF SlotIndex, NotFound, StackEnd
<1>6. /\ \A i \in SlotIndex : ResultOf(Reply("save", t, i, 0)) = "ok"
      /\ ResultOf(Reply("save", t, NotFound, 0)) = "unknown"
      /\ ResultOf(Reply("save", t, StackEnd, 0)) = "full"
  BY <1>2, <1>5
<1>7. /\ \A lr \in Addr : ResultOf(Reply("restore", t, 0, lr)) = "ok"
      /\ ResultOf(Reply("restore", t, 0, NotFound)) = "unknown"
      /\ ResultOf(Reply("restore", t, 0, StackEnd)) = "empty"
  BY <1>3, <1>5
<1>8. /\ \A i \in SlotIndex : ResultOf(Reply("free", t, i, 0)) = "ok"
      /\ ResultOf(Reply("free", t, NotFound, 0)) = "unknown"
  BY <1>4, <1>5
<1>9. "ok" # "unknown" /\ "ok" # "full" /\ "ok" # "empty"
  OBVIOUS
<1>10. ASSUME NEW call, NEW ret, NEW lr, ResultOf(Reply(call, t, ret, lr)) = "ok"
       PROVE  AnswerOf(Reply(call, t, ret, lr)) = Stacks!Answer(call, t, "ok", lr)
  BY <1>1, <1>10
<1>11. ASSUME NEW call, NEW ret, NEW lr, NEW result, result # "ok",
              ResultOf(Reply(call, t, ret, lr)) = result
       PROVE  AnswerOf(Reply(call, t, ret, lr)) = Stacks!Answer(call, t, result, 0)
  BY <1>1, <1>11
<1> QED
  BY <1>6, <1>7, <1>8, <1>9, <1>10, <1>11

LEMMA AnswerPrimed == AnswerOf(reply)' = AnswerOf(reply')
BY DEF AnswerOf, ResultOf

\* The slot of a thread, and its stack.
LEMMA OwnStack ==
    ASSUME Unique, NEW t \in Tid
    PROVE  LET i == FindSlot(slots, t)
           IN  /\ t \in Ids(slots) <=> i # NotFound
               /\ i # NotFound => /\ i \in SlotIndex
                                  /\ StkOf(slots)[t] = slots[i].stack
                                  /\ GoodSlot(slots[i])
<1>1. slots \in Table /\ OneSlotEach(slots)
  BY UniqueTables
<1> QED
  BY <1>1, ViewOf, FindSlotProperties, TidAssumption DEF Unique, Inv

LEMMA SaveMapped ==
    ASSUME Unique, Inv', NEW t \in Tid, NEW lr \in Addr, SmcAddLr(t, lr)
    PROVE  Stacks!Save(t, lr) \/ Stacks!RefuseSave(t)
<1> DEFINE i == FindSlot(slots, t)
<1>1. /\ slots \in Table /\ slots' \in Table /\ Stacks!Registered = Ids(slots)
      /\ t \in Ids(slots) <=> i # NotFound
      /\ i # NotFound => /\ i \in SlotIndex
                         /\ StkOf(slots)[t] = slots[i].stack
                         /\ GoodSlot(slots[i])
  BY UniqueTables, OwnStack DEF Inv
<1>2. CASE i = NotFound
  <2>1. AnswerOf(reply)' = Stacks!Answer("save", t, "unknown", 0)
    BY <1>2, Answers, AnswerPrimed DEF SmcAddLr
  <2> QED
    BY <1>1, <1>2, <2>1, ViewStays DEF SmcAddLr, Stacks!RefuseSave
<1>3. CASE i # NotFound /\ StackFull(slots[i].stack)
  <2>1. AnswerOf(reply)' = Stacks!Answer("save", t, "full", 0)
    BY <1>3, Answers, AnswerPrimed DEF SmcAddLr
  <2>2. Len(StkOf(slots)[t]) = PSEUDO_THREAD_SS_SIZE - 1
    BY <1>1, <1>3, LenProperties, SizesAssumption DEF GoodSlot, StackFull
  <2> QED
    BY <1>1, <1>3, <2>1, <2>2, ViewStays DEF SmcAddLr, Stacks!RefuseSave
<1>4. CASE i # NotFound /\ ~ StackFull(slots[i].stack)
  <2>1. AnswerOf(reply)' = Stacks!Answer("save", t, "ok", 0)
    BY <1>1, <1>4, Answers, AnswerPrimed DEF SmcAddLr
  <2>2. Len(StkOf(slots)[t]) < PSEUDO_THREAD_SS_SIZE - 1
    BY <1>1, <1>4, LenProperties, SizesAssumption DEF GoodSlot, StackFull
  <2>3. slots' = [slots EXCEPT ![i].stack = Append(slots[i].stack, lr)]
    BY <1>1, <1>4 DEF SmcAddLr, Pushed, Table
  <2>4. /\ \A j \in SlotIndex : slots'[j].thread_id = slots[j].thread_id
        /\ \A j \in SlotIndex \ {i} : slots'[j] = slots[j]
        /\ slots'[i].stack = Append(slots[i].stack, lr)
        /\ slots'[i].flag = slots[i].flag
    BY <1>1, <1>4, <2>3 DEF Table, Slot
  <2>5. /\ StkOf(slots)' = [StkOf(slots) EXCEPT ![t] = Append(slots[i].stack, lr)]
        /\ ReleasedOf(slots)' = ReleasedOf(slots)
    BY <1>1, <1>4, <2>4, ViewMoves
  <2>6. StkOf(slots)' = [StkOf(slots) EXCEPT ![t] = Append(@, lr)]
    BY <1>1, <1>4, <2>5
  <2> QED
    BY <1>1, <1>4, <2>1, <2>2, <2>5, <2>6 DEF Stacks!Save
<1> QED
  BY <1>2, <1>3, <1>4

LEMMA RestoreMapped ==
    ASSUME Unique, Inv', NEW t \in Tid, SmcRestoreLr(t)
    PROVE  Stacks!Restore(t) \/ Stacks!RefuseRestore(t)
<1> DEFINE i == FindSlot(slots, t)
<1>1. /\ slots \in Table /\ slots' \in Table /\ Stacks!Registered = Ids(slots)
      /\ t \in Ids(slots) <=> i # NotFound
      /\ i # NotFound => /\ i \in SlotIndex
                         /\ StkOf(slots)[t] = slots[i].stack
                         /\ GoodSlot(slots[i])
  BY UniqueTables, OwnStack DEF Inv
<1>2. CASE i = NotFound
  <2>1. AnswerOf(reply)' = Stacks!Answer("restore", t, "unknown", 0)
    BY <1>2, Answers, AnswerPrimed DEF SmcRestoreLr
  <2> QED
    BY <1>1, <1>2, <2>1, ViewStays DEF SmcRestoreLr, Stacks!RefuseRestore
<1>3. CASE i # NotFound /\ slots[i].stack = << >>
  <2>1. AnswerOf(reply)' = Stacks!Answer("restore", t, "empty", 0)
    BY <1>3, Answers, AnswerPrimed DEF SmcRestoreLr
  <2> QED
    BY <1>1, <1>3, <2>1, ViewStays DEF SmcRestoreLr, Stacks!RefuseRestore
<1>4. CASE i # NotFound /\ slots[i].stack # << >>
  <2> DEFINE s == slots[i].stack
             rest == SubSeq(s, 1, Len(s) - 1)
  <2>1. s[Len(s)] \in Addr
    BY <1>1, <1>4, PoppedProperties DEF GoodSlot, TopWord
  <2>2. AnswerOf(reply)' = Stacks!Answer("restore", t, "ok", s[Len(s)])
    BY <1>4, <2>1, Answers, AnswerPrimed DEF SmcRestoreLr, TopWord
  <2>3. slots' = [slots EXCEPT ![i].stack = rest]
    BY <1>1, <1>4 DEF SmcRestoreLr, Popped, Table
  <2> HIDE DEF rest
  <2>4. /\ \A j \in SlotIndex : slots'[j].thread_id = slots[j].thread_id
        /\ \A j \in SlotIndex \ {i} : slots'[j] = slots[j]
        /\ slots'[i].stack = rest
        /\ slots'[i].flag = slots[i].flag
    BY <1>1, <1>4, <2>3 DEF Table, Slot
  <2>5. /\ StkOf(slots)' = [StkOf(slots) EXCEPT ![t] = rest]
        /\ ReleasedOf(slots)' = ReleasedOf(slots)
    BY <1>1, <1>4, <2>4, ViewMoves
  <2>6. StkOf(slots)' = [StkOf(slots) EXCEPT ![t] = SubSeq(@, 1, Len(@) - 1)]
    BY <1>1, <1>4, <2>5 DEF rest
  <2> QED
    BY <1>1, <1>4, <2>2, <2>5, <2>6 DEF Stacks!Restore
<1> QED
  BY <1>2, <1>3, <1>4

LEMMA FreeMapped ==
    ASSUME Unique, Inv', NEW t \in AnyTid, SmcFree(t)
    PROVE  Stacks!Release(t)
<1> DEFINE i == FindSlot(slots, t)
<1>1. /\ slots \in Table /\ slots' \in Table
      /\ OneSlotEach(slots) /\ Stacks!Registered = Ids(slots)
  BY UniqueTables DEF Inv
<1>2. /\ t \in Ids(slots) <=> t # 0 /\ i # NotFound
      /\ i # NotFound => i \in SlotIndex /\ slots[i].thread_id = t
  BY <1>1, ViewOf, FindSlotProperties
<1>3. reply' = Reply("free", t, i, 0)
  BY DEF SmcFree
<1>4. \E r \in {"ok", "unknown"} :
         /\ t # 0 => (r = "ok" <=> t \in Ids(slots))
         /\ AnswerOf(reply)' = Stacks!Answer("free", t, r, 0)
  <2>1. CASE i = NotFound
    BY <1>2, <1>3, <2>1, Answers, AnswerPrimed
  <2>2. CASE i # NotFound
    BY <1>2, <1>3, <2>2, Answers, AnswerPrimed
  <2> QED
    BY <2>1, <2>2
<1>5. /\ StkOf(slots)' = StkOf(slots)
      /\ ReleasedOf(slots)' = ReleasedOf(slots) \cup ({t} \cap Ids(slots))
  <2>1. CASE i = NotFound
    BY <1>2, <2>1, ViewStays DEF SmcFree
  <2>2. CASE i # NotFound
    <3>1. slots' = [slots EXCEPT ![i].flag = 0]
      BY <2>2 DEF SmcFree
    <3>2. /\ \A j \in SlotIndex : /\ slots'[j].thread_id = slots[j].thread_id
                                  /\ slots'[j].stack = slots[j].stack
          /\ \A j \in SlotIndex : slots'[j].flag = IF j = i THEN 0 ELSE slots[j].flag
      BY <1>1, <1>2, <2>2, <3>1 DEF Table, Slot
    <3>3. /\ StkOf(slots') = [u \in Ids(slots) |-> slots'[FindSlot(slots, u)].stack]
          /\ ReleasedOf(slots') = {u \in Ids(slots) : slots'[FindSlot(slots, u)].flag = 0}
      BY <1>1, <3>2, SameIds
    <3>4. ASSUME NEW u \in Ids(slots)
          PROVE  /\ FindSlot(slots, u) \in SlotIndex
                 /\ FindSlot(slots, u) = i <=> u = t
      BY <1>1, <1>2, <2>2, ViewOf, FindSlotProperties
    <3>5. StkOf(slots) = [u \in Ids(slots) |-> slots[FindSlot(slots, u)].stack]
      BY DEF StkOf, Ids
    <3>6. ReleasedOf(slots) = {u \in Ids(slots) : slots[FindSlot(slots, u)].flag = 0}
      BY <3>5 DEF ReleasedOf
    <3>7. StkOf(slots') = StkOf(slots)
      BY <3>2, <3>3, <3>4, <3>5
    <3>8. ReleasedOf(slots') = ReleasedOf(slots) \cup ({t} \cap Ids(slots))
      BY <3>2, <3>3, <3>4, <3>6
    <3>9. StkOf(slots)' = StkOf(slots') /\ ReleasedOf(slots)' = ReleasedOf(slots')
      BY DEF StkOf, ReleasedOf, FindSlot, FirstIn
    <3> QED
      BY <3>7, <3>8, <3>9
  <2> QED
    BY <2>1, <2>2
<1> QED
  BY <1>1, <1>4, <1>5 DEF Stacks!Release

\* A table that is all zero stands for no thread.
LEMMA ZeroView == StkOf(ZeroTable) = << >> /\ ReleasedOf(ZeroTable) = {}
<1>1. Ids(ZeroTable) = {}
  BY DEF Ids, ZeroTable, EmptySlot
<1>2. StkOf(ZeroTable) = [t \in {} |-> 0]
  BY <1>1 DEF StkOf, Ids
<1>3. [t \in {} |-> 0] = << >>
  <2>1. [t \in 1 .. 0 |-> 0] \in Seq({0}) /\ 1 .. 0 = {}
    BY IsASeq
  <2>2. [t \in {} |-> 0] \in Seq({0}) /\ DOMAIN [t \in {} |-> 0] = {}
    BY <2>1
  <2> DEFINE e == [t \in {} |-> 0]
  <2> HIDE DEF e
  <2>3. Len(e) = 0
    BY <2>2, LenProperties DEF e
  <2> QED
    BY <2>2, <2>3, EmptySeq DEF e
<1> QED
  BY <1>2, <1>3 DEF ReleasedOf

LEMMA ResetMapped == SmcFreeWhole => Stacks!Reset
<1> SUFFICES ASSUME SmcFreeWhole PROVE Stacks!Reset
  OBVIOUS
<1>1. StkOf(slots)' = StkOf(slots') /\ ReleasedOf(slots)' = ReleasedOf(slots')
  BY DEF StkOf, ReleasedOf, FindSlot, FirstIn
<1>2. AnswerOf(reply)' = Stacks!Answer("reset", 0, "ok", 0)
  BY DEF SmcFreeWhole, AnswerOf, ResultOf, Reply, Stacks!Answer
<1> QED
  BY <1>1, <1>2, ZeroView DEF SmcFreeWhole, Stacks!Reset

LEMMA OtherMapped == SmcOther => Stacks!Other
<1> SUFFICES ASSUME SmcOther PROVE Stacks!Other
  OBVIOUS
<1>1. AnswerOf(reply)' = Stacks!Answer("other", 0, "ok", 0)
  BY DEF SmcOther, AnswerOf, ResultOf, Reply, Stacks!Answer
<1> QED
  BY <1>1, ViewStays DEF SmcOther, Stacks!Other

LEMMA InitMappedToInit == Init => Stacks!Init
<1> SUFFICES ASSUME Init PROVE Stacks!Init
  OBVIOUS
<1>1. AnswerOf(reply) = Stacks!Answer("boot", 0, "ok", 0)
  BY DEF Init, AnswerOf, ResultOf, Reply, Stacks!Answer
<1> QED
  BY <1>1, ZeroView DEF Init, Stacks!Init

LEMMA NextMapped ==
    ASSUME Reinit = FALSE
    PROVE  Unique /\ Unique' /\ [Next]_vars => [Stacks!Next]_(Stacks!vars)
<1> SUFFICES ASSUME Unique, Unique', [Next]_vars
             PROVE  [Stacks!Next]_(Stacks!vars)
  OBVIOUS
<1>1. ASSUME NEW t \in Tid, SmcInit(t) PROVE Stacks!Next
  BY <1>1, InitMapped DEF Stacks!Next
<1>2. ASSUME NEW t \in Tid, NEW lr \in Addr, SmcAddLr(t, lr) PROVE Stacks!Next
  BY <1>2, SaveMapped DEF Unique, Stacks!Next
<1>3. ASSUME NEW t \in Tid, SmcRestoreLr(t) PROVE Stacks!Next
  BY <1>3, RestoreMapped DEF Unique, Stacks!Next
<1>4. ASSUME NEW t \in AnyTid, SmcFree(t) PROVE Stacks!Next
  BY <1>4, FreeMapped DEF Unique, AnyTid, NotFound, Stacks!Next
<1>5. CASE SmcFreeWhole
  BY <1>5, ResetMapped DEF Stacks!Next
<1>6. CASE SmcOther
  BY <1>6, OtherMapped DEF Stacks!Next
<1>7. CASE UNCHANGED vars
  <2>1. AnswerOf(reply)' = AnswerOf(reply)
    BY <1>7 DEF vars, AnswerOf, ResultOf
  <2> QED
    BY <1>7, <2>1, ViewStays DEF vars, Stacks!vars
<1> QED
  BY <1>1, <1>2, <1>3, <1>4, <1>5, <1>6, <1>7 DEF Next

(* When no thread id that is in the table is initialised again, the SMC    *)
(* handler with its table of slots implements a private last-in first-out  *)
(* stack for every registered thread, for every table and stack size.      *)
THEOREM Refinement == ASSUME Reinit = FALSE PROVE Spec => PrivateStacks
<1>1. Spec => []Unique
  BY Invariance, IdsUnique, PTL DEF Unique
<1>2. Unique /\ Unique' /\ [Next]_vars => [Stacks!Next]_(Stacks!vars)
  BY NextMapped
<1> QED
  BY <1>1, <1>2, InitMappedToInit, PTL DEF Spec, PrivateStacks, Stacks!Spec
=============================================================================
