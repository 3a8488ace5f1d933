-------------------------- MODULE TeeplcDriverProofs --------------------------
(***************************************************************************)
(* Theorems about TeeplcDriver, for any number of threads, of slots and of *)
(* device numbers: no listed command keeps its buffer or frees one twice,  *)
(* a thread gets back its own words, whatever the others do between its    *)
(* copies and its SMC, and releases only what it named, and the node is    *)
(* led astray only by numbers that others held or loads lost.              *)
(***************************************************************************)
EXTENDS TeeplcDriver, ShadowTableProofs, FiniteSetTheorems

-----------------------------------------------------------------------------
\* The calls of the threads are records, one for each thread.

Field == {"pc", "cmd", "user", "buf", "ret", "arrived"}
IsCall(c) == c = [f \in Field |-> c[f]]

CallShape == /\ call = [t \in Tid |-> call[t]]
             /\ \A t \in Tid : IsCall(call[t])

Busy == {t \in Tid : call[t].pc # "user"}

\* A thread takes its step: the others' calls stay as they are.
OnlyCall(t) == \E c : /\ IsCall(c)
                      /\ call' = [call EXCEPT ![t] = c]

LEMMA NoCallIsCall == IsCall(NoCall)
BY DEF IsCall, Field, NoCall

LEMMA CallShapeStep ==
    ASSUME CallShape, NEW t \in Tid, OnlyCall(t)
    PROVE  /\ CallShape'
           /\ \A u \in Tid \ {t} : call'[u] = call[u]
<1>1. PICK c : IsCall(c) /\ call' = [call EXCEPT ![t] = c]
  BY DEF OnlyCall
<1>2. call' = [u \in Tid |-> IF u = t THEN c ELSE call[u]]
  BY <1>1 DEF CallShape
<1> QED
  BY <1>1, <1>2 DEF CallShape

-----------------------------------------------------------------------------
\* The buffers.

BuffersInv ==
    /\ CallShape
    /\ live \in Int /\ leaked \in Int
    /\ BuffersAccounted

LEMMA BusyFinite == IsFiniteSet(Busy)
<1>1. Busy \subseteq Tid
  BY DEF Busy
<1> QED
  BY <1>1, FS_Subset, DriverAssumption

\* A thread that comes, one that goes, and one that stays.
LEMMA BusyEnter ==
    ASSUME NEW t \in Tid, CallShape, OnlyCall(t),
           call[t].pc = "user", call'[t].pc # "user"
    PROVE  Cardinality(Busy') = Cardinality(Busy) + 1
<1>1. \A u \in Tid \ {t} : call'[u] = call[u]
  BY CallShapeStep
<1>2. Busy' = Busy \cup {t} /\ t \notin Busy
  BY <1>1 DEF Busy
<1> QED
  BY <1>2, BusyFinite, FS_AddElement

LEMMA BusyLeave ==
    ASSUME NEW t \in Tid, CallShape, OnlyCall(t),
           call[t].pc # "user", call'[t].pc = "user"
    PROVE  Cardinality(Busy') = Cardinality(Busy) - 1
<1>1. \A u \in Tid \ {t} : call'[u] = call[u]
  BY CallShapeStep
<1>2. Busy' = Busy \ {t} /\ t \in Busy
  BY <1>1 DEF Busy
<1> QED
  BY <1>2, BusyFinite, FS_RemoveElement

LEMMA BusyStays ==
    ASSUME NEW t \in Tid, CallShape, OnlyCall(t),
           call[t].pc # "user", call'[t].pc # "user"
    PROVE  Busy' = Busy
<1>1. \A u \in Tid \ {t} : call'[u] = call[u]
  BY CallShapeStep
<1> QED
  BY <1>1 DEF Busy

\* What the steps of teeplc_ioctl do to the call of their thread.
LEMMA EnterCall ==
    ASSUME CallShape, NEW t \in Tid, NEW c \in 0 .. Unknown - 1, NEW w,
           Enter(t, c, w)
    PROVE  OnlyCall(t) /\ call'[t].pc # "user"
<1> DEFINE d == [NoCall EXCEPT !.pc = FirstStep(c), !.cmd = c, !.user = w,
                               !.buf = FreshBuffer]
<1>1. FirstStep(c) # "user"
  BY DEF FirstStep
<1>2. call' = [call EXCEPT ![t] = d]
  BY DEF Enter
<1>3. IsCall(d) /\ d.pc = FirstStep(c)
  BY NoCallIsCall DEF IsCall, Field
<1> HIDE DEF d
<1> QED
  BY <1>1, <1>2, <1>3 DEF OnlyCall, CallShape

LEMMA CopyInCall ==
    ASSUME CallShape, NEW t \in Tid, CopyIn(t)
    PROVE  OnlyCall(t) /\ call[t].pc # "user" /\ call'[t].pc # "user"
<1> DEFINE d == [call[t] EXCEPT !.pc = "smc", !.buf = call[t].user,
                                !.arrived = TRUE]
           e == [call[t] EXCEPT !.pc = "smc"]
<1>1. call[t].pc = "copyin" /\ IsCall(call[t])
  BY DEF CopyIn, CallShape
<1>2. \/ call' = [call EXCEPT ![t] = d]
      \/ call' = [call EXCEPT ![t] = e]
  BY DEF CopyIn, CallShape
<1>3. IsCall(d) /\ d.pc = "smc" /\ IsCall(e) /\ e.pc = "smc"
  BY <1>1 DEF IsCall, Field
<1> HIDE DEF d, e
<1> QED
  BY <1>1, <1>2, <1>3 DEF OnlyCall, CallShape

LEMMA SmcCall ==
    ASSUME CallShape, NEW t \in Tid, Smc(t)
    PROVE  OnlyCall(t) /\ call[t].pc # "user" /\ call'[t].pc # "user"
<1> DEFINE p == IF call[t].cmd \in CopiesOut THEN "copyout" ELSE "return"
           d(r) == [NoCall EXCEPT !.cmd = call[t].cmd, !.ret = r.ret, !.pc = p]
<1>1. call[t].pc = "smc" /\ p # "user"
  BY DEF Smc
<1>2. PICK r \in Answers(t) : call' = [call EXCEPT ![t] = d(r)]
  BY DEF Smc
<1> HIDE DEF p
<1>3. IsCall(d(r)) /\ d(r).pc = p
  BY NoCallIsCall DEF IsCall, Field
<1> HIDE DEF d
<1> QED
  BY <1>1, <1>2, <1>3 DEF OnlyCall, CallShape

LEMMA CopyOutCall ==
    ASSUME CallShape, NEW t \in Tid, CopyOut(t)
    PROVE  OnlyCall(t) /\ call[t].pc # "user" /\ call'[t].pc # "user"
<1> DEFINE d == [call[t] EXCEPT !.pc = "return", !.ret = 0, !.user = ToUser(t)]
           e == [call[t] EXCEPT !.pc = "return", !.ret = NotCopied]
<1>1. call[t].pc = "copyout" /\ IsCall(call[t])
  BY DEF CopyOut, CallShape
<1>2. \/ call' = [call EXCEPT ![t] = d]
      \/ call' = [call EXCEPT ![t] = e]
  BY DEF CopyOut, CallShape
<1>3. IsCall(d) /\ d.pc = "return" /\ IsCall(e) /\ e.pc = "return"
  BY <1>1 DEF IsCall, Field
<1> HIDE DEF d, e
<1> QED
  BY <1>1, <1>2, <1>3 DEF OnlyCall, CallShape

LEMMA ReturnCall ==
    ASSUME CallShape, NEW t \in Tid, Return(t)
    PROVE  OnlyCall(t) /\ call[t].pc # "user" /\ call'[t].pc = "user"
<1>1. call[t].pc = "return" /\ call' = [call EXCEPT ![t] = NoCall]
  BY DEF Return
<1>2. NoCall.pc = "user"
  BY DEF NoCall
<1> QED
  BY <1>1, <1>2, NoCallIsCall DEF OnlyCall, CallShape

LEMMA BuffersInit == Init => BuffersInv
<1> SUFFICES ASSUME Init PROVE BuffersInv
  OBVIOUS
<1>1. CallShape
  BY NoCallIsCall DEF Init, CallShape
<1>2. {t \in Tid : call[t].pc # "user"} = {}
  BY DEF Init, NoCall
<1>3. live = 0 /\ leaked = 0
  BY DEF Init
<1> QED
  BY <1>1, <1>2, <1>3, FS_EmptySet DEF BuffersInv, BuffersAccounted

LEMMA BuffersStep == BuffersInv /\ [Next]_vars => BuffersInv'
<1> SUFFICES ASSUME BuffersInv, [Next]_vars PROVE BuffersInv'
  OBVIOUS
<1>1. /\ CallShape /\ live \in Int /\ leaked \in Int
      /\ live = Cardinality(Busy) + leaked
  BY DEF BuffersInv, BuffersAccounted, Busy
<1>2. Cardinality(Busy) \in Nat
  BY BusyFinite, FS_CardinalityType
<1>3. SUFFICES /\ CallShape' /\ live' \in Int /\ leaked' \in Int
               /\ live' = Cardinality(Busy') + leaked'
  BY DEF BuffersInv, BuffersAccounted, Busy
<1>4. CASE UNCHANGED << call, live, leaked >>
  BY <1>1, <1>4 DEF CallShape, Busy
<1>5. ASSUME NEW t \in Tid, NEW c \in 0 .. Unknown - 1, NEW w, Enter(t, c, w)
      PROVE  /\ CallShape' /\ live' \in Int /\ leaked' \in Int
             /\ live' = Cardinality(Busy') + leaked'
  <2>1. OnlyCall(t) /\ call[t].pc = "user" /\ call'[t].pc # "user"
    BY <1>1, <1>5, EnterCall DEF Enter
  <2>2. CallShape' /\ Cardinality(Busy') = Cardinality(Busy) + 1
    BY <1>1, <2>1, CallShapeStep, BusyEnter
  <2>3. live' = live + 1 /\ leaked' = leaked
    BY <1>5 DEF Enter
  <2> QED
    BY <1>1, <1>2, <2>2, <2>3
<1>6. ASSUME NEW t \in Tid, EnterUnknown(t)
      PROVE  /\ CallShape' /\ live' \in Int /\ leaked' \in Int
             /\ live' = Cardinality(Busy') + leaked'
  <2>1. live' = live + 1 /\ leaked' = leaked + 1 /\ call' = call
    BY <1>6 DEF EnterUnknown
  <2>2. Busy' = Busy
    BY <2>1 DEF Busy
  <2> QED
    BY <1>1, <1>2, <2>1, <2>2 DEF CallShape
<1>7. ASSUME NEW t \in Tid, CopyIn(t) \/ Smc(t) \/ CopyOut(t)
      PROVE  /\ CallShape' /\ live' \in Int /\ leaked' \in Int
             /\ live' = Cardinality(Busy') + leaked'
  <2>1. OnlyCall(t) /\ call[t].pc # "user" /\ call'[t].pc # "user"
    BY <1>1, <1>7, CopyInCall, SmcCall, CopyOutCall
  <2>2. CallShape' /\ Busy' = Busy
    BY <1>1, <2>1, CallShapeStep, BusyStays
  <2>3. live' = live /\ leaked' = leaked
    BY <1>7 DEF CopyIn, Smc, CopyOut
  <2> QED
    BY <1>1, <2>2, <2>3
<1>8. ASSUME NEW t \in Tid, Return(t)
      PROVE  /\ CallShape' /\ live' \in Int /\ leaked' \in Int
             /\ live' = Cardinality(Busy') + leaked'
  <2>1. OnlyCall(t) /\ call[t].pc # "user" /\ call'[t].pc = "user"
    BY <1>1, <1>8, ReturnCall
  <2>2. CallShape' /\ Cardinality(Busy') = Cardinality(Busy) - 1
    BY <1>1, <2>1, CallShapeStep, BusyLeave
  <2>3. live' = live - 1 /\ leaked' = leaked
    BY <1>8 DEF Return, Freed
  <2> QED
    BY <1>1, <1>2, <2>2, <2>3
<1>9. CASE \/ teeplc_init \/ teeplc_exit \/ OtherDriver
           \/ OpenDevice \/ ProcessEnds
  BY <1>4, <1>9 DEF teeplc_init, teeplc_exit, OtherDriver, OpenDevice,
                    ProcessEnds
<1>10. CASE UNCHANGED vars
  BY <1>4, <1>10 DEF vars
<1> QED
  BY <1>5, <1>6, <1>7, <1>8, <1>9, <1>10 DEF Next

\* teeplc.c 64 and 198-211: every listed command, failed copies included,
\* gives back the one buffer it has; an unlisted one keeps its own.
THEOREM BuffersComeBack == Spec => []BuffersAccounted
<1>1. BuffersInv => BuffersAccounted
  BY DEF BuffersInv
<1> QED
  BY <1>1, BuffersInit, BuffersStep, PTL DEF Spec

-----------------------------------------------------------------------------
(* The SMCs, in terms of the driver's view of the table.                   *)

\* The service's operators are those of the table, whoever calls it.
LEMMA SameOperators ==
    ASSUME NEW t
    PROVE  /\ Tee(t)!NotFound = NotFound /\ Tee(t)!StackEnd = StackEnd
           /\ Tee(t)!ZeroTable = ZeroTable
           /\ \A tab, u : Tee(t)!FindSlot(tab, u) = FindSlot(tab, u)
           /\ \A tab : Tee(t)!FreeSlot(tab) = FreeSlot(tab)
           /\ \A slot, u : Tee(t)!Claimed(slot, u) = Claimed(slot, u)
           /\ \A s : Tee(t)!StackFull(s) = StackFull(s)
           /\ \A s, lr : Tee(t)!Pushed(s, lr) = Pushed(s, lr)
           /\ \A s : Tee(t)!Popped(s) = Popped(s)
           /\ \A s : Tee(t)!TopWord(s) = TopWord(s)
<1>1. Tee(t)!NotFound = NotFound /\ Tee(t)!StackEnd = StackEnd
  BY DEF Tee!NotFound, NotFound, Tee!StackEnd, StackEnd
<1>2. Tee(t)!ZeroTable = ZeroTable
  BY DEF Tee!ZeroTable, ZeroTable, Tee!EmptySlot, EmptySlot, Tee!SlotIndex, SlotIndex
<1>3. ASSUME NEW S PROVE Tee(t)!FirstIn(S) = FirstIn(S)
  BY <1>1 DEF Tee!FirstIn, FirstIn
<1>4. ASSUME NEW tab, NEW u PROVE Tee(t)!FindSlot(tab, u) = FindSlot(tab, u)
  BY <1>3 DEF Tee!FindSlot, FindSlot, Tee!SlotIndex, SlotIndex
<1>5. ASSUME NEW slot PROVE Tee(t)!Claimable(slot) <=> Claimable(slot)
  BY DEF Tee!Claimable, Claimable
<1>6. ASSUME NEW tab PROVE Tee(t)!FreeSlot(tab) = FreeSlot(tab)
  <2>1. {i \in SlotIndex : Tee(t)!Claimable(tab[i])} = {i \in SlotIndex : Claimable(tab[i])}
    BY <1>5
  <2> QED
    BY <1>3, <2>1 DEF Tee!FreeSlot, FreeSlot, Tee!SlotIndex, SlotIndex
<1>7. ASSUME NEW slot, NEW u PROVE Tee(t)!Claimed(slot, u) = Claimed(slot, u)
  BY DEF Tee!Claimed, Claimed, Tee!ZeroWords, ZeroWords
<1>8. ASSUME NEW s PROVE /\ Tee(t)!StackFull(s) = StackFull(s)
                         /\ Tee(t)!Popped(s) = Popped(s)
                         /\ Tee(t)!TopWord(s) = TopWord(s)
  BY DEF Tee!StackFull, StackFull, Tee!Popped, Popped, Tee!TopWord, TopWord
<1>9. ASSUME NEW s, NEW lr PROVE Tee(t)!Pushed(s, lr) = Pushed(s, lr)
  BY DEF Tee!Pushed, Pushed
<1> QED
  BY <1>1, <1>2, <1>4, <1>6, <1>7, <1>8, <1>9

Answered(c, u, ret, lr) == [call |-> c, tid |-> u, ret |-> ret, lr |-> lr]

\* case 1
LEMMA InitStep ==
    ASSUME NEW t \in Tid, Tee(t)!SmcInit(t)
    PROVE  LET i == FreeSlot(slots)
           IN  /\ slots' = IF i = NotFound THEN slots
                           ELSE [slots EXCEPT ![i] = Claimed(slots[i], t)]
               /\ reply[t]' = Answered("init", t, i, 0)
<1> DEFINE i == FreeSlot(slots)
<1>1. /\ Tee(t)!FreeSlot(slots) = i /\ Tee(t)!NotFound = NotFound
      /\ Tee(t)!Claimed(slots[i], t) = Claimed(slots[i], t)
  BY SameOperators
<1> HIDE DEF i
<1>2. reply[t]' = Answered("init", t, i, 0)
  BY <1>1 DEF Tee!SmcInit, Tee!Reply, Answered
<1>3. CASE i = NotFound
  BY <1>1, <1>2, <1>3 DEF Tee!SmcInit, i
<1>4. CASE i # NotFound
  <2>1. slots' = [slots EXCEPT ![i] = Tee(t)!Claimed(slots[i], t)]
    BY <1>1, <1>4 DEF Tee!SmcInit
  <2> QED
    BY <1>1, <1>2, <1>4, <2>1 DEF i
<1> QED
  BY <1>3, <1>4

\* case 2
LEMMA AddLrStep ==
    ASSUME NEW t \in Tid, NEW lr, Tee(t)!SmcAddLr(t, lr)
    PROVE  LET i == FindSlot(slots, t)
           IN  \/ /\ reply[t]' \in {Answered("save", t, NotFound, 0), Answered("save", t, StackEnd, 0)}
                  /\ slots' = slots
               \/ /\ i # NotFound
                  /\ ~ StackFull(slots[i].stack)
                  /\ slots' = [slots EXCEPT ![i].stack = Pushed(@, lr)]
                  /\ reply[t]' = Answered("save", t, i, 0)
BY SameOperators DEF Tee!SmcAddLr, Tee!Reply, Answered

\* case 3
LEMMA RestoreLrStep ==
    ASSUME NEW t \in Tid, Tee(t)!SmcRestoreLr(t)
    PROVE  LET i == FindSlot(slots, t)
           IN  \/ /\ reply[t]' \in {Answered("restore", t, 0, NotFound), Answered("restore", t, 0, StackEnd)}
                  /\ slots' = slots
               \/ /\ i # NotFound
                  /\ slots[i].stack # << >>
                  /\ slots' = [slots EXCEPT ![i].stack = Popped(@)]
                  /\ reply[t]' = Answered("restore", t, 0, TopWord(slots[i].stack))
BY SameOperators DEF Tee!SmcRestoreLr, Tee!Reply, Answered

\* case 4
LEMMA FreeStep ==
    ASSUME NEW t \in Tid, NEW u, Tee(t)!SmcFree(u)
    PROVE  LET i == FindSlot(slots, u)
           IN  /\ slots' = IF i = NotFound THEN slots
                           ELSE [slots EXCEPT ![i].flag = 0]
               /\ reply[t]' = Answered("free", u, i, 0)
BY SameOperators DEF Tee!SmcFree, Tee!Reply, Answered

\* case 5
LEMMA ResetStep ==
    ASSUME NEW t \in Tid, Tee(t)!SmcFreeWhole
    PROVE  slots' = ZeroTable /\ reply[t]' = Answered("reset", 0, 0, 0)
BY SameOperators DEF Tee!SmcFreeWhole, Tee!Reply, Answered

\* case 0
LEMMA OtherStep ==
    ASSUME NEW t \in Tid, Tee(t)!SmcOther
    PROVE  slots' = slots /\ reply[t]' = Answered("other", 0, 0, 0)
BY SameOperators DEF Tee!SmcOther, Tee!Reply, Answered

-----------------------------------------------------------------------------
(* The table holds the words its threads have to get back.                 *)

Unowned(tab) == \A i \in SlotIndex :
                   tab[i].thread_id = 0 => tab[i].flag = 0 /\ tab[i].stack = << >>

OneEach(tab) == \A i, j \in SlotIndex :
                   tab[i].thread_id # 0 /\ tab[i].thread_id = tab[j].thread_id => i = j

Holds(tab, v) == \A i \in SlotIndex :
                    tab[i].thread_id # 0 => tab[i].stack = v[tab[i].thread_id]

NoSlotOf(tab, t) == \A i \in SlotIndex : tab[i].thread_id # t

TableInv(tab, v) == /\ tab \in Table /\ v \in [Tid -> Seq(Word)]
                    /\ Unowned(tab) /\ OneEach(tab) /\ Holds(tab, v)

LEMMA SlotWords ==
    ASSUME NEW tab \in Table, NEW i \in SlotIndex
    PROVE  /\ tab[i] \in Slot /\ tab[i].thread_id \in Tid \cup {0}
           /\ tab[i].flag \in {0, 1} /\ tab[i].stack \in Seq(Word)
           /\ 0 \notin Tid
BY TidAssumption DEF Table, Slot

LEMMA TableClaimed ==
    ASSUME NEW tab, NEW v, TableInv(tab, v), NEW t \in Tid, NoSlotOf(tab, t),
           NEW new, NEW w, w = [v EXCEPT ![t] = << >>],
           \/ FreeSlot(tab) = NotFound /\ new = tab
           \/ /\ FreeSlot(tab) # NotFound
              /\ new = [tab EXCEPT ![FreeSlot(tab)] = Claimed(tab[FreeSlot(tab)], t)]
    PROVE  TableInv(new, w)
<1> DEFINE i == FreeSlot(tab)
<1>1. << >> \in Seq(Word)
  BY EmptySeq
<1>2. w \in [Tid -> Seq(Word)] /\ w[t] = << >> /\ \A u \in Tid \ {t} : w[u] = v[u]
  BY <1>1 DEF TableInv
<1>3. CASE i = NotFound
  BY <1>2, <1>3, SlotWords DEF TableInv, Holds, NoSlotOf
<1>4. CASE i # NotFound
  <2>1. i \in SlotIndex /\ Claimable(tab[i])
    BY <1>4, FreeSlotProperties DEF TableInv
  <2>2. tab[i].stack = << >>
    BY <2>1 DEF Claimable, TableInv, Unowned
  <2> DEFINE slot == [thread_id |-> t, flag |-> 1, stack |-> << >>]
  <2>3. Claimed(tab[i], t) = slot
    BY <2>2, ZeroWordsEmpty DEF Claimed
  <2>4. new = [tab EXCEPT ![i] = slot]
    BY <1>4, <2>3
  <2>5. new \in Table
    BY <1>1, <2>4 DEF TableInv, Table, Slot
  <2>6. \A j \in SlotIndex : new[j] = IF j = i THEN slot ELSE tab[j]
    BY <2>4 DEF TableInv, Table
  <2> HIDE DEF i
  <2>7. Unowned(new)
    BY <2>6, SlotWords DEF TableInv, Unowned
  <2>8. OneEach(new)
    BY <2>6 DEF TableInv, OneEach, NoSlotOf
  <2>9. Holds(new, w)
    BY <1>2, <2>6, SlotWords DEF TableInv, Holds, NoSlotOf
  <2> QED
    BY <1>2, <2>5, <2>7, <2>8, <2>9 DEF TableInv
<1> QED
  BY <1>3, <1>4

\* A thread's stack and what it has to get back change together.
LEMMA TableMoved ==
    ASSUME NEW tab, NEW v, TableInv(tab, v), NEW t \in Tid,
           NEW i \in SlotIndex, tab[i].thread_id = t,
           NEW s \in Seq(Word),
           NEW new, new = [tab EXCEPT ![i].stack = s],
           NEW w, w = [v EXCEPT ![t] = s]
    PROVE  TableInv(new, w)
<1>1. new \in Table /\ w \in [Tid -> Seq(Word)]
  BY DEF TableInv, Table, Slot
<1>2. \A j \in SlotIndex : /\ new[j].thread_id = tab[j].thread_id
                           /\ new[j].flag = tab[j].flag
                           /\ new[j].stack = IF j = i THEN s ELSE tab[j].stack
  BY DEF TableInv, Table, Slot
<1>3. w[t] = s /\ \A u \in Tid \ {t} : w[u] = v[u]
  BY DEF TableInv
<1>4. Unowned(new)
  BY <1>2, SlotWords DEF TableInv, Unowned
<1>5. OneEach(new)
  BY <1>2 DEF TableInv, OneEach
<1>6. Holds(new, w)
  <2> SUFFICES ASSUME NEW j \in SlotIndex, tab[j].thread_id # 0
               PROVE  new[j].stack = w[tab[j].thread_id]
    BY <1>2 DEF Holds
  <2>1. CASE j = i
    BY <1>2, <1>3, <2>1
  <2>2. CASE j # i
    <3>1. tab[j].thread_id \in Tid \ {t}
      BY <2>2, SlotWords DEF TableInv, OneEach
    <3> QED
      BY <1>2, <1>3, <2>2, <3>1 DEF TableInv, Holds
  <2> QED
    BY <2>1, <2>2
<1> QED
  BY <1>1, <1>4, <1>5, <1>6 DEF TableInv

LEMMA TableReleased ==
    ASSUME NEW tab, NEW v, TableInv(tab, v), NEW i \in SlotIndex,
           NEW new, new = [tab EXCEPT ![i].flag = 0]
    PROVE  TableInv(new, v)
<1>1. new \in Table
  BY DEF TableInv, Table, Slot
<1>2. \A j \in SlotIndex : /\ new[j].thread_id = tab[j].thread_id
                           /\ new[j].flag = IF j = i THEN 0 ELSE tab[j].flag
                           /\ new[j].stack = tab[j].stack
  BY DEF TableInv, Table, Slot
<1> QED
  BY <1>1, <1>2 DEF TableInv, Unowned, OneEach, Holds

LEMMA TableZero ==
    ASSUME NEW w, w = [u \in Tid |-> << >>]
    PROVE  TableInv(ZeroTable, w)
<1>1. << >> \in Seq(Word)
  BY EmptySeq
<1> QED
  BY <1>1 DEF TableInv, ZeroTable, EmptySlot, Table, Slot, Unowned, OneEach, Holds

-----------------------------------------------------------------------------
(* A thread's run through the driver.                                      *)

\* What is known of the call of t before its SMC, and of the word it fetches
\* behind it, until the caller has it.
GoodCall(t, c, r, d, tab) ==
    /\ c.pc \in {"copyin", "smc"} =>
          /\ c.cmd \in 0 .. 5
          /\ c.cmd = 2 => c.user \in Addr
          /\ c.buf = IF c.arrived THEN c.user ELSE 0
          /\ c.arrived \in BOOLEAN
          /\ c.cmd = 1 => NoSlotOf(tab, t)
    /\ c.pc = "copyin" => ~ c.arrived
    /\ c.pc = "copyout" /\ c.cmd = 3 /\ Returned(r) => r.lr = d
    /\ c.pc = "return" /\ c.cmd = 3 /\ Returned(r) => c.ret = NotCopied \/ c.user = d

WordsInv == /\ CallShape
            /\ reply = [t \in Tid |-> reply[t]] /\ due = [t \in Tid |-> due[t]]
            /\ TableInv(slots, view)
            /\ \A t \in Tid : GoodCall(t, call[t], reply[t], due[t], slots)

\* What is remembered of an answer.
LEMMA RememberStep ==
    ASSUME NEW t \in Tid, NEW r, Remember(t, r)
    PROVE  /\ r.call = "reset" => view' = [u \in Tid |-> << >>]
           /\ r.call = "init" => view' = [view EXCEPT ![t] = << >>]
           /\ Accepted(r) => view' = [view EXCEPT ![t] = Append(view[t], IF call[t].arrived
                                                                 THEN call[t].user ELSE 0)]
           /\ r.call = "save" /\ ~ Accepted(r) => view' = view
           /\ Returned(r) /\ view[t] # << >> =>
                 view' = [view EXCEPT ![t] = Popped(view[t])] /\ due' = [due EXCEPT ![t] = TopWord(view[t])]
           /\ r.call = "restore" /\ ~ Returned(r) => view' = view
           /\ r.call \in {"free", "other"} => view' = view
<1> USE DEF Remember, Accepted, Returned
<1>1. r.call = "reset" => view' = [u \in Tid |-> << >>]
  OBVIOUS
<1>2. r.call = "init" => view' = [view EXCEPT ![t] = << >>]
  OBVIOUS
<1>3. Accepted(r) => view' = [view EXCEPT ![t] = Append(view[t], IF call[t].arrived
                                                        THEN call[t].user ELSE 0)]
  OBVIOUS
<1>4. r.call = "save" /\ ~ Accepted(r) => view' = view
  OBVIOUS
<1>5. Returned(r) /\ view[t] # << >> =>
         view' = [view EXCEPT ![t] = Popped(view[t])] /\ due' = [due EXCEPT ![t] = TopWord(view[t])]
  OBVIOUS
<1>6. r.call = "restore" /\ ~ Returned(r) => view' = view
  OBVIOUS
<1>7. r.call \in {"free", "other"} => view' = view
  OBVIOUS
<1> QED
  BY <1>1, <1>2, <1>3, <1>4, <1>5, <1>6, <1>7

\* Each case of the switch asks for its own SMC.
LEMMA MonitorCalls ==
    ASSUME NEW t \in Tid, CallMonitor(t)
    PROVE  /\ call[t].cmd = 0 => Tee(t)!SmcOther
           /\ call[t].cmd = 1 => Tee(t)!SmcInit(t)
           /\ call[t].cmd = 2 => Tee(t)!SmcAddLr(t, call[t].buf)
           /\ call[t].cmd = 3 => Tee(t)!SmcRestoreLr(t)
           /\ call[t].cmd = 4 => Tee(t)!SmcFree(call[t].buf)
           /\ call[t].cmd = 5 => Tee(t)!SmcFreeWhole
<1>1. 0 # 1 /\ 0 # 2 /\ 0 # 3 /\ 0 # 4 /\ 0 # 5 /\ 1 # 2 /\ 1 # 3 /\ 1 # 4 /\ 1 # 5
      /\ 2 # 3 /\ 2 # 4 /\ 2 # 5 /\ 3 # 4 /\ 3 # 5 /\ 4 # 5
  OBVIOUS
<1> QED
  BY <1>1, Zenon DEF CallMonitor

\* Whatever the SMC, the table goes on holding the threads' words, only the
\* caller may have got a slot, and what a restore returns is what was due.
LEMMA SmcTable ==
    ASSUME WordsInv, NEW t \in Tid, Smc(t)
    PROVE  /\ TableInv(slots', view')
           /\ \A u \in Tid \ {t} : NoSlotOf(slots, u) => NoSlotOf(slots', u)
           /\ call[t].cmd = 3 /\ Returned(reply'[t]) => reply'[t].lr = due'[t]
<1> DEFINE Goal == /\ TableInv(slots', view')
                   /\ \A u \in Tid \ {t} : NoSlotOf(slots, u) => NoSlotOf(slots', u)
                   /\ call[t].cmd = 3 /\ Returned(reply'[t]) => reply'[t].lr = due'[t]
<1> SUFFICES Goal
  OBVIOUS
<1>1. PICK r \in Answers(t) : /\ reply' = [reply EXCEPT ![t] = r]
                              /\ CallMonitor(t) /\ Remember(t, r)
  BY DEF Smc
<1>2. reply'[t] = r /\ reply[t]' = r
  BY <1>1 DEF WordsInv
<1>3. /\ call[t].cmd \in 0 .. 5
      /\ call[t].cmd = 2 => call[t].user \in Addr
      /\ call[t].buf = IF call[t].arrived THEN call[t].user ELSE 0
      /\ call[t].cmd = 1 => NoSlotOf(slots, t)
  BY DEF Smc, WordsInv, GoodCall
<1>4. TableInv(slots, view) /\ slots \in Table /\ view \in [Tid -> Seq(Word)]
  BY DEF WordsInv, TableInv
<1>5. t # 0
  BY TidAssumption
<1>6. CASE call[t].cmd = 0
  <2>1. slots' = slots /\ r.call = "other"
    BY <1>1, <1>2, <1>6, MonitorCalls, OtherStep DEF Answered
  <2>2. view' = view
    BY <1>1, <2>1, RememberStep
  <2> QED
    BY <1>4, <1>6, <2>1, <2>2
<1>7. CASE call[t].cmd = 1
  <2> DEFINE i == FreeSlot(slots)
  <2>1. /\ slots' = IF i = NotFound THEN slots
                    ELSE [slots EXCEPT ![i] = Claimed(slots[i], t)]
        /\ r.call = "init"
    <3>1. Tee(t)!SmcInit(t)
      BY <1>1, <1>7, MonitorCalls
    <3> HIDE DEF i
    <3>2. /\ slots' = IF i = NotFound THEN slots
                      ELSE [slots EXCEPT ![i] = Claimed(slots[i], t)]
          /\ reply[t]' = Answered("init", t, i, 0)
      BY <3>1, InitStep DEF i
    <3> QED
      BY <1>2, <3>2 DEF Answered
  <2>2. view' = [view EXCEPT ![t] = << >>]
    BY <1>1, <2>1, RememberStep
  <2> HIDE DEF i
  <2>3. TableInv(slots', view')
    BY <1>3, <1>4, <1>7, <2>1, <2>2, TableClaimed DEF i
  <2>4. \A j \in SlotIndex : slots'[j].thread_id \in {t, slots[j].thread_id}
    BY <1>4, <2>1 DEF Table, Claimed
  <2> QED
    BY <1>7, <2>3, <2>4 DEF NoSlotOf
<1>8. CASE call[t].cmd = 2
  <2> DEFINE i == FindSlot(slots, t)
             w == call[t].buf
  <2>1. w \in Word
    BY <1>3, <1>8 DEF Word
  <2>2. CASE /\ r \in {Answered("save", t, NotFound, 0), Answered("save", t, StackEnd, 0)}
             /\ slots' = slots
    <3>1. r.call = "save" /\ ~ Accepted(r)
      BY <2>2, SizesAssumption DEF Answered, Accepted, SlotIndex, NotFound, StackEnd
    <3>2. view' = view
      BY <1>1, <3>1, RememberStep
    <3> QED
      BY <1>4, <1>8, <2>2, <3>2
  <2>3. CASE /\ i # NotFound
             /\ slots' = [slots EXCEPT ![i].stack = Pushed(@, w)]
             /\ r = Answered("save", t, i, 0)
    <3>1. i \in SlotIndex /\ slots[i].thread_id = t
      BY <1>4, <2>3, FindSlotProperties
    <3>2. Accepted(r)
      BY <2>3, <3>1 DEF Accepted, Answered
    <3>3. slots[i].stack = view[t] /\ slots[i].stack \in Seq(Word)
      BY <1>4, <1>5, <3>1, SlotWords DEF TableInv, Holds
    <3> DEFINE s == Append(view[t], w)
    <3>4. s \in Seq(Word)
      BY <2>1, <3>3, AppendProperties
    <3>5. view' = [view EXCEPT ![t] = s]
      BY <1>1, <1>3, <3>2, RememberStep
    <3>6. slots' = [slots EXCEPT ![i].stack = s]
      BY <1>4, <2>3, <3>1, <3>3 DEF Pushed, Table
    <3> HIDE DEF s, i
    <3>7. TableInv(slots', view')
      BY <1>4, <3>1, <3>4, <3>5, <3>6, TableMoved
    <3>8. \A j \in SlotIndex : slots'[j].thread_id = slots[j].thread_id
      BY <1>4, <3>1, <3>6 DEF Table, Slot
    <3> QED
      BY <1>8, <3>7, <3>8 DEF NoSlotOf
  <2> QED
    BY <1>1, <1>2, <1>8, <2>2, <2>3, MonitorCalls, AddLrStep
<1>9. CASE call[t].cmd = 3
  <2> DEFINE i == FindSlot(slots, t)
  <2>1. CASE /\ r \in {Answered("restore", t, 0, NotFound), Answered("restore", t, 0, StackEnd)}
             /\ slots' = slots
    <3>1. r.call = "restore" /\ ~ Returned(r)
      BY <2>1, AddrAssumption DEF Answered, Returned, Word, NotFound, StackEnd
    <3>2. view' = view
      BY <1>1, <3>1, RememberStep
    <3> QED
      BY <1>2, <1>4, <2>1, <3>1, <3>2
  <2>2. CASE /\ i # NotFound
             /\ slots[i].stack # << >>
             /\ slots' = [slots EXCEPT ![i].stack = Popped(@)]
             /\ r = Answered("restore", t, 0, TopWord(slots[i].stack))
    <3>1. i \in SlotIndex /\ slots[i].thread_id = t
      BY <1>4, <2>2, FindSlotProperties
    <3>2. slots[i].stack = view[t] /\ slots[i].stack \in Seq(Word)
      BY <1>4, <1>5, <3>1, SlotWords DEF TableInv, Holds
    <3> DEFINE s == Popped(view[t])
    <3>3. s \in Seq(Word) /\ TopWord(view[t]) \in Word
      BY <2>2, <3>2, PoppedProperties
    <3>4. Returned(r) /\ r.lr = TopWord(view[t])
      BY <2>2, <3>2, <3>3 DEF Returned, Answered
    <3>5. /\ view' = [view EXCEPT ![t] = s]
          /\ due' = [due EXCEPT ![t] = TopWord(view[t])]
      BY <1>1, <2>2, <3>2, <3>4, RememberStep
    <3>6. slots' = [slots EXCEPT ![i].stack = s]
      BY <1>4, <2>2, <3>1, <3>2 DEF Table
    <3>7. due'[t] = TopWord(view[t])
      BY <3>5 DEF WordsInv
    <3> HIDE DEF s, i
    <3>8. TableInv(slots', view')
      BY <1>4, <3>1, <3>3, <3>5, <3>6, TableMoved
    <3>9. \A j \in SlotIndex : slots'[j].thread_id = slots[j].thread_id
      BY <1>4, <3>1, <3>6 DEF Table, Slot
    <3> QED
      BY <1>2, <3>4, <3>7, <3>8, <3>9 DEF NoSlotOf
  <2> QED
    BY <1>1, <1>2, <1>9, <2>1, <2>2, MonitorCalls, RestoreLrStep
<1>10. CASE call[t].cmd = 4
  <2> DEFINE i == FindSlot(slots, call[t].buf)
  <2>1. /\ slots' = IF i = NotFound THEN slots ELSE [slots EXCEPT ![i].flag = 0]
        /\ r.call = "free"
    <3>1. Tee(t)!SmcFree(call[t].buf)
      BY <1>1, <1>10, MonitorCalls
    <3> HIDE DEF i
    <3>2. /\ slots' = IF i = NotFound THEN slots ELSE [slots EXCEPT ![i].flag = 0]
          /\ reply[t]' = Answered("free", call[t].buf, i, 0)
      BY <3>1, FreeStep DEF i
    <3> QED
      BY <1>2, <3>2 DEF Answered
  <2>2. view' = view
    BY <1>1, <2>1, RememberStep
  <2>3. i # NotFound => i \in SlotIndex
    BY <1>4, FindSlotProperties
  <2> HIDE DEF i
  <2>4. TableInv(slots', view')
    BY <1>4, <2>1, <2>2, <2>3, TableReleased
  <2>5. \A j \in SlotIndex : slots'[j].thread_id = slots[j].thread_id
    BY <1>4, <2>1, <2>3 DEF Table, Slot
  <2> QED
    BY <1>10, <2>4, <2>5 DEF NoSlotOf
<1>11. CASE call[t].cmd = 5
  <2>1. slots' = ZeroTable /\ r.call = "reset"
    BY <1>1, <1>2, <1>11, MonitorCalls, ResetStep DEF Answered
  <2>2. view' = [u \in Tid |-> << >>]
    BY <1>1, <2>1, RememberStep
  <2>3. TableInv(slots', view')
    BY <2>1, <2>2, TableZero
  <2> QED
    BY <1>11, <2>1, <2>3, TidAssumption DEF NoSlotOf, ZeroTable, EmptySlot
<1> QED
  BY <1>3, <1>6, <1>7, <1>8, <1>9, <1>10, <1>11

-----------------------------------------------------------------------------
(* One lemma per step.                                                     *)

LEMMA WordsInit == Init => WordsInv
<1> SUFFICES ASSUME Init PROVE WordsInv
  OBVIOUS
<1>1. CallShape
  BY BuffersInit DEF BuffersInv
<1>2. TableInv(slots, view)
  BY TableZero DEF Init
<1>3. ASSUME NEW t \in Tid PROVE GoodCall(t, call[t], reply[t], due[t], slots)
  BY DEF Init, GoodCall, NoCall
<1> QED
  BY <1>1, <1>2, <1>3 DEF Init, WordsInv

\* A step of t leaves the other threads' calls as good as they were.
LEMMA OthersGood ==
    ASSUME WordsInv, NEW t \in Tid, TableInv(slots', view'), CallShape',
           reply' = [u \in Tid |-> reply'[u]], due' = [u \in Tid |-> due'[u]],
           \A u \in Tid \ {t} : /\ call'[u] = call[u] /\ reply'[u] = reply[u]
                                /\ due'[u] = due[u]
                                /\ NoSlotOf(slots, u) => NoSlotOf(slots', u),
           GoodCall(t, call'[t], reply'[t], due'[t], slots')
    PROVE  WordsInv'
<1>1. ASSUME NEW u \in Tid \ {t}
      PROVE  GoodCall(u, call'[u], reply'[u], due'[u], slots')
  BY <1>1 DEF WordsInv, GoodCall
<1>2. \A u \in Tid : GoodCall(u, call'[u], reply'[u], due'[u], slots')
  BY <1>1
<1>3. ASSUME NEW tab, NEW v PROVE TableInv(tab, v)' <=> TableInv(tab, v)
  BY DEF TableInv, Unowned, OneEach, Holds
<1> QED
  BY <1>2 DEF WordsInv, TableInv, Unowned, OneEach, Holds, GoodCall, NoSlotOf, Returned

\* A step that is the call's only.
LEMMA CallOnly ==
    ASSUME WordsInv, NEW t \in Tid, UNCHANGED monitor, OnlyCall(t),
           GoodCall(t, call'[t], reply[t], due[t], slots)
    PROVE  WordsInv'
<1>1. slots' = slots /\ reply' = reply /\ view' = view /\ due' = due
  BY DEF monitor
<1>2. CallShape' /\ \A u \in Tid \ {t} : call'[u] = call[u]
  BY CallShapeStep DEF WordsInv
<1>3. TableInv(slots', view') /\ GoodCall(t, call'[t], reply'[t], due'[t], slots')
  BY <1>1 DEF WordsInv
<1> QED
  BY <1>1, <1>2, <1>3, OthersGood DEF WordsInv

LEMMA EnterWords ==
    ASSUME WordsInv, NEW t \in Tid, NEW c \in 0 .. Unknown - 1,
           NEW w \in Arguments(c), Enter(t, c, w)
    PROVE  WordsInv'
<1> DEFINE d == call'[t]
<1>1. d.pc = FirstStep(c) /\ d.cmd = c /\ d.user = w /\ d.buf = 0 /\ d.arrived = FALSE
  BY DEF Enter, WordsInv, CallShape, NoCall, FreshBuffer
<1>2. c = 1 => NoSlotOf(slots, t)
  BY FindSlotProperties DEF Enter, MayCall, NoSlotOf, WordsInv, TableInv
<1>3. d.pc \in {"copyin", "smc"} => c \in 0 .. 5
  BY <1>1 DEF FirstStep, Silent, CopiesIn, Unknown
<1>4. c = 2 => w \in Addr
  BY DEF Arguments
<1>5. d.pc \notin {"copyout"} /\ (d.pc = "return" => c = 6)
  BY <1>1 DEF FirstStep, Silent
<1> HIDE DEF d
<1>6. GoodCall(t, d, reply[t], due[t], slots)
  <2>1. d.pc \in {"copyin", "smc"} =>
           /\ d.cmd \in 0 .. 5
           /\ d.cmd = 2 => d.user \in Addr
           /\ d.buf = IF d.arrived THEN d.user ELSE 0
           /\ d.arrived \in BOOLEAN
           /\ d.cmd = 1 => NoSlotOf(slots, t)
    BY <1>1, <1>2, <1>3, <1>4
  <2>2. ~ d.arrived
    BY <1>1
  <2>3. d.pc # "copyout" /\ (d.pc = "return" => d.cmd # 3)
    BY <1>1, <1>5
  <2> QED
    BY <2>1, <2>2, <2>3 DEF GoodCall
<1>7. OnlyCall(t) /\ UNCHANGED monitor
  BY EnterCall DEF Enter, WordsInv
<1> QED
  BY <1>6, <1>7, CallOnly DEF d

LEMMA CopyInWords ==
    ASSUME WordsInv, NEW t \in Tid, CopyIn(t) PROVE WordsInv'
<1> DEFINE c == call[t]
           d == call'[t]
<1>1. c = [f \in Field |-> c[f]] /\ call = [u \in Tid |-> call[u]] /\ c.pc = "copyin"
  BY DEF WordsInv, CallShape, IsCall, CopyIn
<1>2. /\ d.pc = "smc" /\ d.cmd = c.cmd /\ d.user = c.user
      /\ \/ d.buf = c.user /\ d.arrived = TRUE
         \/ d.buf = c.buf /\ d.arrived = c.arrived
  BY <1>1 DEF CopyIn, Field
<1>3. GoodCall(t, c, reply[t], due[t], slots)
  BY DEF WordsInv
<1> HIDE DEF c, d
<1>4. GoodCall(t, d, reply[t], due[t], slots)
  BY <1>1, <1>2, <1>3 DEF GoodCall
<1>5. OnlyCall(t) /\ UNCHANGED monitor
  BY CopyInCall DEF CopyIn, WordsInv
<1> QED
  BY <1>4, <1>5, CallOnly DEF d

LEMMA CopyOutWords ==
    ASSUME WordsInv, NEW t \in Tid, CopyOut(t) PROVE WordsInv'
<1> DEFINE c == call[t]
           d == call'[t]
<1>1. c = [f \in Field |-> c[f]] /\ call = [u \in Tid |-> call[u]] /\ c.pc = "copyout"
  BY DEF WordsInv, CallShape, IsCall, CopyOut
<1>2. /\ d.pc = "return" /\ d.cmd = c.cmd
      /\ d.user = ToUser(t) \/ d.ret = NotCopied
  BY <1>1 DEF CopyOut, Field
<1>3. c.cmd = 3 /\ Returned(reply[t]) => ToUser(t) = due[t]
  BY <1>1 DEF WordsInv, GoodCall, ToUser
<1> HIDE DEF c, d
<1>4. GoodCall(t, d, reply[t], due[t], slots)
  BY <1>2, <1>3 DEF GoodCall
<1>5. OnlyCall(t) /\ UNCHANGED monitor
  BY CopyOutCall DEF CopyOut, WordsInv
<1> QED
  BY <1>4, <1>5, CallOnly DEF d

LEMMA SmcWords ==
    ASSUME WordsInv, NEW t \in Tid, Smc(t) PROVE WordsInv'
<1> DEFINE d == call'[t]
<1>1. PICK r \in Answers(t) :
         /\ reply' = [reply EXCEPT ![t] = r]
         /\ Remember(t, r)
         /\ call' = [call EXCEPT ![t] =
                        [NoCall EXCEPT !.cmd = call[t].cmd, !.ret = r.ret,
                           !.pc = IF call[t].cmd \in CopiesOut THEN "copyout" ELSE "return"]]
  BY DEF Smc
<1>2. d.cmd = call[t].cmd /\ d.pc = IF call[t].cmd \in CopiesOut THEN "copyout" ELSE "return"
  BY <1>1 DEF WordsInv, CallShape, NoCall
<1>3. /\ reply' = [u \in Tid |-> reply'[u]]
      /\ \A u \in Tid \ {t} : reply'[u] = reply[u]
  BY <1>1 DEF WordsInv
<1>4. /\ due' = [u \in Tid |-> due'[u]]
      /\ \A u \in Tid \ {t} : due'[u] = due[u]
  <2>1. \/ due' = [due EXCEPT ![t] = TopWord(view[t])]
        \/ due' = due
    BY <1>1 DEF Remember
  <2> QED
    BY <2>1 DEF WordsInv
<1>5. CallShape' /\ \A u \in Tid \ {t} : call'[u] = call[u]
  BY SmcCall, CallShapeStep DEF WordsInv
<1> HIDE DEF d
<1>6. GoodCall(t, d, reply'[t], due'[t], slots')
  BY <1>2, SmcTable DEF GoodCall, CopiesOut
<1> QED
  BY <1>3, <1>4, <1>5, <1>6, SmcTable, OthersGood DEF d

LEMMA ReturnWords ==
    ASSUME WordsInv, NEW t \in Tid, Return(t) PROVE WordsInv'
<1>1. /\ call' = [call EXCEPT ![t] = NoCall] /\ reply' = [reply EXCEPT ![t] = NoReply]
      /\ due' = [due EXCEPT ![t] = 0] /\ slots' = slots /\ view' = view
  BY DEF Return
<1>2. CallShape' /\ \A u \in Tid \ {t} : call'[u] = call[u]
  BY ReturnCall, CallShapeStep DEF WordsInv
<1>3. /\ reply' = [u \in Tid |-> reply'[u]] /\ due' = [u \in Tid |-> due'[u]]
      /\ \A u \in Tid \ {t} : reply'[u] = reply[u] /\ due'[u] = due[u]
  BY <1>1 DEF WordsInv
<1>4. call'[t].pc = "user"
  BY <1>1 DEF WordsInv, CallShape, NoCall
<1>5. GoodCall(t, call'[t], reply'[t], due'[t], slots')
  BY <1>4 DEF GoodCall
<1>6. TableInv(slots', view')
  BY <1>1 DEF WordsInv
<1> QED
  BY <1>1, <1>2, <1>3, <1>5, <1>6, OthersGood

LEMMA WordsStep == WordsInv /\ [Next]_vars => WordsInv'
<1> SUFFICES ASSUME WordsInv, [Next]_vars PROVE WordsInv'
  OBVIOUS
<1>1. CASE UNCHANGED << monitor, call >>
  BY <1>1 DEF monitor, WordsInv, CallShape, TableInv, Unowned, OneEach, Holds, GoodCall,
              NoSlotOf, Returned
<1>2. ASSUME NEW t \in Tid, NEW c \in 0 .. Unknown - 1, NEW w \in Arguments(c),
             Enter(t, c, w)
      PROVE  WordsInv'
  BY <1>2, EnterWords
<1>3. ASSUME NEW t \in Tid, CopyIn(t) PROVE WordsInv'
  BY <1>3, CopyInWords
<1>4. ASSUME NEW t \in Tid, Smc(t) PROVE WordsInv'
  BY <1>4, SmcWords
<1>5. ASSUME NEW t \in Tid, CopyOut(t) PROVE WordsInv'
  BY <1>5, CopyOutWords
<1>6. ASSUME NEW t \in Tid, Return(t) PROVE WordsInv'
  BY <1>6, ReturnWords
<1>7. ASSUME NEW t \in Tid, EnterUnknown(t) PROVE WordsInv'
  BY <1>1, <1>7 DEF EnterUnknown
<1>8. CASE \/ teeplc_init \/ teeplc_exit \/ OtherDriver
           \/ OpenDevice \/ ProcessEnds
  BY <1>1, <1>8 DEF teeplc_init, teeplc_exit, OtherDriver, OpenDevice, ProcessEnds
<1>9. CASE UNCHANGED vars
  BY <1>1, <1>9 DEF vars
<1> QED
  BY <1>2, <1>3, <1>4, <1>5, <1>6, <1>7, <1>8, <1>9 DEF Next

-----------------------------------------------------------------------------

\* teeplc.c 57-212 over std_svc_setup.c: the inductive invariant of the words.
THEOREM WordsKept == Spec => []WordsInv
BY WordsInit, WordsStep, PTL DEF Spec

\* teeplc.c 57-212: whatever runs between a thread's copies and its SMC, the
\* monitor holds for it the words it gave itself, in order.
THEOREM OwnWordsHeld == Spec => []HoldsOwnWords
<1>1. WordsInv => HoldsOwnWords
  <2> SUFFICES ASSUME WordsInv, NEW t \in Tid, FindSlot(slots, t) # NotFound
               PROVE  slots[FindSlot(slots, t)].stack = view[t]
    BY DEF HoldsOwnWords
  <2>1. FindSlot(slots, t) \in SlotIndex /\ slots[FindSlot(slots, t)].thread_id = t
    BY FindSlotProperties DEF WordsInv, TableInv
  <2> QED
    BY <2>1, TidAssumption DEF WordsInv, TableInv, Holds
<1> QED
  BY <1>1, WordsKept, PTL

\* teeplc.c 148-162: a restore whose copy succeeds gives the caller the word
\* it saved last, although other threads' SMCs run before its copy_to_user.
THEOREM OwnWordDelivered == Spec => []DeliversOwnWord
<1>1. WordsInv => DeliversOwnWord
  BY DEF WordsInv, GoodCall, DeliversOwnWord
<1> QED
  BY <1>1, WordsKept, PTL

-----------------------------------------------------------------------------
(* Releases.                                                               *)

Released(i) == slots[i].flag = 1 /\ slots'[i].flag = 0

\* The caller of the SMC asked for the release of slot i.
Asked(t, i) == \/ call[t].cmd = 5
               \/ /\ call[t].cmd = 4 /\ call[t].arrived
                  /\ call[t].user = slots[i].thread_id

LEMMA SmcReleases ==
    ASSUME WordsInv, NEW t \in Tid, Smc(t), NEW i \in SlotIndex, Released(i)
    PROVE  Asked(t, i)
<1>1. PICK r \in Answers(t) : reply' = [reply EXCEPT ![t] = r] /\ CallMonitor(t)
  BY DEF Smc
<1>2. /\ call[t].cmd \in 0 .. 5
      /\ call[t].buf = IF call[t].arrived THEN call[t].user ELSE 0
  BY DEF Smc, WordsInv, GoodCall
<1>3. slots \in Table /\ Unowned(slots)
  BY DEF WordsInv, TableInv
<1>4. slots'[i].flag # slots[i].flag
  BY DEF Released
<1>5. CASE call[t].cmd = 0
  BY <1>1, <1>4, <1>5, MonitorCalls, OtherStep
<1>6. CASE call[t].cmd = 1
  <2> DEFINE j == FreeSlot(slots)
  <2>1. Tee(t)!SmcInit(t)
    BY <1>1, <1>6, MonitorCalls
  <2> HIDE DEF j
  <2>2. slots' = IF j = NotFound THEN slots ELSE [slots EXCEPT ![j] = Claimed(slots[j], t)]
    BY <2>1, InitStep DEF j
  <2> QED
    BY <1>3, <2>2 DEF Released, Claimed, Table
<1>7. CASE call[t].cmd = 2
  <2>1. Tee(t)!SmcAddLr(t, call[t].buf)
    BY <1>1, <1>7, MonitorCalls
  <2>2. \/ slots' = slots
        \/ \E j, s : slots' = [slots EXCEPT ![j].stack = s]
    BY <2>1, AddLrStep
  <2> QED
    BY <1>3, <1>4, <2>2, StackChanged
<1>8. CASE call[t].cmd = 3
  <2>1. Tee(t)!SmcRestoreLr(t)
    BY <1>1, <1>8, MonitorCalls
  <2>2. \/ slots' = slots
        \/ \E j, s : slots' = [slots EXCEPT ![j].stack = s]
    BY <2>1, RestoreLrStep
  <2> QED
    BY <1>3, <1>4, <2>2, StackChanged
<1>9. CASE call[t].cmd = 4
  <2> DEFINE j == FindSlot(slots, call[t].buf)
  <2>1. Tee(t)!SmcFree(call[t].buf)
    BY <1>1, <1>9, MonitorCalls
  <2> HIDE DEF j
  <2>2. slots' = IF j = NotFound THEN slots ELSE [slots EXCEPT ![j].flag = 0]
    BY <2>1, FreeStep DEF j
  <2>3. j = i /\ j # NotFound
    BY <1>3, <1>4, <2>2 DEF Table, Slot
  <2>4. slots[i].thread_id = call[t].buf
    BY <1>3, <2>3, FindSlotProperties DEF j
  <2>5. slots[i].thread_id # 0
    BY <1>3 DEF Released, Unowned
  <2> QED
    BY <1>2, <1>9, <2>4, <2>5 DEF Asked
<1>10. CASE call[t].cmd = 5
  BY <1>10 DEF Asked
<1> QED
  BY <1>2, <1>5, <1>6, <1>7, <1>8, <1>9, <1>10

AskedRelease == \A i \in SlotIndex :
                   slots[i].flag = 1 /\ slots'[i].flag = 0
                      => \E t \in Tid :
                            /\ call[t].pc = "smc" /\ call'[t].pc = "return"
                            /\ \/ call[t].cmd = 5
                               \/ /\ call[t].cmd = 4 /\ call[t].arrived
                                  /\ call[t].user = slots[i].thread_id

LEMMA ReleaseStep == WordsInv /\ [Next]_vars => AskedRelease
<1> SUFFICES ASSUME WordsInv, [Next]_vars, NEW i \in SlotIndex, Released(i)
             PROVE  \E t \in Tid : /\ call[t].pc = "smc" /\ call'[t].pc = "return"
                                   /\ Asked(t, i)
  BY DEF AskedRelease, Released, Asked
<1>1. slots' # slots
  BY DEF Released
<1>2. ASSUME UNCHANGED monitor PROVE FALSE
  BY <1>1, <1>2 DEF monitor
<1>3. ~ UNCHANGED vars /\ ~ (teeplc_init \/ teeplc_exit \/ OtherDriver \/ OpenDevice \/ ProcessEnds)
  BY <1>2 DEF vars, teeplc_init, teeplc_exit, OtherDriver, OpenDevice, ProcessEnds
<1>4. ASSUME NEW t \in Tid
      PROVE  /\ ~ (EnterUnknown(t) \/ CopyIn(t) \/ CopyOut(t) \/ Return(t))
             /\ ~ \E c, w : Enter(t, c, w)
  BY <1>1, <1>2 DEF Enter, EnterUnknown, CopyIn, CopyOut, Return
<1>5. PICK t \in Tid : Smc(t)
  BY <1>3, <1>4 DEF Next
<1>6. Asked(t, i)
  BY <1>5, SmcReleases
<1>7. call'[t].pc = "return"
  <2>1. call[t].cmd \notin CopiesOut
    BY <1>6 DEF Asked, CopiesOut
  <2>2. PICK r : call' = [call EXCEPT ![t] =
                             [NoCall EXCEPT !.cmd = call[t].cmd, !.ret = r.ret,
                                !.pc = IF call[t].cmd \in CopiesOut THEN "copyout" ELSE "return"]]
    BY <1>5 DEF Smc
  <2> QED
    BY <2>1, <2>2 DEF WordsInv, CallShape, NoCall
<1> QED
  BY <1>5, <1>6, <1>7 DEF Smc

\* teeplc.c 165-173: a stack is released only by a call that named its
\* thread, or that resets the table; a release whose copy fails releases none.
THEOREM ReleasesAsked == Spec => ReleasedAsAsked
BY WordsKept, ReleaseStep, PTL DEF Spec, ReleasedAsAsked, AskedRelease

-----------------------------------------------------------------------------
(* Types: the kernel's numbers have a highest one that is free, and what a *)
(* thread fetches is a word or one of the two errors.                      *)

\* Of the finite sets of numbers without a highest one there is a smallest:
\* without one of its members it has one.
LEMMA HighestNumber ==
    ASSUME NEW S \in SUBSET Nat, IsFiniteSet(S), S # {}
    PROVE  \E d \in S : \A e \in S : e =< d
<1> DEFINE Highest(T) == \E d \in T : \A e \in T : e =< d
           Bad(n) == \E T \in SUBSET S : T # {} /\ Cardinality(T) = n /\ ~ Highest(T)
           B == {n \in Nat : Bad(n)}
<1>1. SUFFICES ASSUME ~ Highest(S) PROVE FALSE
  OBVIOUS
<1>2. \A T \in SUBSET S : IsFiniteSet(T) /\ Cardinality(T) \in Nat
  BY FS_Subset, FS_CardinalityType
<1>3. Cardinality(S) \in B
  BY <1>1, <1>2
<1> DEFINE n == FirstIn(B)
<1>4. n \in B /\ \A m \in B : n =< m
  BY <1>3, FirstInProperties
<1> HIDE DEF n
<1>5. PICK T \in SUBSET S : T # {} /\ Cardinality(T) = n /\ ~ Highest(T)
  BY <1>4
<1>6. PICK x \in T : TRUE
  BY <1>5
<1> DEFINE U == T \ {x}
<1>7. U \in SUBSET S /\ Cardinality(U) = n - 1 /\ n \in Nat
  BY <1>2, <1>4, <1>5, <1>6, FS_RemoveElement
<1>8. U # {}
  <2>1. U = {} => \A e \in T : e =< x
    BY <1>6
  <2> QED
    BY <1>5, <1>6, <2>1
<1>9. Highest(U)
  <2>1. n - 1 \notin B
    BY <1>4, <1>7
  <2>2. n - 1 \in Nat
    BY <1>2, <1>7
  <2> QED
    BY <1>7, <1>8, <2>1, <2>2
<1>10. PICK y \in U : \A e \in U : e =< y
  BY <1>9
<1>11. x \in Nat /\ y \in Nat /\ \A e \in T : e \in Nat
  BY <1>6, <1>7, <1>10
<1>12. CASE x =< y
  BY <1>5, <1>10, <1>11, <1>12
<1>13. CASE y =< x
  <2>1. \A e \in T : e =< x
    BY <1>10, <1>11, <1>13
  <2> QED
    BY <1>5, <1>6, <2>1
<1> QED
  BY <1>11, <1>12, <1>13

LEMMA DynamicHighest ==
    ASSUME Free # {}
    PROVE  Dynamic \in Free /\ \A e \in Free : e =< Dynamic
<1>1. Free \in SUBSET Nat /\ IsFiniteSet(Free)
  BY DriverAssumption, FS_Subset DEF Free
<1>2. \E d \in Free : \A e \in Free : e =< d
  BY <1>1, HighestNumber
<1> QED
  BY <1>2 DEF Dynamic

ModuleTypes == /\ cdev \in Majors \cup {0} /\ node \in Majors \cup {0}
               /\ taken \subseteq Majors \ {cdev}
               /\ lost \subseteq Majors \ (taken \cup {cdev})
               /\ leaked \in 0 .. MaxLeaked

\* The numbers above the node's were not free when it was made.
NodeInv == /\ ModuleTypes
           /\ taken \subseteq held
           /\ node # 0 => \A d \in Majors : d > node => d \in held \cup lost
           /\ NodeLeadsBack

LEMMA LoadStep ==
    ASSUME NodeInv, teeplc_init
    PROVE  NodeInv'
<1> DEFINE d == Dynamic
<1>1. /\ cdev = 0 /\ Free # {}
      /\ UNCHANGED << taken, held, leaked >>
      /\ \/ cdev' = d /\ node' = (IF node = 0 THEN d ELSE node) /\ lost' = lost
         \/ lost' = lost \cup {d} /\ UNCHANGED << cdev, node >>
  BY DEF teeplc_init, Created
<1>2. /\ d \in Majors /\ d \notin taken \cup lost
      /\ \A e \in Majors : e \in taken \cup lost \/ e =< d
  <2>1. Free = Majors \ (taken \cup lost)
    BY <1>1, DriverAssumption DEF Free
  <2> QED
    BY <1>1, <2>1, DynamicHighest
<1> HIDE DEF d
<1>3. Majors \subseteq Nat \ {0} /\ 0 \notin Majors
  BY DriverAssumption
<1>4. ModuleTypes'
  BY <1>1, <1>2, <1>3 DEF NodeInv, ModuleTypes
<1>5. CASE lost' = lost \cup {d} /\ UNCHANGED << cdev, node >>
  BY <1>1, <1>4, <1>5 DEF NodeInv, NodeLeadsBack
<1>6. CASE cdev' = d /\ node' = (IF node = 0 THEN d ELSE node) /\ lost' = lost
  <2>1. node' # 0 => \A e \in Majors : e > node' => e \in held' \cup lost'
    <3>1. CASE node = 0
      BY <1>1, <1>2, <1>3, <1>6, <3>1 DEF NodeInv
    <3>2. CASE node # 0
      BY <1>1, <1>6, <3>2 DEF NodeInv
    <3> QED
      BY <3>1, <3>2
  <2>2. NodeLeadsBack'
    <3> SUFFICES ASSUME node' # d
                 PROVE  \/ node' > d /\ node' \in held' \cup lost'
                        \/ node' < d /\ d \in held'
      BY <1>6 DEF NodeLeadsBack
    <3>1. node' = node /\ node \in Majors /\ node # 0
      BY <1>6, <1>3 DEF NodeInv, ModuleTypes
    <3>2. node > d \/ node < d
      BY <1>2, <1>3, <3>1
    <3>3. CASE node > d
      <4>1. node \in taken \cup lost
        BY <1>2, <1>3, <3>1, <3>3
      <4> QED
        BY <1>1, <1>6, <3>1, <3>3, <4>1 DEF NodeInv
    <3>4. CASE node < d
      <4>1. d \in held \cup lost
        BY <1>2, <1>3, <3>1, <3>4 DEF NodeInv
      <4> QED
        BY <1>1, <1>2, <3>1, <3>4, <4>1
    <3> QED
      BY <3>2, <3>3, <3>4
  <2> QED
    BY <1>1, <1>4, <1>6, <2>1, <2>2 DEF NodeInv
<1> QED
  BY <1>1, <1>5, <1>6

LEMMA NodeStep == NodeInv /\ [Next]_vars => NodeInv'
<1> SUFFICES ASSUME NodeInv, [Next]_vars PROVE NodeInv'
  OBVIOUS
<1>1. CASE UNCHANGED << module, leaked >>
  BY <1>1 DEF module, NodeInv, ModuleTypes, NodeLeadsBack
<1>2. CASE teeplc_init
  BY <1>2, LoadStep
<1>3. CASE teeplc_exit
  BY <1>3, DriverAssumption DEF teeplc_exit, NodeInv, ModuleTypes, NodeLeadsBack
<1>4. CASE OtherDriver
  <2>1. /\ UNCHANGED << cdev, lost, node, leaked >> /\ held \subseteq held'
        /\ taken' \subseteq held' /\ taken' \subseteq Majors \ {cdev}
        /\ lost \subseteq Majors \ (taken' \cup {cdev})
    BY <1>4 DEF OtherDriver, Free, NodeInv, ModuleTypes
  <2> QED
    BY <2>1 DEF NodeInv, ModuleTypes, NodeLeadsBack
<1>5. ASSUME NEW t \in Tid, EnterUnknown(t) PROVE NodeInv'
  <2>1. /\ UNCHANGED module /\ leaked' \in 0 .. MaxLeaked
    BY <1>5, DriverAssumption DEF EnterUnknown, NodeInv, ModuleTypes
  <2> QED
    BY <2>1 DEF module, NodeInv, ModuleTypes, NodeLeadsBack
<1>6. CASE OpenDevice \/ ProcessEnds
  BY <1>1, <1>6 DEF OpenDevice, ProcessEnds
<1>7. ASSUME NEW t \in Tid,
             \/ \E c \in 0 .. Unknown - 1 : \E w \in Arguments(c) : Enter(t, c, w)
             \/ CopyIn(t) \/ Smc(t) \/ CopyOut(t) \/ Return(t)
      PROVE  NodeInv'
  BY <1>1, <1>7 DEF Enter, CopyIn, Smc, CopyOut, Return
<1>8. CASE UNCHANGED vars
  BY <1>1, <1>8 DEF vars
<1> QED
  BY <1>2, <1>3, <1>4, <1>5, <1>6, <1>7, <1>8 DEF Next

LEMMA NodeInit == Init => NodeInv
BY DriverAssumption DEF Init, NodeInv, ModuleTypes, NodeLeadsBack

\* teeplc.c 222-285: the driver comes back under the number of its node unless
\* others held one of the two numbers or a load lost the node's.
THEOREM NodeFound == Spec => []NodeLeadsBack
<1>1. NodeInv => NodeLeadsBack
  BY DEF NodeInv
<1> QED
  BY <1>1, NodeInit, NodeStep, PTL DEF Spec

\* The argument of a call on its way in is no error yet, the answer on its
\* way out may be one.
CallTypes(c, r) ==
    /\ c \in Calls
    /\ c.pc = "copyin" => c.user \in Word \cup AnyTid
    /\ c.pc = "copyout" => r.lr \in Word \cup {NotFound, StackEnd}

TypesInv == /\ WordsInv /\ BuffersInv /\ NodeInv
            /\ \A t \in Tid : CallTypes(call[t], reply[t])

LEMMA NoCallType == NoCall \in Calls
BY DEF NoCall, Calls, Word, Unknown

LEMMA EnterTypes ==
    ASSUME WordsInv, NEW t \in Tid, NEW c \in 0 .. Unknown - 1,
           NEW w \in Arguments(c), Enter(t, c, w)
    PROVE  CallTypes(call'[t], reply'[t])
<1> DEFINE d == [NoCall EXCEPT !.pc = FirstStep(c), !.cmd = c, !.user = w, !.buf = FreshBuffer]
<1>1. call'[t] = d
  BY DEF Enter, WordsInv, CallShape
<1>2. w \in Word \cup AnyTid
  BY DEF Arguments, Word, AnyTid
<1>3. FirstStep(c) \in {"copyin", "smc", "return"}
  BY DEF FirstStep
<1>4. FreshBuffer \in Word \cup AnyTid
  BY DEF FreshBuffer, Word
<1>5. d \in Calls
  BY <1>2, <1>3, <1>4, NoCallType DEF Calls
<1>6. d.pc = FirstStep(c) /\ d.user = w
  BY DEF NoCall
<1> HIDE DEF d
<1> QED
  BY <1>1, <1>2, <1>3, <1>5, <1>6 DEF CallTypes

LEMMA CopyInTypes ==
    ASSUME TypesInv, NEW t \in Tid, CopyIn(t)
    PROVE  CallTypes(call'[t], reply'[t])
<1> DEFINE c == call[t]
           d == [c EXCEPT !.pc = "smc", !.buf = c.user, !.arrived = TRUE]
           e == [c EXCEPT !.pc = "smc"]
<1>1. c \in Calls /\ c.user \in Word \cup AnyTid
  BY DEF TypesInv, CallTypes, CopyIn
<1>2. call'[t] = d \/ call'[t] = e
  BY DEF CopyIn, TypesInv, WordsInv, CallShape
<1> HIDE DEF c
<1>3. d \in Calls /\ d.pc = "smc" /\ e \in Calls /\ e.pc = "smc"
  BY <1>1 DEF Calls
<1> HIDE DEF d, e
<1> QED
  BY <1>2, <1>3 DEF CallTypes

LEMMA SmcTypes ==
    ASSUME TypesInv, NEW t \in Tid, Smc(t)
    PROVE  CallTypes(call'[t], reply'[t])
<1> DEFINE p == IF call[t].cmd \in CopiesOut THEN "copyout" ELSE "return"
           d(r) == [NoCall EXCEPT !.cmd = call[t].cmd, !.ret = r.ret, !.pc = p]
<1>1. PICK r \in Answers(t) : /\ reply' = [reply EXCEPT ![t] = r]
                              /\ call' = [call EXCEPT ![t] = d(r)]
  BY DEF Smc
<1>2. reply'[t] = r /\ call'[t] = d(r)
  BY <1>1 DEF TypesInv, WordsInv, CallShape
<1>3. r.lr \in Word \cup {NotFound, StackEnd} /\ r.ret \in SlotIndex \cup {NotFound, StackEnd}
  BY DEF Answers
<1>4. r.ret \in Int
  BY <1>3, SizesAssumption DEF SlotIndex, NotFound, StackEnd
<1>5. call[t].cmd \in 0 .. Unknown - 1
  BY DEF TypesInv, CallTypes, Calls
<1>6. p \in {"copyout", "return"}
  OBVIOUS
<1> HIDE DEF p
<1>7. d(r) \in Calls
  BY <1>4, <1>5, <1>6, NoCallType DEF Calls
<1>8. d(r).pc = p
  BY DEF NoCall
<1> HIDE DEF d
<1> QED
  BY <1>2, <1>3, <1>6, <1>7, <1>8 DEF CallTypes

LEMMA CallReturns ==
    ASSUME NEW c \in Calls, NEW u \in Word \cup AnyTid \cup {StackEnd}
    PROVE  /\ [c EXCEPT !.pc = "return", !.ret = 0, !.user = u] \in Calls
           /\ [c EXCEPT !.pc = "return", !.ret = 0, !.user = u].pc = "return"
           /\ [c EXCEPT !.pc = "return", !.ret = NotCopied] \in Calls
           /\ [c EXCEPT !.pc = "return", !.ret = NotCopied].pc = "return"
<1>1. NotCopied \in Int
  BY DEF NotCopied
<1>2. [c EXCEPT !.pc = "return", !.ret = 0, !.user = u] \in Calls
  <2>1. ASSUME NEW r \in Int
        PROVE  [c EXCEPT !.pc = "return", !.ret = r, !.user = u] \in Calls
    <3>1. u \in Word \cup AnyTid \cup {StackEnd}
      OBVIOUS
    <3> QED
      BY <3>1 DEF Calls
  <2>2. 0 \in Int
    OBVIOUS
  <2> QED
    BY <2>1, <2>2, Zenon
<1>3. [c EXCEPT !.pc = "return", !.ret = NotCopied] \in Calls
  BY <1>1 DEF Calls
<1>4. /\ [c EXCEPT !.pc = "return", !.ret = 0, !.user = u].pc = "return"
      /\ [c EXCEPT !.pc = "return", !.ret = NotCopied].pc = "return"
  BY DEF Calls
<1> QED
  BY <1>2, <1>3, <1>4

LEMMA CopyOutTypes ==
    ASSUME TypesInv, NEW t \in Tid, CopyOut(t)
    PROVE  CallTypes(call'[t], reply'[t])
<1> DEFINE c == call[t]
           d == [c EXCEPT !.pc = "return", !.ret = 0, !.user = ToUser(t)]
           e == [c EXCEPT !.pc = "return", !.ret = NotCopied]
<1>1. c \in Calls /\ reply[t].lr \in Word \cup {NotFound, StackEnd}
  BY DEF TypesInv, CallTypes, CopyOut
<1>2. call'[t] = d \/ call'[t] = e
  BY DEF CopyOut, TypesInv, WordsInv, CallShape
<1>3. ToUser(t) \in Word \cup AnyTid \cup {StackEnd}
  BY <1>1 DEF ToUser, Calls, AnyTid
<1> HIDE DEF c
<1>4. d \in Calls /\ d.pc = "return" /\ e \in Calls /\ e.pc = "return"
  <2> HIDE DEF ToUser
  <2> QED
    BY <1>1, <1>3, CallReturns
<1> HIDE DEF d, e
<1> QED
  BY <1>2, <1>4 DEF CallTypes

LEMMA TypesInit == Init => TypesInv
<1> SUFFICES ASSUME Init PROVE TypesInv
  OBVIOUS
<1>1. WordsInv /\ BuffersInv
  BY WordsInit, BuffersInit
<1>2. NodeInv
  BY NodeInit
<1>3. \A t \in Tid : call[t] = NoCall
  BY DEF Init
<1>4. NoCall.pc = "user"
  BY DEF NoCall
<1>5. \A t \in Tid : CallTypes(call[t], reply[t])
  BY <1>3, <1>4, NoCallType DEF CallTypes
<1> QED
  BY <1>1, <1>2, <1>5 DEF TypesInv

LEMMA TypesStep == TypesInv /\ [Next]_vars => TypesInv'
<1> SUFFICES ASSUME TypesInv, [Next]_vars PROVE TypesInv'
  OBVIOUS
<1>1. WordsInv' /\ BuffersInv' /\ NodeInv'
  BY WordsStep, BuffersStep, NodeStep DEF TypesInv
<1>2. ASSUME NEW t \in Tid, OnlyCall(t), CallTypes(call'[t], reply'[t]),
             \A u \in Tid \ {t} : reply'[u] = reply[u]
      PROVE  TypesInv'
  <2>1. \A u \in Tid \ {t} : call'[u] = call[u]
    BY <1>2, CallShapeStep DEF TypesInv, WordsInv
  <2>2. \A u \in Tid : CallTypes(call'[u], reply'[u])
    BY <1>2, <2>1 DEF TypesInv
  <2> QED
    BY <1>1, <2>2 DEF TypesInv, CallTypes
<1>3. CASE UNCHANGED << reply, call >>
  BY <1>1, <1>3 DEF TypesInv, CallTypes
<1>4. ASSUME NEW t \in Tid, NEW c \in 0 .. Unknown - 1, NEW w \in Arguments(c),
             Enter(t, c, w)
      PROVE  TypesInv'
  <2>1. OnlyCall(t) /\ CallTypes(call'[t], reply'[t])
    BY <1>4, EnterCall, EnterTypes DEF TypesInv, WordsInv
  <2> QED
    BY <1>2, <1>4, <2>1 DEF Enter, monitor
<1>5. ASSUME NEW t \in Tid, CopyIn(t) PROVE TypesInv'
  <2>1. OnlyCall(t) /\ CallTypes(call'[t], reply'[t])
    BY <1>5, CopyInCall, CopyInTypes DEF TypesInv, WordsInv
  <2> QED
    BY <1>2, <1>5, <2>1 DEF CopyIn, monitor
<1>6. ASSUME NEW t \in Tid, Smc(t) PROVE TypesInv'
  <2>1. OnlyCall(t) /\ CallTypes(call'[t], reply'[t])
    BY <1>6, SmcCall, SmcTypes DEF TypesInv, WordsInv
  <2>2. \A u \in Tid \ {t} : reply'[u] = reply[u]
    BY <1>6 DEF Smc, TypesInv, WordsInv
  <2> QED
    BY <1>2, <2>1, <2>2
<1>7. ASSUME NEW t \in Tid, CopyOut(t) PROVE TypesInv'
  <2>1. OnlyCall(t) /\ CallTypes(call'[t], reply'[t])
    BY <1>7, CopyOutCall, CopyOutTypes DEF TypesInv, WordsInv
  <2> QED
    BY <1>2, <1>7, <2>1 DEF CopyOut, monitor
<1>8. ASSUME NEW t \in Tid, Return(t) PROVE TypesInv'
  <2>1. OnlyCall(t) /\ call' = [call EXCEPT ![t] = NoCall] /\ reply' = [reply EXCEPT ![t] = NoReply]
    BY <1>8, ReturnCall DEF Return, TypesInv, WordsInv
  <2>2. call'[t] = NoCall /\ \A u \in Tid \ {t} : reply'[u] = reply[u]
    BY <2>1 DEF TypesInv, WordsInv, CallShape
  <2>3. CallTypes(call'[t], reply'[t])
    BY <2>2, NoCallType DEF CallTypes, NoCall
  <2> QED
    BY <1>2, <2>1, <2>2, <2>3
<1>9. ASSUME NEW t \in Tid, EnterUnknown(t) PROVE TypesInv'
  BY <1>3, <1>9 DEF EnterUnknown, monitor
<1>10. CASE \/ teeplc_init \/ teeplc_exit \/ OtherDriver
            \/ OpenDevice \/ ProcessEnds
  BY <1>3, <1>10 DEF teeplc_init, teeplc_exit, OtherDriver, OpenDevice, ProcessEnds, monitor
<1>11. CASE UNCHANGED vars
  BY <1>3, <1>11 DEF vars, monitor
<1> QED
  BY <1>4, <1>5, <1>6, <1>7, <1>8, <1>9, <1>10, <1>11 DEF Next

\* teeplc.c 46-290: the table, the calls in progress, the device numbers and
\* the buffers that are out are well formed, whatever is loaded and removed.
THEOREM TypeCorrect == Spec => []TypeOK
<1>1. TypesInv => TypeOK
  <2> SUFFICES ASSUME TypesInv PROVE TypeOK
    OBVIOUS
  <2>1. slots \in Table
    BY DEF TypesInv, WordsInv, TableInv
  <2>2. call \in [Tid -> Calls]
    BY DEF TypesInv, WordsInv, CallShape, CallTypes
  <2>3. live \in Nat
    <3>1. live = Cardinality(Busy) + leaked
      BY DEF TypesInv, BuffersInv, BuffersAccounted, Busy
    <3>2. Cardinality(Busy) \in Nat
      BY BusyFinite, FS_CardinalityType
    <3>3. leaked \in Nat
      BY DriverAssumption DEF TypesInv, NodeInv, ModuleTypes
    <3> QED
      BY <3>1, <3>2, <3>3
  <2> QED
    BY <2>1, <2>2, <2>3 DEF TypesInv, NodeInv, ModuleTypes, TypeOK
<1> QED
  BY <1>1, TypesInit, TypesStep, PTL DEF Spec

=============================================================================
