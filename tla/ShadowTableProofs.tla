-------------------------- MODULE ShadowTableProofs --------------------------
(***************************************************************************)
(* What the operators of ShadowTable return, for every table size, stack   *)
(* size, set of thread ids and set of addresses.                           *)
(***************************************************************************)
EXTENDS ShadowTable, SequenceTheorems, WellFoundedInduction, TLAPS

USE DEF NotFound, StackEnd

(* FirstIn returns the least index of a nonempty set, NotFound for the     *)
(* empty one.                                                              *)
LEMMA FirstInProperties ==
    ASSUME NEW S \in SUBSET Nat
    PROVE  /\ S = {} => FirstIn(S) = NotFound
           /\ S # {} => /\ FirstIn(S) \in S
                        /\ \A j \in S : FirstIn(S) =< j
           /\ FirstIn(S) # NotFound => FirstIn(S) \in S
<1>1. CASE S = {}
  BY <1>1 DEF FirstIn
<1>2. CASE S # {}
  <2>1. PICK i \in S : \A j \in S : << j, i >> \notin OpToRel(<, Nat)
    BY <1>2, NatLessThanWellFounded, WFMin
  <2>2. \A j \in S : i =< j
    <3>1. SUFFICES ASSUME NEW j \in S, j < i PROVE FALSE
      BY <3>1
    <3>2. << j, i >> \in OpToRel(<, Nat)
      BY <3>1 DEF OpToRel
    <3> QED BY <2>1, <3>2
  <2>3. FirstIn(S) \in S /\ \A j \in S : FirstIn(S) =< j
    BY <1>2, <2>2 DEF FirstIn
  <2> QED BY <1>2, <2>3
<1> QED BY <1>1, <1>2

(* The linear search for a thread finds a slot with its id, or there is    *)
(* none.                                                                   *)
LEMMA FindSlotProperties ==
    ASSUME NEW tab \in Table, NEW tid
    PROVE  /\ FindSlot(tab, tid) \in SlotIndex \cup {NotFound}
           /\ FindSlot(tab, tid) # NotFound
                => /\ FindSlot(tab, tid) \in SlotIndex
                   /\ tab[FindSlot(tab, tid)].thread_id = tid
           /\ FindSlot(tab, tid) = NotFound
                => \A i \in SlotIndex : tab[i].thread_id # tid
<1> DEFINE S == {i \in SlotIndex : tab[i].thread_id = tid}
<1>1. SlotIndex \subseteq Nat
  BY SizesAssumption DEF SlotIndex
<1>2. S \in SUBSET Nat
  BY <1>1
<1>3. FindSlot(tab, tid) = FirstIn(S)
  BY DEF FindSlot
<1>4. S # {} => FirstIn(S) \in S
  BY <1>2, FirstInProperties
<1>5. S = {} => FirstIn(S) = NotFound
  BY <1>2, FirstInProperties
<1> QED BY <1>1, <1>3, <1>4, <1>5

(* init_thread_local_ss finds a slot it may claim, or there is none.       *)
LEMMA FreeSlotProperties ==
    ASSUME NEW tab \in Table
    PROVE  /\ FreeSlot(tab) \in SlotIndex \cup {NotFound}
           /\ FreeSlot(tab) # NotFound
                => FreeSlot(tab) \in SlotIndex /\ Claimable(tab[FreeSlot(tab)])
           /\ FreeSlot(tab) = NotFound
                => \A i \in SlotIndex : ~ Claimable(tab[i])
<1> DEFINE S == {i \in SlotIndex : Claimable(tab[i])}
<1>1. SlotIndex \subseteq Nat
  BY SizesAssumption DEF SlotIndex
<1>2. S \in SUBSET Nat
  BY <1>1
<1>3. FreeSlot(tab) = FirstIn(S)
  BY DEF FreeSlot
<1>4. S # {} => FirstIn(S) \in S
  BY <1>2, FirstInProperties
<1>5. S = {} => FirstIn(S) = NotFound
  BY <1>2, FirstInProperties
<1> QED BY <1>1, <1>3, <1>4, <1>5

-----------------------------------------------------------------------------
(* Operations on one stack.                                                *)

(* A save or a restore changes no id and no flag.                          *)
LEMMA StackChanged ==
    ASSUME NEW tab \in Table, NEW i, NEW s, NEW new, new = [tab EXCEPT ![i].stack = s]
    PROVE  \A k \in SlotIndex : /\ new[k].thread_id = tab[k].thread_id
                                /\ new[k].flag = tab[k].flag
BY DEF Table, Slot

(* Saving adds a word and stays within the array.                          *)
LEMMA PushedProperties ==
    ASSUME NEW S, NEW stack \in Seq(S), NEW lr \in S, ~ StackFull(stack)
    PROVE  /\ Pushed(stack, lr) \in Seq(S)
           /\ Len(Pushed(stack, lr)) =< PSEUDO_THREAD_SS_SIZE - 1
<1>1. Len(stack) \in Nat /\ Len(stack) < PSEUDO_THREAD_SS_SIZE - 1
  BY SizesAssumption, LenProperties DEF StackFull
<1>2. Pushed(stack, lr) \in Seq(S) /\ Len(Pushed(stack, lr)) = Len(stack) + 1
  BY AppendProperties DEF Pushed
<1> QED BY <1>1, <1>2, SizesAssumption

(* Restoring takes the last word off and leaves the others.                *)
LEMMA PoppedProperties ==
    ASSUME NEW S, NEW stack \in Seq(S), stack # << >>
    PROVE  /\ Popped(stack) \in Seq(S)
           /\ Len(Popped(stack)) = Len(stack) - 1
           /\ TopWord(stack) \in S
<1>1. Len(stack) \in Nat \ {0}
  BY EmptySeq
<1>2. \A i \in 1 .. Len(stack) : stack[i] \in S
  BY ElementOfSeq
<1>3. /\ SubSeq(stack, 1, Len(stack) - 1) \in Seq(S)
      /\ Len(SubSeq(stack, 1, Len(stack) - 1)) =
            IF 1 =< Len(stack) - 1 THEN Len(stack) - 1 - 1 + 1 ELSE 0
  <2>1. \A i \in 1 .. Len(stack) - 1 : stack[i] \in S
    BY <1>1, <1>2
  <2> QED BY <1>1, <2>1, SubSeqProperties
<1>4. Len(SubSeq(stack, 1, Len(stack) - 1)) = Len(stack) - 1
  <2>1. ASSUME NEW n \in Nat \ {0}, NEW m,
               m = IF 1 =< n - 1 THEN n - 1 - 1 + 1 ELSE 0
        PROVE  m = n - 1
    BY <2>1
  <2> QED BY <1>1, <1>3, <2>1, Zenon
<1>5. stack[Len(stack)] \in S
  BY <1>1, <1>2
<1> QED BY <1>3, <1>4, <1>5 DEF Popped, TopWord

(* Claiming a slot whose stack is empty leaves it empty.                   *)
LEMMA ZeroWordsEmpty ==
    ASSUME NEW S
    PROVE  ZeroWords(<< >>) = << >> /\ << >> \in Seq(S) /\ Len(<< >>) = 0
<1>1. Len(<< >>) = 0 /\ << >> \in Seq(S)
  BY EmptySeq
<1>2. ZeroWords(<< >>) = [k \in 1 .. 0 |-> 0]
  BY <1>1 DEF ZeroWords
<1>3. [k \in 1 .. 0 |-> 0] \in Seq({0})
  BY IsASeq
<1>4. ZeroWords(<< >>) = << >>
  BY <1>2, <1>3
<1> QED BY <1>1, <1>4
==============================================================================
