---------------------------- MODULE ShadowTable ----------------------------
(***************************************************************************)
(* The table of per-thread shadow stacks kept by the secure monitor        *)
(* (whole_shadow_stack in src/atf/services/std_svc/std_svc_setup.c) and    *)
(* the functions over it, as operators on a table value.                   *)
(*                                                                         *)
(* A slot's array and its shadow_stack_sp are one sequence: the words at   *)
(* and above the stack pointer are never read before they are written, so  *)
(* the sequence holds the words below it and its length is the pointer.    *)
(***************************************************************************)
EXTENDS Integers, Sequences

CONSTANTS PSEUDO_THREAD_NUM,     \* slots in the table
          PSEUDO_THREAD_SS_SIZE, \* words in a slot's array
          Tid,                   \* kernel thread ids, never 0
          Addr                   \* return addresses, never 0

ASSUME SizesAssumption == /\ PSEUDO_THREAD_NUM \in Nat \ {0}
                          /\ PSEUDO_THREAD_SS_SIZE \in Nat \ {0}
ASSUME TidAssumption == Tid \subseteq Nat \ {0}
ASSUME AddrAssumption == Addr \subseteq Nat \ {0}

-----------------------------------------------------------------------------

\* What the functions return for "not found", "full" and for a stack at one
\* of its ends; restore_lr returns them in-band, where a return address goes.
NotFound == -1
StackEnd == -2

SlotIndex == 0 .. PSEUDO_THREAD_NUM - 1

\* 0 is the word memset leaves behind.
Word == Addr \cup {0}

Slot == [thread_id : Tid \cup {0}, flag : {0, 1}, stack : Seq(Word)]
Table == [SlotIndex -> Slot]

EmptySlot == [thread_id |-> 0, flag |-> 0, stack |-> << >>]
ZeroTable == [i \in SlotIndex |-> EmptySlot]

-----------------------------------------------------------------------------

\* The for loops over the table all stop at the first slot that satisfies
\* their condition.
FirstIn(S) == IF S = {} THEN NotFound
              ELSE CHOOSE i \in S : \A j \in S : i =< j

FindSlot(tab, tid) == FirstIn({i \in SlotIndex : tab[i].thread_id = tid})

\* Mutants: either half of the test for a released slot missing.
ClaimableAnyDepth(slot) == slot.thread_id = 0 \/ slot.flag = 0
ClaimableAnyFlag(slot) == slot.thread_id = 0 \/ slot.stack = << >>

\* init_thread_local_ss takes a slot nobody ever had, or one that was
\* released and whose stack is empty.
Claimable(slot) == \/ slot.thread_id = 0
                   \/ slot.flag = 0 /\ slot.stack = << >>

FreeSlot(tab) == FirstIn({i \in SlotIndex : Claimable(tab[i])})

\* memset clears the words but nothing resets shadow_stack_sp.
ZeroWords(stack) == [k \in 1 .. Len(stack) |-> 0]

Claimed(slot, tid) == [thread_id |-> tid, flag |-> 1,
                       stack |-> ZeroWords(slot.stack)]

\* Mutants: the bound off by one, either way.
StackFullLate(stack) == Len(stack) >= PSEUDO_THREAD_SS_SIZE
StackFullEarly(stack) == Len(stack) >= PSEUDO_THREAD_SS_SIZE - 2

\* add_lr_thread_local_ss leaves the last word of the array unused.
StackFull(stack) == Len(stack) >= PSEUDO_THREAD_SS_SIZE - 1

Pushed(stack, lr) == Append(stack, lr)
Popped(stack) == SubSeq(stack, 1, Len(stack) - 1)
TopWord(stack) == stack[Len(stack)]
=============================================================================
