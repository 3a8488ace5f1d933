----------------------------- MODULE TeeService -----------------------------
(***************************************************************************)
(* The secure monitor's TEEPLC runtime service: one action per case of     *)
(* arm_arc_teeplc_smc_handler, each the whole handler of one SMC.          *)
(* ShadowStackLib takes the same functions apart into their loads and      *)
(* stores, as cores execute SMCs side by side without a lock.              *)
(***************************************************************************)
EXTENDS ShadowTable

CONSTANT Reinit \* may a thread id that is in the table be initialised again?

ASSUME ReinitAssumption == Reinit \in BOOLEAN

VARIABLES slots, \* whole_shadow_stack
          reply  \* the last SMC, its thread id and the registers it returned

vars == << slots, reply >>

\* x0 is ret; x1 is lr, which only case 3 returns.
Reply(call, tid, ret, lr) ==
    [call |-> call, tid |-> tid, ret |-> ret, lr |-> lr]

\* The thread ids a caller may name when it releases a stack: the user
\* library passes -1 or 0 for a thread that has not registered yet.
AnyTid == Tid \cup {0, NotFound}

Replies == [call : {"boot", "init", "save", "restore", "free", "reset", "other"},
            tid  : AnyTid,
            ret  : SlotIndex \cup {NotFound, StackEnd},
            lr   : Word \cup {NotFound, StackEnd}]

Init == /\ slots = ZeroTable
        /\ reply = Reply("boot", 0, 0, 0)

-----------------------------------------------------------------------------

\* case 1: init_thread_local_ss
SmcInit(t) ==
    LET i == FreeSlot(slots)
    IN  /\ Reinit \/ FindSlot(slots, t) = NotFound
        /\ slots' = IF i = NotFound THEN slots
                    ELSE [slots EXCEPT ![i] = Claimed(@, t)]
        /\ reply' = Reply("init", t, i, 0)

\* case 2: add_lr_thread_local_ss
SmcAddLr(t, lr) ==
    LET i == FindSlot(slots, t)
    IN  \/ /\ i = NotFound
           /\ reply' = Reply("save", t, NotFound, 0)
           /\ UNCHANGED slots
        \/ /\ i # NotFound
           /\ StackFull(slots[i].stack)
           /\ reply' = Reply("save", t, StackEnd, 0)
           /\ UNCHANGED slots
        \/ /\ i # NotFound
           /\ ~ StackFull(slots[i].stack)
           /\ slots' = [slots EXCEPT ![i].stack = Pushed(@, lr)]
           /\ reply' = Reply("save", t, i, 0)

\* case 3: restore_lr_thread_local_ss.  x0 is 0 whatever happened, an error
\* comes back in x1 in the place of the return address.
SmcRestoreLr(t) ==
    LET i == FindSlot(slots, t)
    IN  \/ /\ i = NotFound
           /\ reply' = Reply("restore", t, 0, NotFound)
           /\ UNCHANGED slots
        \/ /\ i # NotFound
           /\ slots[i].stack = << >>
           /\ reply' = Reply("restore", t, 0, StackEnd)
           /\ UNCHANGED slots
        \/ /\ i # NotFound
           /\ slots[i].stack # << >>
           /\ slots' = [slots EXCEPT ![i].stack = Popped(@)]
           /\ reply' = Reply("restore", t, 0, TopWord(slots[i].stack))

\* Mutant: a release that gives the slot back at once.
SmcFreeClears(t) ==
    LET i == FindSlot(slots, t)
    IN  /\ slots' = IF i = NotFound THEN slots
                    ELSE [slots EXCEPT ![i] = EmptySlot]
        /\ reply' = Reply("free", t, i, 0)

\* case 4: free_thread_local_ss clears the flag and nothing else.
SmcFree(t) ==
    LET i == FindSlot(slots, t)
    IN  /\ slots' = IF i = NotFound THEN slots
                    ELSE [slots EXCEPT ![i].flag = 0]
        /\ reply' = Reply("free", t, i, 0)

\* Mutant: a reset that only forgets the thread ids.
SmcFreeIds == /\ slots' = [i \in SlotIndex |->
                              [slots[i] EXCEPT !.thread_id = 0]]
              /\ reply' = Reply("reset", 0, 0, 0)

\* case 5: free_whole_shadow_stack
SmcFreeWhole == /\ slots' = ZeroTable
                /\ reply' = Reply("reset", 0, 0, 0)

\* case 0 (arithmetic on the arguments, for testing) and default
SmcOther == /\ reply' = Reply("other", 0, 0, 0)
            /\ UNCHANGED slots

Next == \/ \E t \in Tid : SmcInit(t)
        \/ \E t \in Tid, lr \in Addr : SmcAddLr(t, lr)
        \/ \E t \in Tid : SmcRestoreLr(t)
        \/ \E t \in AnyTid : SmcFree(t)
        \/ SmcFreeWhole
        \/ SmcOther

Spec == Init /\ [][Next]_vars

-----------------------------------------------------------------------------

(* Every slot is well formed, no stack reaches the last word of its array  *)
(* (add_lr_thread_local_ss, line 311), and every reply is one the handler  *)
(* can build.                                                              *)
TypeOK == /\ slots \in Table
          /\ \A i \in SlotIndex :
                Len(slots[i].stack) =< PSEUDO_THREAD_SS_SIZE - 1
          /\ reply \in Replies

(* A slot that was never claimed is all zero.  init_thread_local_ss does   *)
(* not reset shadow_stack_sp, so a thread that gets a fresh slot starts    *)
(* with an empty stack only because of this.                               *)
UnclaimedIsEmpty == \A i \in SlotIndex :
                       slots[i].thread_id = 0 => slots[i] = EmptySlot

(* A stack holds return addresses only: the memset of init_thread_local_ss *)
(* never clears a word that can still be restored, whatever the order of   *)
(* releases and registrations, so no thread returns to address 0.          *)
NoClearedWord == \A i \in SlotIndex : slots[i].stack \in Seq(Addr)

(* As long as a slot is flagged or holds an address, only SMCs that name   *)
(* its thread change it: no other thread's call takes it over, clears it   *)
(* or moves its stack pointer.  Resetting the whole table is the exception.*)
InUse(slot) == slot.flag = 1 \/ slot.stack # << >>

Isolation ==
    [][\A i \in SlotIndex :
          InUse(slots[i]) /\ slots'[i] # slots[i]
             => \/ reply'.call = "reset"
                \/ reply'.tid = slots[i].thread_id]_vars

-----------------------------------------------------------------------------

\* The abstract state a table stands for.
StkOf(tab) == [t \in {tab[i].thread_id : i \in SlotIndex} \ {0} |->
                  tab[FindSlot(tab, t)].stack]
ReleasedOf(tab) == {t \in DOMAIN StkOf(tab) : tab[FindSlot(tab, t)].flag = 0}

ResultOf(r) ==
    CASE r.call = "init"    -> IF r.ret = NotFound THEN "full" ELSE "ok"
      [] r.call = "save"    -> IF r.ret = NotFound THEN "unknown"
                               ELSE IF r.ret = StackEnd THEN "full" ELSE "ok"
      [] r.call = "restore" -> IF r.lr = NotFound THEN "unknown"
                               ELSE IF r.lr = StackEnd THEN "empty" ELSE "ok"
      [] r.call = "free"    -> IF r.ret = NotFound THEN "unknown" ELSE "ok"
      [] OTHER              -> "ok"

AnswerOf(r) == [call |-> r.call, tid |-> r.tid, result |-> ResultOf(r),
                lr |-> IF ResultOf(r) = "ok" THEN r.lr ELSE 0]

(* When every thread registers once, the service is a set of private       *)
(* last-in first-out stacks: what a thread restores is what it saved, it   *)
(* is refused only where ThreadStacks says so, and a thread is turned away *)
(* only when no place is free or idle.                                     *)
Stacks == INSTANCE ThreadStacks
             WITH Capacity <- PSEUDO_THREAD_NUM,
                  MaxDepth <- PSEUDO_THREAD_SS_SIZE - 1,
                  stk <- StkOf(slots),
                  released <- ReleasedOf(slots),
                  answer <- AnswerOf(reply)

PrivateStacks == Stacks!Spec
=============================================================================
