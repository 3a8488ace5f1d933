-------------------------- MODULE OrderlyLibProofs --------------------------
(***************************************************************************)
(* Theorems about the processes in which main alone creates threads,       *)
(* leaves each after it has ended and has a slot and a list entry for      *)
(* each: every thread may run instrumented functions then.                 *)
(***************************************************************************)
EXTENDS ShadowStackLibProofs, FiniteSets, FiniteSetTheorems

USE DEF NotFound, StackEnd

OrderlyUse == /\ Orderly
              /\ Creators \subseteq {Main}
              /\ IsFiniteSet(Thread)
              /\ Cardinality(Thread) =< PSEUDO_THREAD_NUM
              /\ Cardinality(Thread) =< FAKE_NUM
              /\ MaxDepth < PSEUDO_THREAD_SS_SIZE

-----------------------------------------------------------------------------
(* What the steps of the threads leave alone.                              *)

Registering == {"init_lock", "init_scan", "init_claim", "init_clear",
                "list_lock", "list_fill"}
InCalls == {"run", "save", "restore"}
LeavePlaces == InLeave \cup {"leave_unlist"}
Looking == {"leave_scan", "leave_read"}

\* A lookup may still be about to read the list for t.
Awaited(t) == \/ NotLeft(t)
              \/ pc[Main] \in Looking /\ leave[Main].target = t

LEMMA RegisterEffects ==
    ASSUME TypeOK, NEW t \in Thread, Register(t)
    PROVE  /\ UNCHANGED << leave, tidOf, lastTid, mode, frames >>
           /\ pc[t] \in Registering /\ pc'[t] \in Registering \cup {"run"}
           /\ \A u \in Thread \ {t} : pc'[u] = pc[u] /\ at'[u] = at[u]
           /\ \A u \in Thread : /\ NotLeft(u)' <=> NotLeft(u)
                                /\ Awaited(u)' => Awaited(u)
<1>1. UNCHANGED << leave, tidOf, lastTid, mode, frames >>
  BY DEF Register, InitLock, InitScan, InitFull, InitClaim, InitClear, ListLock, ListFull,
         ListFill, tables
<1>2. pc[t] \in Registering /\ pc'[t] \in Registering \cup {"run"}
  BY DEF Register, InitLock, InitScan, InitFull, InitClaim, InitClear, ListLock, ListFull,
         ListFill, TypeOK, Goto, Registering
<1>3. \A u \in Thread \ {t} : pc'[u] = pc[u] /\ at'[u] = at[u]
  BY DEF Register, InitLock, InitScan, InitFull, InitClaim, InitClear, ListLock, ListFull,
         ListFill, TypeOK, Goto
<1>4. \A u \in Thread : NotLeft(u)' <=> NotLeft(u)
  BY <1>1 DEF NotLeft
<1> QED
  BY <1>1, <1>2, <1>3, <1>4, ThreadAssumption DEF Awaited, Looking, Registering

Calls(t) == \/ \E lr \in Addr : Call(t, lr)
            \/ Return(t) \/ shadow_stack_save(t) \/ shadow_stack_restore(t)

LEMMA CallEffects ==
    ASSUME TypeOK, NEW t \in Thread, Calls(t)
    PROVE  /\ UNCHANGED << fake, ss_mutex, fake_mutex, leave, tidOf, lastTid, mode >>
           /\ pc[t] \in InCalls /\ pc'[t] \in InCalls \cup {"lost"}
           /\ \A u \in Thread \ {t} : pc'[u] = pc[u] /\ at'[u] = at[u] /\ frames'[u] = frames[u]
           /\ \A u \in Thread : /\ NotLeft(u)' <=> NotLeft(u)
                                /\ Awaited(u)' => Awaited(u)
<1>1. UNCHANGED << fake, ss_mutex, fake_mutex, leave, tidOf, lastTid, mode >>
  BY DEF Calls, Call, Return, shadow_stack_save, shadow_stack_restore, tables
<1>2. pc[t] \in InCalls /\ pc'[t] \in InCalls \cup {"lost"}
  BY DEF Calls, Call, Return, shadow_stack_save, shadow_stack_restore, TypeOK, Goto, InCalls
<1>3. \A u \in Thread \ {t} : pc'[u] = pc[u] /\ at'[u] = at[u] /\ frames'[u] = frames[u]
  BY DEF Calls, Call, Return, shadow_stack_save, shadow_stack_restore, TypeOK, Goto
<1>4. \A u \in Thread : NotLeft(u)' <=> NotLeft(u)
  BY <1>1 DEF NotLeft
<1> QED
  BY <1>1, <1>2, <1>3, <1>4, ThreadAssumption DEF Awaited, Looking, InCalls

LEMMA CreateEffects ==
    ASSUME TypeOK, OrderlyUse, NEW c \in Thread, NEW t \in Thread, my_pthread_create(c, t)
    PROVE  /\ c = Main /\ pc[Main] = "run" /\ t # Main
           /\ UNCHANGED << tables, at, leave, mapped, frames >>
           /\ lastTid' = lastTid + 1
           /\ pc[t] = "none" /\ pc'[t] = "init_lock" /\ mode'[t] = "joinable"
           /\ tidOf'[t] = lastTid + 1
           /\ \A u \in Thread \ {t} : pc'[u] = pc[u] /\ mode'[u] = mode[u] /\ tidOf'[u] = tidOf[u]
           /\ \A u \in Thread \ {t} : /\ NotLeft(u)' <=> NotLeft(u)
                                      /\ Awaited(u)' => Awaited(u)
<1>1. /\ c = Main /\ pc[Main] = "run" /\ t # Main
      /\ UNCHANGED << tables, at, leave, mapped, frames >>
      /\ lastTid' = lastTid + 1
  BY DEF my_pthread_create, OrderlyUse
<1>2. /\ pc[t] = "none" /\ pc'[t] = "init_lock" /\ mode'[t] = "joinable"
      /\ tidOf'[t] = lastTid + 1
      /\ \A u \in Thread \ {t} : pc'[u] = pc[u] /\ mode'[u] = mode[u] /\ tidOf'[u] = tidOf[u]
  BY DEF my_pthread_create, TypeOK, Goto
<1>3. \A u \in Thread \ {t} : NotLeft(u)' <=> NotLeft(u)
  BY <1>1, <1>2 DEF NotLeft
<1> QED
  BY <1>1, <1>2, <1>3, ThreadAssumption DEF Awaited, Looking

LEMMA UnlistEffects ==
    ASSUME TypeOK, IdsInv, NEW c \in Thread, LeaveUnlist(c)
    PROVE  /\ UNCHANGED << slots, ss_mutex, fake_mutex, at, tidOf, lastTid, mode, frames >>
           /\ fake_mutex = NoThread /\ fake' = FakeFreed(leave[c].subtid)
           /\ pc[c] = "leave_unlist"
           /\ pc'[c] = IF c = Main /\ mode[c] = "detached" THEN "ended" ELSE "run"
           /\ \A u \in Thread \ {c} : pc'[u] = pc[u] /\ leave'[u] = leave[u]
           /\ leave'[c] = NoLeave /\ leave[c].target = NoThread
           /\ \A u \in Thread : /\ NotLeft(u)' <=> NotLeft(u)
                                /\ Awaited(u)' => Awaited(u)
<1>1. /\ UNCHANGED << slots, ss_mutex, fake_mutex, at, tidOf, lastTid, mode, frames >>
      /\ fake_mutex = NoThread /\ fake' = FakeFreed(leave[c].subtid)
      /\ pc[c] = "leave_unlist"
  BY DEF LeaveUnlist
<1>2. /\ pc'[c] = IF c = Main /\ mode[c] = "detached" THEN "ended" ELSE "run"
      /\ \A u \in Thread \ {c} : pc'[u] = pc[u] /\ leave'[u] = leave[u]
      /\ leave'[c] = NoLeave
  BY DEF LeaveUnlist, TypeOK, Goto
<1>3. leave[c].target = NoThread
  BY <1>1 DEF IdsInv, InLeave
<1>4. \A u \in Thread : NotLeft(u)' <=> NotLeft(u)
  BY <1>1, <1>2, <1>3 DEF NotLeft, NoLeave
<1> QED
  BY <1>1, <1>2, <1>3, <1>4, ThreadAssumption DEF Awaited, Looking

LEMMA FreeEffects ==
    ASSUME TypeOK, NEW c \in Thread, LeaveFree(c)
    PROVE  /\ UNCHANGED << fake, ss_mutex, fake_mutex, at, leave, tidOf, lastTid, mode, frames >>
           /\ ss_mutex = NoThread /\ pc[c] = "leave_free" /\ pc'[c] = "leave_real"
           /\ \A u \in Thread \ {c} : pc'[u] = pc[u]
           /\ \A u \in Thread : /\ NotLeft(u)' <=> NotLeft(u)
                                /\ Awaited(u)' => Awaited(u)
<1>1. /\ UNCHANGED << fake, ss_mutex, fake_mutex, at, leave, tidOf, lastTid, mode, frames >>
      /\ ss_mutex = NoThread /\ pc[c] = "leave_free"
  BY DEF LeaveFree
<1>2. pc'[c] = "leave_real" /\ \A u \in Thread \ {c} : pc'[u] = pc[u]
  BY DEF LeaveFree, TypeOK, Goto
<1>3. \A u \in Thread : NotLeft(u)' <=> NotLeft(u)
  BY <1>1 DEF NotLeft
<1> QED
  BY <1>1, <1>2, <1>3, ThreadAssumption DEF Awaited, Looking

-----------------------------------------------------------------------------
(* Main and the threads it leaves.                                         *)

\* A thread main has not left is joinable; only main is ever detached, by
\* itself, and then it calls nothing more.
LeaverInv ==
    /\ pc[Main] \notin {"none", "exited"}
    /\ \A t \in Thread :
          /\ pc[t] # "none" => \/ mode[t] = "joinable"
                               \/ /\ t = Main /\ mode[t] = "detached"
                                  /\ pc[t] \in {"leave_unlist", "ended"}
          /\ pc[t] = "none" => tidOf[t] = 0
          /\ t # Main => /\ pc[t] \notin LeavePlaces \cup {"ended"}
                         /\ leave[t].target = NoThread
          /\ frames[t] # << >> => /\ pc[t] \in InCalls \cup LeavePlaces \cup {"lost"}
                                  /\ mode[t] = "joinable"
    /\ pc[Main] \in InLeave =>
          /\ leave[Main].target \in Thread
          /\ frames[leave[Main].target] = << >>
          /\ \/ leave[Main].target = Main /\ leave[Main].call = "detach"
             \/ leave[Main].target # Main /\ pc[leave[Main].target] = "exited"
    /\ pc[Main] \in {"leave_free", "leave_real"} =>
          leave[Main].subtid = tidOf[leave[Main].target]

LEMMA LeaverFresh ==
    ASSUME pc = [t \in Thread |-> IF t = Main THEN "boot" ELSE "none"],
           leave = [t \in Thread |-> NoLeave],
           tidOf = [t \in Thread |-> IF t = Main THEN 1 ELSE 0],
           mode = [t \in Thread |-> IF t = Main THEN "joinable" ELSE "none"],
           frames = [t \in Thread |-> << >>]
    PROVE  LeaverInv
BY ThreadAssumption DEF LeaverInv, NoLeave, InLeave, LeavePlaces

\* A step of a thread that is not about to leave another.
LEMMA LeaverQuiet ==
    ASSUME LeaverInv, UNCHANGED << leave, tidOf, mode >>,
           NEW t \in Thread, pc[t] \in Registering \cup InCalls \cup {"boot"},
           pc'[t] \in Registering \cup InCalls \cup {"lost"},
           pc'[t] \in Registering => frames'[t] = << >>,
           \A u \in Thread \ {t} : pc'[u] = pc[u] /\ frames'[u] = frames[u]
    PROVE  LeaverInv'
<1>1. pc'[Main] \notin {"none", "exited"}
  BY ThreadAssumption DEF LeaverInv, Registering, InCalls
<1>2. ASSUME NEW u \in Thread
      PROVE  /\ pc'[u] # "none" => \/ mode'[u] = "joinable"
                                   \/ /\ u = Main /\ mode'[u] = "detached"
                                      /\ pc'[u] \in {"leave_unlist", "ended"}
             /\ pc'[u] = "none" => tidOf'[u] = 0
             /\ u # Main => /\ pc'[u] \notin LeavePlaces \cup {"ended"}
                            /\ leave'[u].target = NoThread
             /\ frames'[u] # << >> => /\ pc'[u] \in InCalls \cup LeavePlaces \cup {"lost"}
                                      /\ mode'[u] = "joinable"
  BY DEF LeaverInv, Registering, InCalls, LeavePlaces, InLeave
<1>3. pc'[Main] \in InLeave => /\ pc[Main] \in InLeave /\ t # Main
                               /\ pc'[Main] = pc[Main]
                               /\ leave[Main].target # t
  BY ThreadAssumption DEF LeaverInv, Registering, InCalls, LeavePlaces, InLeave
<1>4. {"leave_free", "leave_real"} \subseteq InLeave
  BY DEF InLeave
<1> QED
  BY <1>1, <1>2, <1>3, <1>4 DEF LeaverInv

-----------------------------------------------------------------------------
(* The list.                                                               *)

Listed(t) == /\ pc[t] \in InCalls \cup LeavePlaces \cup {"exited"}
             /\ Awaited(t)

\* The entry of a thread that can be left is the first with its pthread_t,
\* and no id is listed twice.
ListInv ==
    /\ \A e, f \in FakeIndex : fake[e].tid # 0 /\ fake[e].tid = fake[f].tid => e = f
    /\ \A e \in FakeIndex :
          fake[e].flag = 1 =>
             /\ fake[e].tid # 0 /\ fake[e].value \in Thread
             /\ \/ tidOf[fake[e].value] = fake[e].tid
                \/ /\ pc[Main] = "leave_unlist" /\ leave[Main].subtid = fake[e].tid
                   /\ pc[fake[e].value] = "none"
    /\ \A t \in Thread :
          /\ Listed(t) => \E e \in FakeIndex :
                             /\ fake[e].value = t /\ fake[e].tid = tidOf[t] /\ fake[e].flag = 1
                             /\ \A f \in FakeIndex : fake[f].value = t => e =< f
          /\ pc[t] \in Registering => \A e \in FakeIndex : fake[e].tid # tidOf[t]
          /\ pc[t] = "list_fill" => /\ fake[at[t]].flag = 0
                                    /\ \A f \in FakeIndex : fake[f].value = t => at[t] =< f

\* No thread takes the entry that a lookup has found: a lookup has passed no
\* entry with the pthread_t it is about.
FoundInv ==
    /\ crossed = {}
    /\ pc[Main] \in Looking =>
          /\ at[Main] \in Nat
          /\ \A f \in FakeIndex : fake[f].value = leave[Main].target => at[Main] =< f
    /\ pc[Main] = "leave_read" => /\ at[Main] \in FakeIndex
                                  /\ fake[at[Main]].value = leave[Main].target

\* get_fake_pthread stops at the entry of the thread that is left.
LEMMA LookupListed ==
    ASSUME LeaverInv, ListInv, FoundInv, pc[Main] \in Looking
    PROVE  /\ at[Main] \in FakeIndex
           /\ pc[Main] = "leave_read" => /\ fake[at[Main]].flag = 1
                                         /\ fake[at[Main]].tid = tidOf[leave[Main].target]
<1> DEFINE t == leave[Main].target
           n == at[Main]
<1>1. t \in Thread /\ Listed(t)
  BY DEF LeaverInv, Listed, Awaited, Looking, InLeave, LeavePlaces
<1>2. PICK e \in FakeIndex :
         /\ fake[e].value = t /\ fake[e].tid = tidOf[t] /\ fake[e].flag = 1
         /\ \A f \in FakeIndex : fake[f].value = t => e =< f
  BY <1>1 DEF ListInv
<1>3. n \in Nat /\ n =< e
  BY <1>2 DEF FoundInv
<1>4. pc[Main] = "leave_read" => n \in FakeIndex /\ e =< n
  BY <1>2 DEF FoundInv
<1> HIDE DEF n, t
<1>5. n \in FakeIndex
  BY <1>2, <1>3, BoundAssumption DEF FakeIndex
<1>6. pc[Main] = "leave_read" => n = e
  BY <1>2, <1>3, <1>4, BoundAssumption DEF FakeIndex
<1> QED
  BY <1>2, <1>5, <1>6 DEF n, t

LEMMA SubtidOnly ==
    ASSUME TypeOK, NEW c \in Thread, NEW n, leave' = [leave EXCEPT ![c].subtid = n]
    PROVE  /\ leave'[c].subtid = n
           /\ \A u \in Thread : /\ leave'[u].target = leave[u].target
                                /\ leave'[u].call = leave[u].call
                                /\ u # c => leave'[u] = leave[u]
BY DEF TypeOK

LEMMA LookupEffects ==
    ASSUME TypeOK, LeaverInv, NEW c \in Thread, Lookup(c)
    PROVE  /\ c = Main
           /\ UNCHANGED << tables, tidOf, lastTid, mode, mapped, frames >>
           /\ pc[Main] \in Looking /\ pc'[Main] \in Looking \cup {"leave_free"}
           /\ \A u \in Thread \ {Main} : /\ pc'[u] = pc[u] /\ at'[u] = at[u]
                                         /\ leave'[u] = leave[u]
           /\ leave'[Main].target = leave[Main].target /\ leave'[Main].call = leave[Main].call
           /\ \A u \in Thread : /\ NotLeft(u)' <=> NotLeft(u)
                                /\ Awaited(u)' => Awaited(u)
<1>1. /\ c = Main
      /\ UNCHANGED << tables, tidOf, lastTid, mode, mapped, frames >>
      /\ pc[Main] \in Looking
  BY DEF Lookup, LookupScan, LookupFails, LookupRead, LeaverInv, LeavePlaces, InLeave, Looking
<1>2. /\ pc'[Main] \in Looking \cup {"leave_free"}
      /\ \A u \in Thread \ {Main} : pc'[u] = pc[u] /\ at'[u] = at[u]
  BY <1>1 DEF Lookup, LookupScan, LookupFails, LookupRead, TypeOK, Goto, Looking
<1>3. leave' = leave \/ \E n : leave' = [leave EXCEPT ![c].subtid = n]
  BY DEF Lookup, LookupScan, LookupFails, LookupRead
<1>4. \A u \in Thread : /\ leave'[u].target = leave[u].target
                        /\ leave'[u].call = leave[u].call
                        /\ u # c => leave'[u] = leave[u]
  BY <1>3, SubtidOnly
<1>5. \A u \in Thread : NotLeft(u)' <=> NotLeft(u)
  BY <1>1, <1>4 DEF NotLeft
<1> QED
  BY <1>1, <1>2, <1>4, <1>5, ThreadAssumption DEF Awaited

LEMMA LeaveEffects ==
    ASSUME TypeOK, IdsInv, OrderlyUse, LeaverInv, NEW c \in Thread,
           NEW t \in Thread, NEW call \in {"detach", "join"}, Leave(c, t, call)
    PROVE  /\ c = Main /\ pc[Main] = "run" /\ pc'[Main] = "leave_scan" /\ at'[Main] = 0
           /\ UNCHANGED << tables, tidOf, lastTid, mode, mapped, frames >>
           /\ \A u \in Thread \ {Main} : /\ pc'[u] = pc[u] /\ at'[u] = at[u]
                                         /\ leave'[u] = leave[u]
           /\ leave'[Main].target = t /\ leave'[Main].call = call
           /\ \/ t = Main /\ call = "detach" /\ frames[Main] = << >>
              \/ t # Main /\ pc[t] = "exited"
           /\ \A u \in Thread \ {t} : NotLeft(u)' <=> NotLeft(u)
           /\ ~ NotLeft(t)'
           /\ \A u \in Thread : /\ NotLeft(u)' => NotLeft(u)
                                /\ Awaited(u)' => Awaited(u)
<1>1. /\ c = Main /\ pc[Main] = "run"
      /\ UNCHANGED << tables, tidOf, lastTid, mode, mapped, frames >>
      /\ \/ t = Main /\ call = "detach" /\ frames[Main] = << >>
         \/ t # Main /\ pc[t] = "exited"
      /\ \A u \in Thread : leave[u].target # t
  BY DEF Leave, MayLeave, OrderlyUse
<1>2. NotLeft(t)
  BY <1>1 DEF NotLeft, LeaverInv
<1>3. /\ pc'[Main] = "leave_scan" /\ at'[Main] = 0
      /\ \A u \in Thread \ {Main} : pc'[u] = pc[u] /\ at'[u] = at[u] /\ leave'[u] = leave[u]
      /\ leave'[Main].target = t /\ leave'[Main].call = call
  BY <1>1 DEF Leave, TypeOK, Goto
<1>4. leave[Main].target = NoThread /\ NoThread \notin Thread /\ Main \in Thread
  BY <1>1, ThreadAssumption DEF IdsInv, InLeave
<1>5. /\ \A u \in Thread \ {t} : NotLeft(u)' <=> NotLeft(u)
      /\ ~ NotLeft(t)'
  BY <1>1, <1>3, <1>4 DEF NotLeft
<1>6. \A u \in Thread : /\ NotLeft(u)' => NotLeft(u)
                        /\ Awaited(u)' => Awaited(u)
  BY <1>2, <1>3, <1>5 DEF Awaited
<1> QED
  BY <1>1, <1>3, <1>5, <1>6

\* The target is gone, or it is main, which has only detached itself.
LEMMA OrderlyReal ==
    ASSUME TypeOK, LeaverInv, NEW c \in Thread, RealDetach(c) \/ RealJoin(c)
    PROVE  LET t == leave[Main].target
           IN  /\ c = Main /\ pc[Main] = "leave_real" /\ pc'[Main] = "leave_unlist"
               /\ UNCHANGED << tables, at, lastTid, mapped, frames >>
               /\ t \in Thread /\ leave[Main].subtid = tidOf[t]
               /\ \A u \in Thread : /\ leave'[u].subtid = leave[u].subtid
                                    /\ u # Main => leave'[u].target = leave[u].target
               /\ leave'[Main].target = NoThread
               /\ \A u \in Thread \ {t} : /\ mode'[u] = mode[u] /\ tidOf'[u] = tidOf[u]
                                          /\ NotLeft(u)' <=> NotLeft(u)
               /\ \A u \in Thread \ {t, Main} : pc'[u] = pc[u]
               /\ \/ /\ t = Main /\ mode'[t] = "detached" /\ tidOf'[t] = tidOf[t]
                  \/ /\ t # Main /\ pc[t] = "exited" /\ pc'[t] = "none"
                     /\ mode'[t] = "none" /\ tidOf'[t] = 0
<1> DEFINE t == leave[Main].target
<1>1. /\ c = Main /\ pc[Main] = "leave_real"
      /\ UNCHANGED << tables, at, lastTid, mapped, frames >>
      /\ leave' = [leave EXCEPT ![Main].target = NoThread]
  BY DEF RealDetach, RealJoin, LeaverInv, LeavePlaces, InLeave
<1>2. /\ t \in Thread /\ leave[Main].subtid = tidOf[t]
      /\ \/ t = Main /\ leave[Main].call = "detach"
         \/ t # Main /\ pc[t] = "exited"
  BY <1>1 DEF LeaverInv, InLeave
<1>3. \A u \in Thread : /\ leave'[u].target = IF u = Main THEN NoThread ELSE leave[u].target
                        /\ leave'[u].subtid = leave[u].subtid
  BY <1>1, TargetCleared, ThreadAssumption
<1>4. mode[t] = "joinable" \/ t = Main
  BY <1>2 DEF LeaverInv
<1> HIDE DEF t
<1>5. CASE t = Main
  <2>1. /\ pc' = [pc EXCEPT ![Main] = "leave_unlist"]
        /\ mode' = [mode EXCEPT ![t] = "detached"] /\ tidOf' = tidOf
    BY <1>1, <1>2, <1>5 DEF RealDetach, RealJoin, Goto, t
  <2> QED
    BY <1>1, <1>2, <1>3, <1>5, <2>1, ThreadAssumption DEF TypeOK, NotLeft, t
<1>6. CASE t # Main
  <2>1. /\ pc' = [pc EXCEPT ![t] = "none", ![Main] = "leave_unlist"]
        /\ mode' = [mode EXCEPT ![t] = "none"] /\ tidOf' = [tidOf EXCEPT ![t] = 0]
    BY <1>1, <1>2, <1>4, <1>6 DEF RealDetach, RealJoin, t
  <2>2. /\ pc'[t] = "none" /\ pc'[Main] = "leave_unlist" /\ mode'[t] = "none" /\ tidOf'[t] = 0
        /\ \A u \in Thread \ {t} : mode'[u] = mode[u] /\ tidOf'[u] = tidOf[u]
        /\ \A u \in Thread \ {t, Main} : pc'[u] = pc[u]
    BY <1>2, <1>6, <2>1, ThreadAssumption DEF TypeOK
  <2>3. \A u \in Thread \ {t} : NotLeft(u)' <=> NotLeft(u)
    <3>1. \A u \in Thread : u # t => (leave[Main].target # u /\ leave'[Main].target # u)
      BY <1>3, ThreadAssumption DEF t
    <3>2. \A u, v \in Thread : u # t => (leave'[v].target # u <=> leave[v].target # u)
      BY <1>3, <3>1
    <3> QED
      BY <2>2, <3>2 DEF NotLeft
  <2> QED
    BY <1>1, <1>2, <1>3, <1>6, <2>2, <2>3, ThreadAssumption DEF t
<1> QED
  BY <1>5, <1>6

LEMMA LeaverStep ==
    ASSUME TypeOK, MutexInv, IdsInv, OrderlyUse, LeaverInv, ListInv, FoundInv, [Next]_vars
    PROVE  LeaverInv'
<1>1. CASE InitWhole
  <2>1. /\ UNCHANGED << leave, tidOf, mode, frames >>
        /\ pc[Main] = "boot" /\ pc'[Main] = "init_lock"
        /\ \A u \in Thread \ {Main} : pc'[u] = pc[u]
    BY <1>1, ThreadAssumption DEF InitWhole, TypeOK, Goto
  <2>2. frames[Main] = << >>
    BY <2>1, ThreadAssumption DEF LeaverInv, InCalls, LeavePlaces, InLeave
  <2> QED
    BY <2>1, <2>2, LeaverQuiet, ThreadAssumption DEF Registering
<1>2. ASSUME NEW t \in Thread, Register(t) PROVE LeaverInv'
  <2>1. frames[t] = << >>
    BY <1>2, RegisterEffects DEF LeaverInv, Registering, InCalls, LeavePlaces, InLeave
  <2> QED
    BY <1>2, <2>1, RegisterEffects, LeaverQuiet DEF InCalls
<1>3. ASSUME NEW t \in Thread, Calls(t) PROVE LeaverInv'
  BY <1>3, CallEffects, LeaverQuiet DEF InCalls, Registering
<1>4. ASSUME NEW c \in Thread, NEW t \in Thread, my_pthread_create(c, t) PROVE LeaverInv'
  <2>1. pc'[Main] = "run" /\ Main \in Thread
    BY <1>4, CreateEffects, ThreadAssumption
  <2>2. ASSUME NEW u \in Thread, u # t
        PROVE  /\ pc'[u] = pc[u] /\ mode'[u] = mode[u] /\ tidOf'[u] = tidOf[u]
               /\ frames'[u] = frames[u] /\ leave'[u].target = leave[u].target
    BY <1>4, <2>2, CreateEffects
  <2>3. /\ t # Main /\ pc'[t] = "init_lock" /\ mode'[t] = "joinable"
        /\ frames'[t] = frames[t] /\ leave'[t] = leave[t] /\ pc[t] = "none"
    BY <1>4, CreateEffects
  <2>4. frames'[t] = << >> /\ leave'[t].target = NoThread
    BY <2>3 DEF LeaverInv, InCalls, LeavePlaces, InLeave
  <2> QED
    BY <2>1, <2>2, <2>3, <2>4 DEF LeaverInv, InCalls, LeavePlaces, InLeave
<1>5. ASSUME NEW c \in Thread, NEW t \in Thread, NEW call \in {"detach", "join"},
             Leave(c, t, call)
      PROVE  LeaverInv'
  <2>1. /\ pc[Main] = "run" /\ pc'[Main] = "leave_scan" /\ Main \in Thread
        /\ UNCHANGED << tidOf, mode, frames >>
        /\ \A u \in Thread \ {Main} : pc'[u] = pc[u] /\ leave'[u] = leave[u]
        /\ leave'[Main].target = t /\ leave'[Main].call = call
        /\ \/ t = Main /\ call = "detach" /\ frames[Main] = << >>
           \/ t # Main /\ pc[t] = "exited"
    BY <1>5, LeaveEffects, ThreadAssumption
  <2>2. frames[t] = << >>
    BY <2>1 DEF LeaverInv, InCalls, LeavePlaces, InLeave
  <2> QED
    BY <2>1, <2>2 DEF LeaverInv, InCalls, LeavePlaces, InLeave
<1>6. ASSUME NEW c \in Thread, LeaveFree(c) PROVE LeaverInv'
  <2>1. c = Main
    BY <1>6, FreeEffects DEF LeaverInv, LeavePlaces, InLeave
  <2>2. /\ UNCHANGED << leave, tidOf, mode, frames >> /\ Main \in Thread
        /\ pc[Main] = "leave_free" /\ pc'[Main] = "leave_real"
        /\ \A u \in Thread \ {Main} : pc'[u] = pc[u]
    BY <1>6, <2>1, FreeEffects
  <2> QED
    BY <2>2 DEF LeaverInv, LeavePlaces, InLeave
<1>7. ASSUME NEW c \in Thread, RealDetach(c) \/ RealJoin(c) PROVE LeaverInv'
  <2> DEFINE t == leave[Main].target
  <2>1. /\ pc[Main] = "leave_real" /\ pc'[Main] = "leave_unlist" /\ Main \in Thread
        /\ UNCHANGED frames /\ t \in Thread
        /\ \A u \in Thread \ {Main} : leave'[u].target = leave[u].target
        /\ \A u \in Thread \ {t} : mode'[u] = mode[u] /\ tidOf'[u] = tidOf[u]
        /\ \A u \in Thread \ {t, Main} : pc'[u] = pc[u]
        /\ \/ t = Main /\ mode'[t] = "detached"
           \/ t # Main /\ pc[t] = "exited" /\ pc'[t] = "none" /\ tidOf'[t] = 0
    BY <1>7, OrderlyReal, ThreadAssumption
  <2>2. frames[t] = << >>
    BY <2>1 DEF LeaverInv, InLeave
  <2> HIDE DEF t
  <2> QED
    BY <2>1, <2>2 DEF LeaverInv, InCalls, LeavePlaces, InLeave
<1>8. ASSUME NEW c \in Thread, LeaveUnlist(c) PROVE LeaverInv'
  <2>1. /\ UNCHANGED << tidOf, mode, frames >>
        /\ pc[c] = "leave_unlist"
        /\ pc'[c] = IF c = Main /\ mode[c] = "detached" THEN "ended" ELSE "run"
        /\ \A u \in Thread \ {c} : pc'[u] = pc[u] /\ leave'[u] = leave[u]
        /\ leave'[c].target = NoThread
    BY <1>8, UnlistEffects DEF NoLeave
  <2>2. c = Main
    BY <2>1 DEF LeaverInv, LeavePlaces
  <2>3. mode[Main] = "detached" => frames[Main] = << >>
    BY <2>1, <2>2 DEF LeaverInv
  <2> QED
    BY <2>1, <2>2, <2>3 DEF LeaverInv, InCalls, LeavePlaces, InLeave
<1>9. ASSUME NEW t \in Thread, Exit(t) PROVE LeaverInv'
  <2>1. /\ pc[t] = "run" /\ t # Main /\ leave' = leave
        /\ \A u \in Thread \ {t} : /\ pc'[u] = pc[u] /\ frames'[u] = frames[u]
                                   /\ mode'[u] = mode[u] /\ tidOf'[u] = tidOf[u]
        /\ frames'[t] = << >>
        /\ \/ pc'[t] = "none" /\ tidOf'[t] = 0
           \/ pc'[t] = "exited" /\ tidOf'[t] = tidOf[t] /\ mode'[t] = mode[t]
    BY <1>9, ExitEffects
  <2>2. mode[t] # "detached"
    BY <2>1 DEF LeaverInv
  <2>3. pc'[t] = "exited"
    BY <1>9, <2>2 DEF Exit, TypeOK, Goto
  <2>4. pc[Main] \in InLeave => leave[Main].target # t
    BY <2>1 DEF LeaverInv
  <2>5. tidOf'[t] = tidOf[t] /\ mode'[t] = mode[t]
    BY <2>1, <2>3
  <2>6. pc'[Main] = pc[Main]
    BY <2>1, ThreadAssumption
  <2> QED
    BY <2>1, <2>3, <2>4, <2>5, <2>6 DEF LeaverInv, InCalls, LeavePlaces, InLeave
<1>10. CASE Restart
  BY <1>10, ThreadAssumption DEF Restart, LeaverInv, NoLeave, InLeave, LeavePlaces
<1>11. CASE UNCHANGED vars
  BY <1>11 DEF vars, threads, LeaverInv
<1>12. ASSUME NEW c \in Thread, Lookup(c) PROVE LeaverInv'
  <2>1. /\ c = Main /\ UNCHANGED << tidOf, mode, frames >>
        /\ pc[Main] \in Looking /\ pc'[Main] \in Looking \cup {"leave_free"}
        /\ \A u \in Thread \ {Main} : pc'[u] = pc[u] /\ leave'[u] = leave[u]
        /\ leave'[Main].target = leave[Main].target /\ leave'[Main].call = leave[Main].call
    BY <1>12, LookupEffects
  <2>2. pc'[Main] = "leave_free" => leave'[Main].subtid = tidOf[leave[Main].target]
    <3>1. CASE LookupScan(c)
      BY <2>1, <3>1, ThreadAssumption DEF LookupScan, TypeOK, Goto, Looking
    <3>2. CASE LookupFails(c)
      BY <2>1, <3>2, LookupListed DEF LookupFails
    <3>3. CASE LookupRead(c)
      <4>1. /\ pc[Main] = "leave_read"
            /\ leave' = [leave EXCEPT ![c].subtid = fake[at[c]].tid]
        BY <2>1, <3>3 DEF LookupRead
      <4>2. leave'[c].subtid = fake[at[c]].tid
        BY <4>1, SubtidOnly
      <4> QED
        BY <2>1, <4>1, <4>2, LookupListed
    <3> QED
      BY <1>12, <3>1, <3>2, <3>3 DEF Lookup
  <2>3. /\ pc'[Main] \notin {"none", "exited", "leave_real"} /\ pc'[Main] \in InLeave
        /\ pc[Main] \in InLeave /\ InLeave \subseteq LeavePlaces
        /\ pc[Main] \notin {"none", "exited", "leave_unlist", "ended"}
    BY <2>1 DEF Looking, InLeave, LeavePlaces
  <2>4. \A u \in Thread :
          /\ pc'[u] # "none" => \/ mode'[u] = "joinable"
                                \/ /\ u = Main /\ mode'[u] = "detached"
                                   /\ pc'[u] \in {"leave_unlist", "ended"}
          /\ pc'[u] = "none" => tidOf'[u] = 0
          /\ u # Main => /\ pc'[u] \notin LeavePlaces \cup {"ended"}
                         /\ leave'[u].target = NoThread
          /\ frames'[u] # << >> => /\ pc'[u] \in InCalls \cup LeavePlaces \cup {"lost"}
                                   /\ mode'[u] = "joinable"
    BY <2>1, <2>3 DEF LeaverInv
  <2>5. /\ leave'[Main].target \in Thread /\ frames'[leave'[Main].target] = << >>
        /\ \/ leave'[Main].target = Main /\ leave'[Main].call = "detach"
           \/ leave'[Main].target # Main /\ pc'[leave'[Main].target] = "exited"
    BY <2>1, <2>3 DEF LeaverInv
  <2> QED
    BY <2>1, <2>2, <2>3, <2>4, <2>5 DEF LeaverInv
<1> QED
  BY <1>1, <1>2, <1>3, <1>4, <1>5, <1>6, <1>7, <1>8, <1>9, <1>10, <1>11, <1>12
     DEF Next, Finish, Calls
-----------------------------------------------------------------------------
(* There is room for every thread.                                         *)

LEMMA OneTooMany ==
    ASSUME IsFiniteSet(Thread), NEW n \in Nat \ {0}, Cardinality(Thread) =< n,
           NEW t \in Thread, NEW f \in [0 .. n - 1 -> Thread \ {t}]
    PROVE  \E x, y \in 0 .. n - 1 : x # y /\ f[x] = f[y]
<1>1. /\ IsFiniteSet(Thread \ {t}) /\ Cardinality(Thread) \in Nat
      /\ Cardinality(Thread \ {t}) = Cardinality(Thread) - 1
  BY FS_RemoveElement, FS_CardinalityType
<1>2. IsFiniteSet(0 .. n - 1) /\ Cardinality(0 .. n - 1) = n
  <2>1. 0 \in Int /\ n - 1 \in Int /\ ~ 0 > n - 1
    OBVIOUS
  <2> QED
    BY <2>1, FS_Interval
<1>3. Cardinality(Thread \ {t}) < Cardinality(0 .. n - 1)
  BY <1>1, <1>2
<1> QED
  BY <1>1, <1>2, <1>3, FS_PigeonHole

LEMMA FreeEntryFirst ==
    ASSUME NEW e \in FakeIndex, fake[e].value = NoThread \/ fake[e].flag = 0
    PROVE  FreeEntry \in FakeIndex /\ FreeEntry =< e
<1> DEFINE P == {f \in FakeIndex : fake[f].value = NoThread \/ fake[f].flag = 0}
<1>1. P \in SUBSET Nat /\ e \in P
  BY Sizes
<1>2. FirstIn(P) \in P /\ FirstIn(P) =< e
  BY <1>1, FirstInProperties
<1> QED
  BY <1>2 DEF FreeEntry

\* A thread that is about to be listed finds an entry.
LEMMA ListHasRoom ==
    ASSUME TypeOK, IdsInv, OrderlyUse, LeaverInv, ListInv,
           NEW t \in Thread, pc[t] = "list_lock"
    PROVE  FreeEntry # NotFound
<1> SUFFICES ASSUME FreeEntry = NotFound PROVE FALSE
  OBVIOUS
<1>1. \A e \in FakeIndex : fake[e].flag = 1
  <2> SUFFICES ASSUME NEW e \in FakeIndex, fake[e].flag # 1 PROVE FALSE
    OBVIOUS
  <2>1. fake[e].flag = 0
    BY DEF TypeOK, FakeEntry
  <2> QED
    BY <2>1, FreeEntryFirst, Sizes
<1> DEFINE f == [e \in FakeIndex |-> fake[e].value]
<1>2. ASSUME NEW e \in FakeIndex PROVE fake[e].value \in Thread \ {t}
  BY <1>1 DEF ListInv, Registering
<1>3. ASSUME NEW d \in FakeIndex, NEW e \in FakeIndex, fake[d].value = fake[e].value
      PROVE  d = e
  <2> DEFINE u == fake[d].value
  <2>1. u \in Thread /\ (pc[u] = "none" => tidOf[u] = 0)
    BY <1>2 DEF LeaverInv
  <2>2. \A g \in {d, e} : /\ fake[g].tid # 0
                          /\ tidOf[u] = fake[g].tid \/ (leave[Main].subtid = fake[g].tid /\ pc[u] = "none")
    BY <1>1, <1>3 DEF ListInv
  <2> HIDE DEF u
  <2>3. fake[d].tid = fake[e].tid
    BY <2>1, <2>2
  <2> QED
    BY <2>2, <2>3 DEF ListInv
<1>4. f \in [0 .. FAKE_NUM - 1 -> Thread \ {t}]
  BY <1>2 DEF FakeIndex
<1>5. \E d, e \in FakeIndex : d # e /\ f[d] = f[e]
  BY <1>4, OneTooMany, BoundAssumption DEF FakeIndex, OrderlyUse
<1> QED
  BY <1>3, <1>5

-----------------------------------------------------------------------------
(* The list's invariant.                                                   *)

\* A step that leaves the list alone.
LEMMA ListQuiet ==
    ASSUME ListInv, UNCHANGED fake,
           \A e \in FakeIndex :
              fake[e].flag = 1 =>
                 \/ tidOf'[fake[e].value] = fake[e].tid
                 \/ /\ pc'[Main] = "leave_unlist" /\ leave'[Main].subtid = fake[e].tid
                    /\ pc'[fake[e].value] = "none",
           \A u \in Thread :
              /\ Listed(u)' => Listed(u) /\ tidOf'[u] = tidOf[u]
              /\ pc'[u] \in Registering => \A e \in FakeIndex : fake[e].tid # tidOf'[u]
              /\ pc'[u] = "list_fill" => pc[u] = "list_fill" /\ at'[u] = at[u]
    PROVE  ListInv'
<1>1. \A u \in Thread :
         Listed(u)' => \E e \in FakeIndex :
                          /\ fake'[e].value = u /\ fake'[e].tid = tidOf'[u] /\ fake'[e].flag = 1
                          /\ \A f \in FakeIndex : fake'[f].value = u => e =< f
  BY DEF ListInv
<1>2. \A u \in Thread :
         /\ pc'[u] \in Registering => \A e \in FakeIndex : fake'[e].tid # tidOf'[u]
         /\ pc'[u] = "list_fill" => /\ fake'[at'[u]].flag = 0
                                    /\ \A f \in FakeIndex : fake'[f].value = u => at'[u] =< f
  BY DEF ListInv
<1>3. \A e \in FakeIndex :
          fake'[e].flag = 1 =>
             /\ fake'[e].tid # 0 /\ fake'[e].value \in Thread
             /\ \/ tidOf'[fake'[e].value] = fake'[e].tid
                \/ /\ pc'[Main] = "leave_unlist" /\ leave'[Main].subtid = fake'[e].tid
                   /\ pc'[fake'[e].value] = "none"
  BY DEF ListInv
<1>4. \A e, f \in FakeIndex : fake'[e].tid # 0 /\ fake'[e].tid = fake'[f].tid => e = f
  BY DEF ListInv
<1> QED
  BY <1>1, <1>2, <1>3, <1>4 DEF ListInv

\* One that neither ends nor begins a thread, but for those that are listed.
LEMMA ListIdle ==
    ASSUME ListInv, UNCHANGED << fake, tidOf >>, NEW t \in Thread,
           pc[t] # "leave_unlist", pc[t] # "none",
           \A u \in Thread : Awaited(u)' => Awaited(u),
           \A u \in Thread \ {t} : pc'[u] = pc[u] /\ at'[u] = at[u],
           pc'[t] \in Registering => pc[t] \in Registering /\ pc'[t] # "list_fill",
           pc'[t] \in InCalls \cup LeavePlaces \cup {"exited"}
              => pc[t] \in InCalls \cup LeavePlaces \cup {"exited"},
           Main # t => leave'[Main] = leave[Main]
    PROVE  ListInv'
<1>1. ASSUME NEW e \in FakeIndex, fake[e].flag = 1
      PROVE  \/ tidOf'[fake[e].value] = fake[e].tid
             \/ /\ pc'[Main] = "leave_unlist" /\ leave'[Main].subtid = fake[e].tid
                /\ pc'[fake[e].value] = "none"
  BY <1>1, ThreadAssumption DEF ListInv
<1>2. ASSUME NEW u \in Thread
      PROVE  /\ Listed(u)' => Listed(u) /\ tidOf'[u] = tidOf[u]
             /\ pc'[u] \in Registering => \A e \in FakeIndex : fake[e].tid # tidOf'[u]
             /\ pc'[u] = "list_fill" => pc[u] = "list_fill" /\ at'[u] = at[u]
  BY DEF ListInv, Listed, Registering
<1> QED
  BY <1>1, <1>2, ListQuiet

LEMMA ListRegister ==
    ASSUME TypeOK, MutexInv, IdsInv, OrderlyUse, LeaverInv, ListInv,
           NEW t \in Thread, Register(t)
    PROVE  ListInv'
<1>1. /\ UNCHANGED << leave, tidOf, lastTid, mode, frames >>
      /\ pc[t] \in Registering /\ pc'[t] \in Registering \cup {"run"}
      /\ \A u \in Thread \ {t} : pc'[u] = pc[u] /\ at'[u] = at[u]
      /\ \A u \in Thread : Awaited(u)' => Awaited(u)
  BY RegisterEffects
<1>2. CASE \/ InitLock(t) \/ InitScan(t) \/ InitFull(t)
           \/ InitClaim(t) \/ InitClear(t)
  <2>1. fake' = fake /\ pc'[t] \in Registering \ {"list_fill"}
    BY <1>2 DEF InitLock, InitScan, InitFull, InitClaim, InitClear, TypeOK, Goto, tables,
                Registering
  <2> QED
    BY <1>1, <2>1, ListIdle DEF Registering, InCalls, LeavePlaces, InLeave
<1>3. CASE ListLock(t)
  <2> DEFINE e == FreeEntry
  <2>1. /\ e \in FakeIndex
        /\ fake[e].value = NoThread \/ fake[e].flag = 0
    BY <1>3, FreeEntryProperties DEF ListLock
  <2>2. ASSUME NEW f \in FakeIndex, fake[f].value = t PROVE e =< f
    <3>1. fake[f].flag # 1
      BY <1>1, <1>3, <2>2 DEF ListLock, ListInv, Registering
    <3>2. fake[f].flag = 0
      BY <3>1 DEF TypeOK, FakeEntry
    <3> QED
      BY <3>2, FreeEntryFirst
  <2>3. /\ fake' = [fake EXCEPT ![e].value = t] /\ at'[t] = e
        /\ pc[t] = "list_lock" /\ pc'[t] = "list_fill"
    BY <1>3 DEF ListLock, TypeOK, Goto
  <2> HIDE DEF e
  <2>4. \A f \in FakeIndex : /\ fake'[f].value = IF f = e THEN t ELSE fake[f].value
                             /\ fake'[f].tid = fake[f].tid /\ fake'[f].flag = fake[f].flag
    BY <2>3 DEF TypeOK, FakeEntry
  <2>5. fake[e].flag = 0
    <3>1. fake[e].flag # 1
      BY <2>1, ThreadAssumption DEF ListInv
    <3> QED
      BY <2>1, <3>1 DEF TypeOK, FakeEntry
  <2>6. \A f, g \in FakeIndex : fake'[f].tid # 0 /\ fake'[f].tid = fake'[g].tid => f = g
    BY <2>4 DEF ListInv
  <2>7. ASSUME NEW f \in FakeIndex, fake'[f].flag = 1
        PROVE  /\ fake'[f].tid # 0 /\ fake'[f].value \in Thread
               /\ \/ tidOf'[fake'[f].value] = fake'[f].tid
                  \/ /\ pc'[Main] = "leave_unlist" /\ leave'[Main].subtid = fake'[f].tid
                     /\ pc'[fake'[f].value] = "none"
    <3>1. f # e /\ fake'[f].value = fake[f].value /\ fake'[f].tid = fake[f].tid /\ fake[f].flag = 1
      BY <2>4, <2>5, <2>7
    <3>2. \A u \in Thread : pc[u] \in {"none", "leave_unlist"} => pc'[u] = pc[u]
      BY <1>1 DEF Registering
    <3> QED
      BY <1>1, <3>1, <3>2, ThreadAssumption DEF ListInv
  <2>8. ASSUME NEW u \in Thread, Listed(u)'
        PROVE  \E f \in FakeIndex :
                  /\ fake'[f].value = u /\ fake'[f].tid = tidOf'[u] /\ fake'[f].flag = 1
                  /\ \A g \in FakeIndex : fake'[g].value = u => f =< g
    <3>1. u # t /\ Listed(u)
      BY <1>1, <2>3, <2>8 DEF Listed, InCalls, LeavePlaces, InLeave
    <3>2. PICK f \in FakeIndex :
             /\ fake[f].value = u /\ fake[f].tid = tidOf[u] /\ fake[f].flag = 1
             /\ \A g \in FakeIndex : fake[g].value = u => f =< g
      BY <3>1 DEF ListInv
    <3>3. f # e
      BY <2>5, <3>2
    <3> QED
      BY <1>1, <2>4, <3>1, <3>2, <3>3
  <2>9. ASSUME NEW u \in Thread
        PROVE  /\ pc'[u] \in Registering => \A f \in FakeIndex : fake'[f].tid # tidOf'[u]
               /\ pc'[u] = "list_fill" => /\ fake'[at'[u]].flag = 0
                                          /\ \A f \in FakeIndex : fake'[f].value = u => at'[u] =< f
    <3>1. pc'[u] \in Registering => pc[u] \in Registering
      BY <1>1
    <3>2. pc'[u] = "list_fill" => u = t
      BY <1>1, <1>3, ThreadAssumption DEF MutexInv, ListLock
    <3>3. \A f \in FakeIndex : fake'[f].value = t => e =< f
      BY <2>1, <2>2, <2>4, Sizes
    <3> QED
      BY <1>1, <2>1, <2>3, <2>4, <2>5, <3>1, <3>2, <3>3 DEF ListInv
  <2> QED
    BY <2>6, <2>7, <2>8, <2>9 DEF ListInv
<1>4. CASE ListFull(t)
  BY <1>4, ListHasRoom DEF ListFull
<1>5. CASE ListFill(t)
  <2> DEFINE e == at[t]
  <2>1. /\ pc[t] = "list_fill" /\ pc'[t] = "run"
        /\ fake' = [fake EXCEPT ![e].tid = tidOf[t], ![e].flag = 1]
        /\ e \in FakeIndex /\ fake[e].value = t /\ tidOf[t] # 0
    BY <1>5 DEF ListFill, TypeOK, Goto, MutexInv, IdsInv
  <2>2. /\ \A f \in FakeIndex : fake[f].tid # tidOf[t]
        /\ \A f \in FakeIndex : fake[f].value = t => e =< f
    BY <2>1 DEF ListInv, Registering
  <2>3. \A u \in Thread \ {t} : pc[u] # "list_fill"
    BY <2>1 DEF MutexInv
  <2> HIDE DEF e
  <2>4. \A f \in FakeIndex : /\ fake'[f].value = fake[f].value
                             /\ fake'[f].tid = IF f = e THEN tidOf[t] ELSE fake[f].tid
                             /\ fake'[f].flag = IF f = e THEN 1 ELSE fake[f].flag
    BY <2>1 DEF TypeOK, FakeEntry
  <2>5. \A f, g \in FakeIndex : fake'[f].tid # 0 /\ fake'[f].tid = fake'[g].tid => f = g
    BY <2>2, <2>4 DEF ListInv
  <2>6. ASSUME NEW f \in FakeIndex, fake'[f].flag = 1
        PROVE  /\ fake'[f].tid # 0 /\ fake'[f].value \in Thread
               /\ \/ tidOf'[fake'[f].value] = fake'[f].tid
                  \/ /\ pc'[Main] = "leave_unlist" /\ leave'[Main].subtid = fake'[f].tid
                     /\ pc'[fake'[f].value] = "none"
    <3>1. \A u \in Thread : pc[u] \in {"none", "leave_unlist"} => pc'[u] = pc[u]
      BY <1>1 DEF Registering
    <3>2. CASE f = e
      BY <1>1, <2>1, <2>4, <3>2
    <3>3. CASE f # e
      BY <1>1, <2>4, <2>6, <3>1, <3>3, ThreadAssumption DEF ListInv
    <3> QED
      BY <3>2, <3>3
  <2>7. ASSUME NEW u \in Thread, Listed(u)'
        PROVE  \E f \in FakeIndex :
                  /\ fake'[f].value = u /\ fake'[f].tid = tidOf'[u] /\ fake'[f].flag = 1
                  /\ \A g \in FakeIndex : fake'[g].value = u => f =< g
    <3>1. CASE u = t
      BY <1>1, <2>1, <2>2, <2>4, <3>1
    <3>2. CASE u # t
      <4>1. Listed(u)
        BY <1>1, <2>7, <3>2 DEF Listed
      <4>2. PICK f \in FakeIndex :
               /\ fake[f].value = u /\ fake[f].tid = tidOf[u] /\ fake[f].flag = 1
               /\ \A g \in FakeIndex : fake[g].value = u => f =< g
        BY <4>1 DEF ListInv
      <4>3. f # e
        BY <2>1, <3>2, <4>2
      <4>4. fake'[f].value = u /\ fake'[f].tid = tidOf'[u] /\ fake'[f].flag = 1
        BY <1>1, <2>4, <4>2, <4>3
      <4>5. \A g \in FakeIndex : fake'[g].value = u => f =< g
        BY <2>4, <4>2
      <4> QED
        BY <4>4, <4>5
    <3> QED
      BY <3>1, <3>2
  <2>8. ASSUME NEW u \in Thread
        PROVE  /\ pc'[u] \in Registering => \A f \in FakeIndex : fake'[f].tid # tidOf'[u]
               /\ pc'[u] # "list_fill"
    <3>1. pc'[u] \in Registering => u # t /\ pc[u] \in Registering
      BY <1>1, <2>1 DEF Registering
    <3>2. u # t => tidOf[u] # tidOf[t]
      BY <2>1 DEF IdsInv
    <3>3. pc'[u] # "list_fill"
      BY <1>1, <2>1, <2>3
    <3>4. pc'[u] \in Registering => \A f \in FakeIndex : fake[f].tid # tidOf[u]
      BY <3>1 DEF ListInv
    <3> QED
      BY <1>1, <2>4, <3>1, <3>2, <3>3, <3>4
  <2> QED
    BY <2>5, <2>6, <2>7, <2>8 DEF ListInv
<1> QED
  BY <1>2, <1>3, <1>4, <1>5 DEF Register

LEMMA ListCalls ==
    ASSUME TypeOK, ListInv, NEW t \in Thread, Calls(t)
    PROVE  ListInv'
<1>1. /\ UNCHANGED << fake, leave, tidOf >>
      /\ pc[t] \in InCalls /\ pc'[t] \in InCalls \cup {"lost"}
      /\ \A u \in Thread \ {t} : pc'[u] = pc[u] /\ at'[u] = at[u]
      /\ \A u \in Thread : Awaited(u)' => Awaited(u)
  BY CallEffects
<1> QED
  BY <1>1, ListIdle DEF InCalls, Registering

LEMMA ListCreate ==
    ASSUME TypeOK, IdsInv, OrderlyUse, LeaverInv, ListInv,
           NEW c \in Thread, NEW t \in Thread, my_pthread_create(c, t)
    PROVE  ListInv'
<1>1. /\ UNCHANGED << fake, at, leave >> /\ pc[Main] = "run"
      /\ pc[t] = "none" /\ pc'[t] = "init_lock" /\ tidOf'[t] = lastTid + 1
      /\ \A u \in Thread \ {t} : pc'[u] = pc[u] /\ tidOf'[u] = tidOf[u]
      /\ \A u \in Thread \ {t} : Awaited(u)' => Awaited(u)
  BY CreateEffects DEF tables
<1>2. ASSUME NEW e \in FakeIndex PROVE fake[e].tid # lastTid + 1
  <2>1. fake[e].tid \in Nat
    BY Sizes DEF TypeOK, FakeEntry
  <2>2. fake[e].tid =< lastTid
    BY DEF IdsInv
  <2>3. lastTid \in Nat
    BY TidTypes
  <2> QED
    BY <2>1, <2>2, <2>3
<1>3. ASSUME NEW e \in FakeIndex, fake[e].flag = 1
      PROVE  tidOf'[fake[e].value] = fake[e].tid
  <2>1. /\ fake[e].value \in Thread /\ fake[e].tid # 0
        /\ tidOf[fake[e].value] = fake[e].tid
    BY <1>1, <1>3 DEF ListInv
  <2>2. fake[e].value # t
    BY <1>1, <2>1 DEF LeaverInv
  <2> QED
    BY <1>1, <2>1, <2>2
<1>4. ASSUME NEW u \in Thread
      PROVE  /\ Listed(u)' => Listed(u) /\ tidOf'[u] = tidOf[u]
             /\ pc'[u] \in Registering => \A e \in FakeIndex : fake[e].tid # tidOf'[u]
             /\ pc'[u] = "list_fill" => pc[u] = "list_fill" /\ at'[u] = at[u]
  <2>1. CASE u = t
    BY <1>1, <1>2, <2>1 DEF Listed, InCalls, LeavePlaces, InLeave
  <2>2. CASE u # t
    BY <1>1, <2>2 DEF ListInv, Listed
  <2> QED
    BY <2>1, <2>2
<1> QED
  BY <1>1, <1>3, <1>4, ListQuiet

LEMMA ListLeave ==
    ASSUME TypeOK, IdsInv, OrderlyUse, LeaverInv, ListInv,
           NEW c \in Thread, NEW t \in Thread, NEW call \in {"detach", "join"},
           Leave(c, t, call)
    PROVE  ListInv'
<1>1. /\ UNCHANGED << fake, tidOf >>
      /\ pc[Main] = "run" /\ pc'[Main] = "leave_scan"
      /\ \A u \in Thread \ {Main} : pc'[u] = pc[u] /\ at'[u] = at[u]
      /\ \A u \in Thread : Awaited(u)' => Awaited(u)
  BY LeaveEffects DEF tables
<1> QED
  BY <1>1, ListIdle, ThreadAssumption DEF Registering, InCalls, LeavePlaces, InLeave

LEMMA ListLookup ==
    ASSUME TypeOK, LeaverInv, ListInv, NEW c \in Thread, Lookup(c)
    PROVE  ListInv'
<1>1. /\ UNCHANGED << fake, tidOf >> /\ c = Main
      /\ pc[Main] \in Looking /\ pc'[Main] \in Looking \cup {"leave_free"}
      /\ \A u \in Thread \ {Main} : pc'[u] = pc[u] /\ at'[u] = at[u]
      /\ \A u \in Thread : Awaited(u)' => Awaited(u)
  BY LookupEffects DEF tables
<1> QED
  BY <1>1, ListIdle DEF Registering, InCalls, LeavePlaces, InLeave, Looking

LEMMA ListFree ==
    ASSUME TypeOK, LeaverInv, ListInv, NEW c \in Thread, LeaveFree(c)
    PROVE  ListInv'
<1>1. /\ UNCHANGED << fake, at, tidOf, leave >>
      /\ pc[c] = "leave_free" /\ pc'[c] = "leave_real"
      /\ \A u \in Thread \ {c} : pc'[u] = pc[u]
      /\ \A u \in Thread : Awaited(u)' => Awaited(u)
  BY FreeEffects
<1> QED
  BY <1>1, ListIdle DEF Registering, InCalls, LeavePlaces, InLeave

\* An ended thread keeps its entry while its id is the one to be freed.
LEMMA ListReal ==
    ASSUME TypeOK, LeaverInv, ListInv, NEW c \in Thread, RealDetach(c) \/ RealJoin(c)
    PROVE  ListInv'
<1>1. PICK t \in Thread :
         /\ UNCHANGED << fake, at >> /\ leave[Main].subtid = tidOf[t]
         /\ leave'[Main].subtid = leave[Main].subtid
         /\ pc[Main] = "leave_real" /\ pc'[Main] = "leave_unlist"
         /\ \A u \in Thread \ {t} : /\ tidOf'[u] = tidOf[u]
                                    /\ NotLeft(u)' <=> NotLeft(u)
         /\ \A u \in Thread \ {t, Main} : pc'[u] = pc[u]
         /\ \/ t = Main /\ tidOf'[t] = tidOf[t] /\ mode'[t] = "detached"
            \/ t # Main /\ pc'[t] = "none"
  BY OrderlyReal DEF tables
<1>2. ~ Listed(t)'
  BY <1>1 DEF Listed, Awaited, Looking, NotLeft, InCalls, LeavePlaces, InLeave
<1>3. ASSUME NEW e \in FakeIndex, fake[e].flag = 1
      PROVE  \/ tidOf'[fake[e].value] = fake[e].tid
             \/ /\ pc'[Main] = "leave_unlist" /\ leave'[Main].subtid = fake[e].tid
                /\ pc'[fake[e].value] = "none"
  <2>1. /\ fake[e].value \in Thread
        /\ tidOf[fake[e].value] = fake[e].tid
    BY <1>1, <1>3 DEF ListInv
  <2> QED
    BY <1>1, <2>1
<1>4. ASSUME NEW u \in Thread
      PROVE  /\ Listed(u)' => Listed(u) /\ tidOf'[u] = tidOf[u]
             /\ pc'[u] \in Registering => \A e \in FakeIndex : fake[e].tid # tidOf'[u]
             /\ pc'[u] = "list_fill" => pc[u] = "list_fill" /\ at'[u] = at[u]
  <2>1. pc'[u] \in Registering => u # t /\ pc'[u] = pc[u]
    BY <1>1 DEF Registering
  <2>2. Listed(u)' => u # t /\ Listed(u)
    BY <1>1, <1>2 DEF Listed, Awaited, Looking, InCalls, LeavePlaces, InLeave
  <2> QED
    BY <1>1, <2>1, <2>2 DEF ListInv, Registering
<1> QED
  BY <1>1, <1>3, <1>4, ListQuiet

\* free_fake_pthread clears the flag of an id that is listed once.
LEMMA FakeFreedFlags ==
    ASSUME fake \in [FakeIndex -> FakeEntry], NEW tid, NEW e \in FakeIndex,
           FakeFreed(tid)[e].flag = 1
    PROVE  /\ fake[e].flag = 1
           /\ fake[e].tid = tid => \E f \in FakeIndex : f # e /\ fake[f].tid = tid
<1> DEFINE P == {f \in FakeIndex : fake[f].tid = tid}
           g == FirstIn(P)
<1>1. g # NotFound => g \in P
  BY FakeSearch
<1>2. P # {} => g # NotFound
  <2>1. P \in SUBSET Nat
    BY Sizes
  <2> QED
    BY <2>1, FirstInProperties
<1>3. FakeFreed(tid) = IF g = NotFound THEN fake ELSE [fake EXCEPT ![g].flag = 0]
  BY DEF FakeFreed
<1>4. g \in P => fake[g].tid = tid /\ g \in FakeIndex
  OBVIOUS
<1>5. fake[e].tid = tid => P # {}
  OBVIOUS
<1> HIDE DEF g, P
<1>6. ASSUME NEW list, list = [fake EXCEPT ![g].flag = 0], list[e].flag = 1
      PROVE  e # g /\ fake[e].flag = 1
  BY <1>6 DEF FakeEntry
<1> QED
  BY <1>1, <1>2, <1>3, <1>4, <1>5, <1>6

LEMMA ListUnlist ==
    ASSUME TypeOK, IdsInv, MutexInv, LeaverInv, ListInv, FoundInv, NEW c \in Thread, LeaveUnlist(c)
    PROVE  ListInv'
<1> DEFINE tid == leave[Main].subtid
<1>1. c = Main
  BY UnlistEffects DEF LeaverInv, LeavePlaces
<1>2. /\ UNCHANGED << at, tidOf >> /\ fake_mutex = NoThread /\ Main \in Thread
      /\ pc[Main] = "leave_unlist" /\ pc'[Main] \in {"ended", "run"}
      /\ \A u \in Thread \ {Main} : pc'[u] = pc[u]
      /\ \A u \in Thread : Awaited(u)' => Awaited(u)
      /\ fake' = FakeFreed(tid)
  BY <1>1, UnlistEffects
<1>3. \A e \in FakeIndex : /\ fake'[e].value = fake[e].value
                           /\ fake'[e].tid = fake[e].tid
                           /\ fake'[e].flag # fake[e].flag => fake[e].tid = tid
  BY <1>2, FakeFreedType DEF TypeOK
<1>4. ASSUME NEW e \in FakeIndex, fake'[e].flag = 1
      PROVE  /\ fake[e].flag = 1
             /\ fake[e].tid = tid => \E f \in FakeIndex : f # e /\ fake[f].tid = tid
  BY <1>2, <1>4, FakeFreedFlags DEF TypeOK
<1>5. \A u \in Thread : tidOf[u] # 0 /\ NotLeft(u) => tidOf[u] # tid
  BY <1>2 DEF IdsInv, Kept, FoundInv
<1> HIDE DEF tid
<1>6. \A e, f \in FakeIndex : fake'[e].tid # 0 /\ fake'[e].tid = fake'[f].tid => e = f
  BY <1>3 DEF ListInv
<1>7. ASSUME NEW e \in FakeIndex, fake'[e].flag = 1
      PROVE  /\ fake'[e].tid # 0 /\ fake'[e].value \in Thread
             /\ tidOf'[fake'[e].value] = fake'[e].tid
  <2>1. /\ fake[e].tid # 0 /\ fake[e].value \in Thread
        /\ tidOf[fake[e].value] = fake[e].tid \/ tid = fake[e].tid
    BY <1>4, <1>7 DEF ListInv, tid
  <2>2. tid # fake[e].tid
    BY <1>4, <1>7, <2>1 DEF ListInv
  <2> QED
    BY <1>2, <1>3, <2>1, <2>2
<1>8. ASSUME NEW u \in Thread, Listed(u)'
      PROVE  \E e \in FakeIndex :
                /\ fake'[e].value = u /\ fake'[e].tid = tidOf'[u] /\ fake'[e].flag = 1
                /\ \A f \in FakeIndex : fake'[f].value = u => e =< f
  <2>1. Listed(u) /\ NotLeft(u) /\ pc[u] # "none"
    BY <1>2, <1>8 DEF Listed, Awaited, Looking, InCalls, LeavePlaces, InLeave
  <2>2. PICK e \in FakeIndex :
           /\ fake[e].value = u /\ fake[e].tid = tidOf[u] /\ fake[e].flag = 1
           /\ \A f \in FakeIndex : fake[f].value = u => e =< f
    BY <2>1 DEF ListInv
  <2>3. tidOf[u] # tid
    BY <1>5, <2>1 DEF IdsInv
  <2>4. fake'[e].value = u /\ fake'[e].tid = tidOf'[u] /\ fake'[e].flag = 1
    BY <1>2, <1>3, <2>2, <2>3
  <2>5. \A f \in FakeIndex : fake'[f].value = u => e =< f
    BY <1>3, <2>2
  <2> QED
    BY <2>4, <2>5
<1>9. ASSUME NEW u \in Thread
      PROVE  /\ pc'[u] \in Registering => \A e \in FakeIndex : fake'[e].tid # tidOf'[u]
             /\ pc'[u] # "list_fill"
  <2>1. pc'[u] \in Registering => u # Main /\ pc[u] \in Registering
    BY <1>2 DEF Registering
  <2>2. pc'[u] # "list_fill"
    BY <1>2, ThreadAssumption DEF MutexInv
  <2> QED
    BY <1>2, <1>3, <2>1, <2>2 DEF ListInv
<1> QED
  BY <1>6, <1>7, <1>8, <1>9 DEF ListInv

LEMMA ListExit ==
    ASSUME TypeOK, LeaverInv, ListInv, NEW t \in Thread, Exit(t)
    PROVE  ListInv'
<1>1. /\ UNCHANGED << fake, at, leave >>
      /\ t # Main /\ pc[t] = "run"
      /\ \A u \in Thread \ {t} : /\ pc'[u] = pc[u] /\ mode'[u] = mode[u]
                                 /\ tidOf'[u] = tidOf[u]
  BY ExitEffects DEF tables
<1>2. pc'[t] = "exited" /\ UNCHANGED << mode, tidOf >>
  <2>1. mode[t] # "detached"
    BY <1>1 DEF LeaverInv
  <2> QED
    BY <2>1 DEF Exit, TypeOK, Goto
<1>3. \A u \in Thread : Awaited(u)' => Awaited(u)
  BY <1>1, <1>2, ThreadAssumption DEF Awaited, NotLeft
<1> QED
  BY <1>1, <1>2, <1>3, ListIdle DEF Registering, InCalls, LeavePlaces, InLeave

LEMMA ListFresh ==
    ASSUME fake = [e \in FakeIndex |-> EmptyEntry],
           \A u \in Thread : pc[u] \in {"boot", "none"}
    PROVE  ListInv
<1>1. \A e \in FakeIndex : fake[e].tid = 0 /\ fake[e].flag = 0
  BY DEF EmptyEntry
<1> QED
  BY <1>1 DEF ListInv, Listed, Registering, InCalls, LeavePlaces, InLeave

LEMMA ListStep ==
    ASSUME TypeOK, MutexInv, IdsInv, OrderlyUse, LeaverInv, ListInv, FoundInv, [Next]_vars
    PROVE  ListInv'
<1>1. ASSUME fake' = [e \in FakeIndex |-> EmptyEntry],
             \A u \in Thread : pc'[u] \in {"boot", "none", "init_lock"},
             \A u \in Thread : pc'[u] = "init_lock" => tidOf'[u] # 0
      PROVE  ListInv'
  <2>1. \A e \in FakeIndex : fake'[e].tid = 0 /\ fake'[e].flag = 0
    BY <1>1 DEF EmptyEntry
  <2> QED
    BY <1>1, <2>1 DEF ListInv, Listed, Registering, InCalls, LeavePlaces, InLeave
<1>2. CASE InitWhole
  <2>1. /\ fake' = [e \in FakeIndex |-> EmptyEntry] /\ tidOf' = tidOf
        /\ pc[Main] = "boot" /\ pc'[Main] = "init_lock"
        /\ \A u \in Thread \ {Main} : pc'[u] = pc[u]
    BY <1>2, ThreadAssumption DEF InitWhole, TypeOK, Goto
  <2>2. \A u \in Thread \ {Main} : pc[u] = "none"
    BY <2>1 DEF MutexInv
  <2>3. tidOf[Main] # 0
    BY <2>1, ThreadAssumption DEF IdsInv
  <2> QED
    BY <1>1, <2>1, <2>2, <2>3
<1>3. CASE Restart
  BY <1>1, <1>3 DEF Restart
<1>4. CASE UNCHANGED vars
  BY <1>4 DEF vars, tables, threads, ListInv, Listed, Awaited, NotLeft
<1> QED
  BY <1>2, <1>3, <1>4, ListRegister, ListCalls, ListCreate, ListLeave, ListLookup, ListFree, ListReal,
     ListUnlist, ListExit DEF Next, Finish, Calls

-----------------------------------------------------------------------------
(* The lookups.                                                            *)

\* A step after which no lookup has found an entry that is not its thread's.
LEMMA FoundQuiet ==
    ASSUME FoundInv, crossed' = crossed, UNCHANGED << at[Main], pc[Main] >>,
           pc[Main] \in Looking =>
              /\ leave'[Main].target = leave[Main].target
              /\ \A f \in FakeIndex :
                    fake'[f].value = leave[Main].target => fake[f].value = leave[Main].target,
           pc[Main] = "leave_read" => fake'[at[Main]].value = fake[at[Main]].value
    PROVE  FoundInv'
<1>1. "leave_read" \in Looking
  BY DEF Looking
<1> QED
  BY <1>1 DEF FoundInv

LEMMA FoundRegister ==
    ASSUME TypeOK, MutexInv, LeaverInv, ListInv, FoundInv, NEW t \in Thread, Register(t)
    PROVE  FoundInv'
<1>1. /\ UNCHANGED leave
      /\ pc[t] \in Registering /\ pc'[t] \in Registering \cup {"run"}
      /\ \A u \in Thread \ {t} : pc'[u] = pc[u] /\ at'[u] = at[u]
  BY RegisterEffects
<1>2. ASSUME ListLock(t), pc[Main] = "leave_read", at[Main] = FreeEntry
      PROVE  FALSE
  <2>1. fake[at[Main]].flag = 1 /\ at[Main] \in FakeIndex
    BY <1>2, LookupListed DEF Looking
  <2>2. fake[FreeEntry].value = NoThread \/ fake[FreeEntry].flag = 0
    BY <1>2, FreeEntryProperties DEF ListLock
  <2>3. fake[at[Main]].value \in Thread
    BY <2>1 DEF ListInv
  <2> QED
    BY <1>2, <2>1, <2>2, <2>3, ThreadAssumption
<1>3. crossed' = crossed
  <2>1. ASSUME ListLock(t), NEW c \in Thread, pc[c] = "leave_read", at[c] = FreeEntry
        PROVE  FALSE
    <3>1. c = Main
      BY <2>1 DEF LeaverInv, LeavePlaces, InLeave
    <3> QED
      BY <1>2, <2>1, <3>1
  <2>2. ListLock(t) => crossed' = crossed
    BY <2>1 DEF ListLock
  <2> QED
    BY <2>2 DEF Register, InitLock, InitScan, InitFull, InitClaim, InitClear, ListFull, ListFill,
                tables
<1>4. CASE t = Main
  <2>1. pc'[Main] \notin Looking /\ pc'[Main] # "leave_read"
    BY <1>1, <1>4 DEF Registering, Looking
  <2> QED
    BY <1>3, <2>1 DEF FoundInv
<1>5. CASE t # Main
  <2>1. UNCHANGED << at[Main], pc[Main] >>
    BY <1>1, <1>5, ThreadAssumption
  <2>2. ASSUME pc[Main] \in Looking, NEW f \in FakeIndex
        PROVE  /\ fake'[f].value = leave[Main].target => fake[f].value = leave[Main].target
               /\ pc[Main] = "leave_read" /\ f = at[Main] => fake'[f].value = fake[f].value
    <3> DEFINE target == leave[Main].target
    <3>1. target \in Thread /\ target # t
      BY <1>1, <1>5, <2>2 DEF LeaverInv, Looking, InLeave, Registering
    <3>2. CASE ListLock(t)
      <4> DEFINE e == FreeEntry
      <4>1. /\ e \in FakeIndex
            /\ fake' = [fake EXCEPT ![e].value = t]
            /\ crossed' = crossed
        BY <1>3, <3>2, FreeEntryProperties DEF ListLock
      <4>2. pc[Main] = "leave_read" => at[Main] # e
        <5>1. ASSUME pc[Main] = "leave_read", at[Main] = e PROVE FALSE
          BY <1>2, <3>2, <5>1
        <5> QED
          BY <5>1
      <4> HIDE DEF e
      <4>3. \A g \in FakeIndex : fake'[g].value = IF g = e THEN t ELSE fake[g].value
        BY <4>1 DEF TypeOK, FakeEntry
      <4> QED
        BY <3>1, <4>2, <4>3
    <3>3. CASE ListFill(t)
      <4>1. fake' = [fake EXCEPT ![at[t]].tid = tidOf[t], ![at[t]].flag = 1]
        BY <3>3 DEF ListFill
      <4>2. fake'[f].value = fake[f].value
        BY <4>1 DEF TypeOK, FakeEntry
      <4> QED
        BY <4>2
    <3>4. CASE ~ ListLock(t) /\ ~ ListFill(t)
      <4>1. fake' = fake
        BY <3>4 DEF Register, InitLock, InitScan, InitFull, InitClaim, InitClear, ListFull, tables
      <4> QED
        BY <4>1
    <3> QED
      BY <3>2, <3>3, <3>4
  <2>4. pc[Main] = "leave_read" => fake'[at[Main]].value = fake[at[Main]].value
    BY <2>2 DEF FoundInv, Looking
  <2> QED
    BY <1>1, <1>3, <2>1, <2>2, <2>4, FoundQuiet
<1> QED
  BY <1>4, <1>5

LEMMA FoundLookup ==
    ASSUME TypeOK, LeaverInv, ListInv, FoundInv, NEW c \in Thread, Lookup(c)
    PROVE  FoundInv'
<1>1. /\ c = Main /\ Main \in Thread
      /\ UNCHANGED << fake, crossed >>
      /\ pc[Main] \in Looking /\ pc'[Main] \in Looking \cup {"leave_free"}
      /\ leave'[Main].target = leave[Main].target
  BY LookupEffects DEF tables
<1>2. CASE LookupScan(c)
  <2> DEFINE n == at[Main]
             target == leave[Main].target
  <2>1. /\ n \in FakeIndex
        /\ \/ pc'[Main] = "leave_read" /\ at'[Main] = n /\ fake[n].value = target
           \/ pc'[Main] = "leave_scan" /\ at'[Main] = n + 1 /\ fake[n].value # target
    BY <1>1, <1>2 DEF LookupScan, TypeOK, Goto
  <2>2. \A f \in FakeIndex : fake[f].value = target => n =< f
    BY <1>1 DEF FoundInv
  <2> HIDE DEF n, target
  <2>3. CASE pc'[Main] = "leave_read"
    BY <1>1, <2>1, <2>2, <2>3, Sizes DEF FoundInv, target
  <2>4. CASE pc'[Main] = "leave_scan"
    <3>1. at'[Main] = n + 1 /\ fake[n].value # target
      BY <2>1, <2>4
    <3>2. \A f \in FakeIndex : f # n /\ n =< f => n + 1 =< f
      BY <2>1, BoundAssumption DEF FakeIndex
    <3>3. n + 1 \in Nat
      BY <2>1, BoundAssumption DEF FakeIndex
    <3>4. \A f \in FakeIndex : fake'[f].value = target => at'[Main] =< f
      BY <1>1, <2>2, <3>1, <3>2
    <3>5. at'[Main] \in Nat /\ leave'[Main].target = target
      BY <1>1, <3>1, <3>3 DEF target
    <3> QED
      BY <1>1, <2>4, <3>4, <3>5 DEF FoundInv
  <2> QED
    BY <2>1, <2>3, <2>4
<1>3. CASE LookupFails(c) \/ LookupRead(c)
  <2>1. pc'[Main] = "leave_free"
    BY <1>1, <1>3 DEF LookupFails, LookupRead, TypeOK, Goto
  <2> QED
    BY <1>1, <2>1 DEF FoundInv, Looking
<1> QED
  BY <1>2, <1>3 DEF Lookup

LEMMA FoundStep ==
    ASSUME TypeOK, MutexInv, IdsInv, OrderlyUse, LeaverInv, ListInv, FoundInv, [Next]_vars
    PROVE  FoundInv'
<1>1. ASSUME crossed' = crossed \/ crossed' = {}, pc'[Main] \notin Looking PROVE FoundInv'
  <2>1. "leave_read" \in Looking
    BY DEF Looking
  <2> QED
    BY <1>1, <2>1 DEF FoundInv
<1>2. CASE InitWhole
  <2>1. crossed' = crossed /\ pc'[Main] = "init_lock"
    BY <1>2, ThreadAssumption DEF InitWhole, TypeOK, Goto
  <2> QED
    BY <1>1, <2>1 DEF Looking
<1>3. CASE Restart
  <2>1. crossed' = {} /\ pc'[Main] = "boot"
    BY <1>3, ThreadAssumption DEF Restart
  <2> QED
    BY <1>1, <2>1 DEF Looking
<1>4. CASE UNCHANGED vars
  BY <1>4 DEF vars, tables, threads, FoundInv
<1>5. ASSUME NEW t \in Thread, Calls(t) PROVE FoundInv'
  <2>1. /\ UNCHANGED << fake, leave, crossed >>
        /\ pc[t] \in InCalls /\ pc'[t] \in InCalls \cup {"lost"}
        /\ \A u \in Thread \ {t} : pc'[u] = pc[u] /\ at'[u] = at[u]
    BY <1>5, CallEffects DEF Calls, Call, Return, shadow_stack_save, shadow_stack_restore, tables
  <2>2. CASE t = Main
    BY <1>1, <2>1, <2>2 DEF Looking, InCalls
  <2>3. CASE t # Main
    BY <2>1, <2>3, FoundQuiet, ThreadAssumption
  <2> QED
    BY <2>2, <2>3
<1>6. ASSUME NEW c \in Thread, NEW t \in Thread, my_pthread_create(c, t) PROVE FoundInv'
  <2>1. crossed' = crossed /\ pc'[Main] = "run"
    BY <1>6, CreateEffects, ThreadAssumption DEF tables
  <2> QED
    BY <1>1, <2>1 DEF Looking
<1>7. ASSUME NEW c \in Thread, NEW t \in Thread, NEW call \in {"detach", "join"},
             Leave(c, t, call)
      PROVE  FoundInv'
  <2>1. crossed' = crossed /\ pc'[Main] = "leave_scan" /\ at'[Main] = 0
    BY <1>7, LeaveEffects DEF tables
  <2>2. \A f \in FakeIndex : 0 =< f
    BY BoundAssumption DEF FakeIndex
  <2> QED
    BY <2>1, <2>2 DEF FoundInv
<1>8. ASSUME NEW c \in Thread, \/ LeaveFree(c) \/ RealDetach(c) \/ RealJoin(c) \/ LeaveUnlist(c)
      PROVE  FoundInv'
  <2>1. c = Main /\ crossed' = crossed
    BY <1>8 DEF LeaveFree, RealDetach, RealJoin, LeaveUnlist, LeaverInv, LeavePlaces, InLeave, tables
  <2>2. pc'[Main] \notin Looking
    BY <1>8, <2>1, FreeEffects, OrderlyReal, UnlistEffects DEF Looking
  <2> QED
    BY <1>1, <2>1, <2>2
<1>9. ASSUME NEW t \in Thread, Exit(t) PROVE FoundInv'
  <2>1. /\ UNCHANGED << fake, leave, at, crossed >> /\ t # Main
        /\ \A u \in Thread \ {t} : pc'[u] = pc[u]
    BY <1>9, ExitEffects DEF tables
  <2> QED
    BY <2>1, FoundQuiet, ThreadAssumption
<1> QED
  BY <1>2, <1>3, <1>4, <1>5, <1>6, <1>7, <1>8, <1>9, FoundRegister, FoundLookup
     DEF Next, Finish, Calls

-----------------------------------------------------------------------------
(* The slots.                                                              *)

\* The return addresses a thread's slot holds: a call about to be saved is
\* not in it yet.
SavedOf(t) == IF pc[t] = "save" THEN Popped(frames[t]) ELSE frames[t]

\* A released slot is empty; a flagged one is a thread's, and not that of the
\* thread main is reaping; a slot with a thread's id holds its calls.
SlotKept(i) ==
    /\ slots[i].flag = 0 => slots[i].stack = << >>
    /\ slots[i].flag = 1 => \E t \in Thread : tidOf[t] # 0 /\ tidOf[t] = slots[i].thread_id
    /\ \A t \in Thread : tidOf[t] # 0 /\ slots[i].thread_id = tidOf[t]
                            => slots[i].stack = SavedOf(t)
    /\ pc[Main] = "leave_real" /\ slots[i].thread_id = leave[Main].subtid => slots[i].flag = 0

\* A thread in use has a slot, and its save or restore has found it.
ThreadKept(t) ==
    /\ Settled(t) /\ NotLeft(t) => \E i \in SlotIndex : slots[i].thread_id = tidOf[t]
    /\ pc[t] = "init_scan" => /\ at[t] \in 0 .. PSEUDO_THREAD_NUM
                              /\ \A i \in SlotIndex : i < at[t] => slots[i].flag = 1
    /\ pc[t] \in {"save", "restore"} => /\ at[t] \in SlotIndex
                                        /\ slots[at[t]].thread_id = tidOf[t]
    /\ pc[t] # "lost"

StackInv == /\ \A i \in SlotIndex : SlotKept(i)
            /\ \A t \in Thread : ThreadKept(t)

OrderlyInv == /\ LibInv /\ LeaverInv /\ ListInv /\ FoundInv
              /\ pc[Main] # "boot" => StackInv

\* What the steps below start from.
Running == /\ TypeInv /\ MutexInv /\ IdsInv /\ SlotsInv
           /\ LeaverInv /\ ListInv /\ FoundInv /\ StackInv

\* A thread in its instrumented calls, or between them, has not been left.
LEMMA CallerNotLeft ==
    ASSUME IdsInv, LeaverInv, NEW t \in Thread, pc[t] \in InCalls
    PROVE  Settled(t) /\ NotLeft(t) /\ tidOf[t] # 0
<1>1. Settled(t) /\ tidOf[t] # 0 /\ mode[t] = "joinable"
  BY DEF Settled, InCalls, IdsInv, LeaverInv
<1>2. ASSUME NEW u \in Thread PROVE leave[u].target # t
  <2>1. CASE u # Main
    BY <2>1, ThreadAssumption DEF LeaverInv
  <2>2. CASE u = Main /\ pc[Main] \in InLeave
    BY <2>2 DEF LeaverInv, InCalls, InLeave
  <2>3. CASE u = Main /\ pc[Main] \notin InLeave
    BY <2>3, ThreadAssumption DEF IdsInv
  <2> QED
    BY <2>1, <2>2, <2>3
<1> QED
  BY <1>1, <1>2 DEF NotLeft

LEMMA CallerSlot ==
    ASSUME Running, NEW t \in Thread, pc[t] \in InCalls
    PROVE  /\ MySlot(t) \in SlotIndex
           /\ slots[MySlot(t)].thread_id = tidOf[t] /\ slots[MySlot(t)].flag = 1
           /\ slots[MySlot(t)].stack = SavedOf(t)
           /\ pc[t] \in {"save", "restore"} => at[t] = MySlot(t)
<1>1. Settled(t) /\ NotLeft(t) /\ tidOf[t] # 0
  BY CallerNotLeft DEF Running
<1>2. \E i \in SlotIndex : slots[i].thread_id = tidOf[t]
  BY <1>1 DEF Running, StackInv, ThreadKept
<1>3. MySlot(t) \in SlotIndex /\ slots[MySlot(t)].thread_id = tidOf[t]
  BY <1>2, FindSlotProperties DEF MySlot, Running, TypeInv, TypeOK
<1>4. slots[MySlot(t)].flag = 1 /\ slots[MySlot(t)].stack = SavedOf(t)
  <2>1. Kept(t)
    BY <1>1 DEF Running, FoundInv, Kept
  <2> QED
    BY <1>1, <1>3, <2>1 DEF Running, SlotsInv, StackInv, SlotKept
<1>5. pc[t] \in {"save", "restore"} => at[t] = MySlot(t)
  BY <1>1, <1>3 DEF Running, SlotsInv, StackInv, ThreadKept
<1> QED
  BY <1>3, <1>4, <1>5

\* A step that leaves the table alone.
LEMMA StackQuiet ==
    ASSUME StackInv, UNCHANGED slots,
           \A i \in SlotIndex :
              slots[i].flag = 1 =>
                 \E t \in Thread : tidOf'[t] # 0 /\ tidOf'[t] = slots[i].thread_id,
           \A u \in Thread, i \in SlotIndex :
              tidOf'[u] # 0 /\ slots[i].thread_id = tidOf'[u]
                 => tidOf'[u] = tidOf[u] /\ SavedOf(u)' = SavedOf(u),
           pc'[Main] = "leave_real"
              => pc[Main] = "leave_real" /\ leave'[Main].subtid = leave[Main].subtid,
           \A u \in Thread :
              /\ Settled(u)' /\ NotLeft(u)' => Settled(u) /\ NotLeft(u) /\ tidOf'[u] = tidOf[u]
              /\ pc'[u] = "init_scan" =>
                    /\ at'[u] \in 0 .. PSEUDO_THREAD_NUM
                    /\ \A i \in SlotIndex : i < at'[u] => slots[i].flag = 1
              /\ pc'[u] \in {"save", "restore"} =>
                    /\ at'[u] \in SlotIndex
                    /\ slots[at'[u]].thread_id = tidOf'[u]
              /\ pc'[u] # "lost"
    PROVE  StackInv'
<1>1. ASSUME NEW i \in SlotIndex PROVE SlotKept(i)'
  <2>1. SlotKept(i)
    BY DEF StackInv
  <2> QED
    BY <2>1 DEF SlotKept
<1>2. ASSUME NEW u \in Thread PROVE ThreadKept(u)'
  <2>1. ThreadKept(u)
    BY DEF StackInv
  <2> QED
    BY <2>1 DEF ThreadKept
<1> QED
  BY <1>1, <1>2 DEF StackInv

\* One that reaps nobody, starts nobody and changes no calls.
LEMMA StackIdle ==
    ASSUME StackInv, UNCHANGED << slots, tidOf, frames >>, NEW t \in Thread,
           \A u \in Thread \ {t} : pc'[u] = pc[u] /\ at'[u] = at[u],
           pc[t] # "save", pc'[t] \notin {"save", "restore", "lost", "leave_real"},
           pc'[t] = "init_scan" => /\ at'[t] \in 0 .. PSEUDO_THREAD_NUM
                                   /\ \A i \in SlotIndex : i < at'[t] => slots[i].flag = 1,
           Settled(t)' => Settled(t),
           \A u \in Thread : NotLeft(u)' => NotLeft(u),
           t # Main => leave'[Main] = leave[Main]
    PROVE  StackInv'
<1>1. \A u \in Thread : SavedOf(u)' = SavedOf(u)
  BY DEF SavedOf
<1>2. \A u \in Thread : Settled(u)' => Settled(u)
  BY DEF Settled
<1>3. \A i \in SlotIndex :
         slots[i].flag = 1 =>
            \E u \in Thread : tidOf'[u] # 0 /\ tidOf'[u] = slots[i].thread_id
  BY DEF StackInv, SlotKept
<1>4. pc'[Main] = "leave_real"
         => pc[Main] = "leave_real" /\ leave'[Main].subtid = leave[Main].subtid
  BY ThreadAssumption
<1>5. ASSUME NEW u \in Thread
      PROVE  /\ pc'[u] = "init_scan" =>
                    /\ at'[u] \in 0 .. PSEUDO_THREAD_NUM
                    /\ \A i \in SlotIndex : i < at'[u] => slots[i].flag = 1
             /\ pc'[u] \in {"save", "restore"} =>
                    /\ at'[u] \in SlotIndex
                    /\ slots[at'[u]].thread_id = tidOf'[u]
             /\ pc'[u] # "lost"
  BY DEF StackInv, ThreadKept
<1> QED
  BY <1>1, <1>2, <1>3, <1>4, <1>5, StackQuiet

\* A thread that registers finds a slot: the others hold one each.
LEMMA SlotsHaveRoom ==
    ASSUME Running, OrderlyUse, NEW t \in Thread, pc[t] = "init_scan"
    PROVE  at[t] \in SlotIndex
<1> SUFFICES ASSUME at[t] \notin SlotIndex PROVE FALSE
  OBVIOUS
<1>1. \A i \in SlotIndex : slots[i].flag = 1
  <2>1. /\ at[t] \in 0 .. PSEUDO_THREAD_NUM
        /\ \A i \in SlotIndex : i < at[t] => slots[i].flag = 1
    BY DEF Running, StackInv, ThreadKept
  <2>2. \A i \in SlotIndex : i < at[t]
    BY <2>1, SizesAssumption DEF SlotIndex
  <2> QED
    BY <2>1, <2>2
<1> DEFINE owner(i) == CHOOSE u \in Thread : tidOf[u] # 0 /\ tidOf[u] = slots[i].thread_id
           f == [i \in SlotIndex |-> owner(i)]
<1>2. ASSUME NEW i \in SlotIndex
      PROVE  owner(i) \in Thread \ {t} /\ tidOf[owner(i)] # 0
             /\ tidOf[owner(i)] = slots[i].thread_id
  <2>1. \E u \in Thread : tidOf[u] # 0 /\ tidOf[u] = slots[i].thread_id
    BY <1>1 DEF Running, StackInv, SlotKept
  <2>2. owner(i) \in Thread /\ tidOf[owner(i)] # 0 /\ tidOf[owner(i)] = slots[i].thread_id
    BY <2>1
  <2>3. slots[i].thread_id # tidOf[t]
    BY DEF Running, SlotsInv, Unclaimed
  <2> QED
    BY <2>2, <2>3
<1> HIDE DEF owner
<1>3. f \in [0 .. PSEUDO_THREAD_NUM - 1 -> Thread \ {t}]
  BY <1>2 DEF SlotIndex
<1>4. \E i, j \in SlotIndex : i # j /\ f[i] = f[j]
  BY <1>3, OneTooMany, SizesAssumption DEF SlotIndex, OrderlyUse
<1>5. PICK i \in SlotIndex, j \in SlotIndex : i # j /\ owner(i) = owner(j)
  BY <1>4
<1>6. slots[i].thread_id # 0 /\ slots[i].thread_id = slots[j].thread_id
  BY <1>2, <1>5
<1> QED
  BY <1>5, <1>6 DEF Running, SlotsInv

LEMMA StackRegister ==
    ASSUME Running, OrderlyUse, NEW t \in Thread, Register(t)
    PROVE  StackInv'
<1>0. TypeOK /\ StackInv
  BY DEF Running, TypeInv
<1>1. /\ UNCHANGED << leave, tidOf, lastTid, mode, frames >>
      /\ pc[t] \in Registering /\ pc'[t] \in Registering \cup {"run"}
      /\ \A u \in Thread \ {t} : pc'[u] = pc[u] /\ at'[u] = at[u]
      /\ \A u \in Thread : NotLeft(u)' <=> NotLeft(u)
  BY <1>0, RegisterEffects
<1>2. CASE InitLock(t)
  <2>1. slots' = slots /\ pc'[t] = "init_scan" /\ at'[t] = 0
    BY <1>0, <1>2 DEF InitLock, TypeOK, Goto
  <2>2. /\ 0 \in 0 .. PSEUDO_THREAD_NUM
        /\ \A i \in SlotIndex : ~ i < 0
    BY SizesAssumption DEF SlotIndex
  <2> QED
    BY <1>0, <1>1, <2>1, <2>2, StackIdle DEF Settled, Registering
<1>3. CASE InitScan(t)
  <2>1. /\ slots' = slots /\ pc[t] = "init_scan" /\ at[t] \in SlotIndex
        /\ \/ pc'[t] = "init_claim"
           \/ /\ pc'[t] = "init_scan" /\ at'[t] = at[t] + 1
              /\ ~ Claimable(slots[at[t]])
    BY <1>0, <1>3 DEF InitScan, TypeOK, Goto, tables
  <2>2. ASSUME pc'[t] = "init_scan"
        PROVE  /\ at'[t] \in 0 .. PSEUDO_THREAD_NUM
               /\ \A i \in SlotIndex : i < at'[t] => slots[i].flag = 1
    <3>1. /\ \A i \in SlotIndex : i < at[t] => slots[i].flag = 1
          /\ slots[at[t]].flag = 0 => slots[at[t]].stack = << >>
      BY <1>0, <2>1 DEF StackInv, ThreadKept, SlotKept
    <3>2. slots[at[t]].flag \in {0, 1}
      BY <1>0, <2>1 DEF TypeOK, Table, Slot
    <3>3. slots[at[t]].flag = 1 /\ at'[t] = at[t] + 1
      BY <2>1, <2>2, <3>1, <3>2 DEF Claimable
    <3>4. \A i \in SlotIndex : i < at[t] + 1 => i < at[t] \/ i = at[t]
      BY <2>1, SizesAssumption DEF SlotIndex
    <3>5. at[t] + 1 \in 0 .. PSEUDO_THREAD_NUM
      BY <2>1, SizesAssumption DEF SlotIndex
    <3> QED
      BY <3>1, <3>3, <3>4, <3>5
  <2> QED
    BY <1>0, <1>1, <2>1, <2>2, StackIdle DEF Settled, Registering
<1>4. CASE InitFull(t)
  BY <1>4, SlotsHaveRoom DEF InitFull
<1>5. CASE InitClaim(t)
  <2> DEFINE i == at[t]
  <2>1. /\ pc[t] = "init_claim" /\ pc'[t] = "init_clear" /\ at' = at /\ i \in SlotIndex
        /\ slots[i].thread_id = 0 \/ slots[i].flag = 0
        /\ slots' = [slots EXCEPT ![i].thread_id = tidOf[t]]
        /\ tidOf[t] # 0
    BY <1>0, <1>5 DEF InitClaim, TypeOK, Goto, Running, SlotsInv, IdsInv
  <2>2. \A u \in Thread : pc[u] # "init_scan"
    BY <2>1 DEF Running, MutexInv
  <2> HIDE DEF i
  <2>3. \A k \in SlotIndex : /\ slots'[k].thread_id = IF k = i THEN tidOf[t] ELSE slots[k].thread_id
                             /\ slots'[k].flag = slots[k].flag
                             /\ slots'[k].stack = slots[k].stack
    BY <1>0, <2>1 DEF TypeOK, Table, Slot
  <2>4. slots[i].flag = 0 /\ slots[i].stack = << >>
    <3>1. slots[i].flag \in {0, 1} /\ SlotKept(i)
      BY <1>0, <2>1 DEF StackInv, TypeOK, Table, Slot
    <3> QED
      BY <2>1, <3>1 DEF SlotKept
  <2>5. frames[t] = << >>
    BY <2>1 DEF Running, LeaverInv, InCalls, LeavePlaces, InLeave
  <2>6. \A u \in Thread : /\ tidOf[u] = tidOf[t] => u = t
                          /\ SavedOf(u)' = SavedOf(u)
    BY <1>1, <2>1 DEF Running, IdsInv, SavedOf
  <2>7. ASSUME NEW k \in SlotIndex PROVE SlotKept(k)'
    <3>1. SlotKept(k)
      BY <1>0 DEF StackInv
    <3>2. pc'[Main] = "leave_real" => pc[Main] = "leave_real"
      BY <1>1, <2>1, ThreadAssumption
    <3>3. CASE k = i
      <4>1. SavedOf(t) = << >>
        BY <2>1, <2>5 DEF SavedOf
      <4> QED
        BY <1>1, <2>3, <2>4, <2>6, <3>3, <4>1 DEF SlotKept
    <3>4. CASE k # i
      BY <1>1, <2>3, <2>6, <3>1, <3>2, <3>4 DEF SlotKept
    <3> QED
      BY <3>3, <3>4
  <2>8. ASSUME NEW u \in Thread PROVE ThreadKept(u)'
    <3>1. ThreadKept(u)
      BY <1>0 DEF StackInv
    <3>2. ASSUME Settled(u)', NotLeft(u)'
          PROVE  \E k \in SlotIndex : slots'[k].thread_id = tidOf'[u]
      <4>1. Settled(u) /\ NotLeft(u)
        BY <1>1, <2>1, <3>2 DEF Settled
      <4>2. PICK k \in SlotIndex : slots[k].thread_id = tidOf[u]
        BY <3>1, <4>1 DEF ThreadKept
      <4>3. k # i
        BY <2>4, <4>1, <4>2 DEF Running, SlotsInv, FoundInv, Kept
      <4> QED
        BY <1>1, <2>3, <4>2, <4>3
    <3>3. ASSUME pc'[u] \in {"save", "restore"}
          PROVE  at'[u] \in SlotIndex /\ slots'[at'[u]].thread_id = tidOf'[u]
      <4>1. pc[u] \in {"save", "restore"}
        BY <1>1, <2>1, <3>3
      <4>2. /\ at[u] \in SlotIndex /\ slots[at[u]].thread_id = tidOf[u]
            /\ slots[at[u]].flag = 1
        BY <4>1, CallerSlot DEF InCalls
      <4>3. at[u] # i
        BY <2>4, <4>2
      <4> QED
        BY <1>1, <2>1, <2>3, <4>2, <4>3
    <3>4. pc'[u] # "lost" /\ pc'[u] # "init_scan"
      BY <1>1, <2>1, <2>2, <3>1 DEF ThreadKept
    <3> QED
      BY <3>2, <3>3, <3>4 DEF ThreadKept
  <2> QED
    BY <2>7, <2>8 DEF StackInv
<1>6. CASE InitClear(t)
  <2> DEFINE i == at[t]
  <2>1. /\ pc[t] = "init_clear" /\ pc'[t] = "list_lock" /\ i \in SlotIndex
        /\ slots[i].thread_id = tidOf[t] /\ tidOf[t] # 0
        /\ slots' = [slots EXCEPT ![i] = Claimed(@, @.thread_id)]
    BY <1>0, <1>6 DEF InitClear, TypeOK, Goto, Running, SlotsInv, IdsInv
  <2>2. \A u \in Thread : pc[u] # "init_scan"
    BY <2>1 DEF Running, MutexInv
  <2>3. frames[t] = << >> /\ slots[i].stack = << >>
    <3>1. frames[t] = << >>
      BY <2>1 DEF Running, LeaverInv, InCalls, LeavePlaces, InLeave
    <3>2. SlotKept(i)
      BY <1>0, <2>1 DEF StackInv
    <3> QED
      BY <2>1, <3>1, <3>2 DEF SlotKept, SavedOf
  <2>4. slots'[i] = [thread_id |-> tidOf[t], flag |-> 1, stack |-> << >>]
    BY <1>0, <2>1, <2>3, ZeroWordsEmpty DEF Claimed, TypeOK, Table
  <2>5. \A k \in SlotIndex \ {i} : slots'[k] = slots[k]
    BY <1>0, <2>1 DEF TypeOK, Table
  <2> HIDE DEF i
  <2>6. \A k \in SlotIndex : slots'[k].thread_id = slots[k].thread_id
    BY <2>1, <2>4, <2>5
  <2>7. \A u \in Thread : /\ tidOf[u] = tidOf[t] => u = t
                          /\ SavedOf(u)' = SavedOf(u)
    BY <1>1, <2>1 DEF Running, IdsInv, SavedOf
  <2>8. ASSUME NEW k \in SlotIndex PROVE SlotKept(k)'
    <3>1. SlotKept(k)
      BY <1>0 DEF StackInv
    <3>2. pc'[Main] = "leave_real" => pc[Main] = "leave_real"
      BY <1>1, <2>1, ThreadAssumption
    <3>3. pc[Main] = "leave_real" => leave[Main].subtid # tidOf[t]
      BY <1>1, <2>1, <2>7 DEF Running, LeaverInv, InLeave
    <3>4. CASE k = i
      <4>1. SavedOf(t)' = << >>
        BY <1>1, <2>1, <2>3 DEF SavedOf
      <4> QED
        BY <1>1, <2>1, <2>4, <2>7, <3>2, <3>3, <3>4, <4>1 DEF SlotKept
    <3>5. CASE k # i
      BY <1>1, <2>5, <2>7, <3>1, <3>2, <3>5 DEF SlotKept
    <3> QED
      BY <3>4, <3>5
  <2>9. ASSUME NEW u \in Thread PROVE ThreadKept(u)'
    <3>1. ThreadKept(u)
      BY <1>0 DEF StackInv
    <3>2. ASSUME Settled(u)', NotLeft(u)'
          PROVE  \E k \in SlotIndex : slots'[k].thread_id = tidOf'[u]
      <4>1. CASE u = t
        BY <1>1, <2>1, <2>6, <4>1
      <4>2. CASE u # t
        <5>1. Settled(u) /\ NotLeft(u)
          BY <1>1, <3>2, <4>2 DEF Settled
        <5> QED
          BY <1>1, <2>6, <3>1, <5>1 DEF ThreadKept
      <4> QED
        BY <4>1, <4>2
    <3>3. ASSUME pc'[u] \in {"save", "restore"}
          PROVE  at'[u] \in SlotIndex /\ slots'[at'[u]].thread_id = tidOf'[u]
      <4>1. u # t /\ pc[u] \in {"save", "restore"}
        BY <1>1, <2>1, <3>3
      <4> QED
        BY <1>1, <2>6, <3>1, <4>1 DEF ThreadKept
    <3>4. pc'[u] # "lost" /\ pc'[u] # "init_scan"
      BY <1>1, <2>1, <2>2, <3>1 DEF ThreadKept
    <3> QED
      BY <3>2, <3>3, <3>4 DEF ThreadKept
  <2> QED
    BY <2>8, <2>9 DEF StackInv
<1>7. CASE ListLock(t) \/ ListFill(t)
  <2>1. slots' = slots /\ pc[t] \in {"list_lock", "list_fill"} /\ pc'[t] \in {"list_fill", "run"}
    BY <1>0, <1>7 DEF ListLock, ListFill, TypeOK, Goto
  <2> QED
    BY <1>0, <1>1, <2>1, StackIdle DEF Settled
<1>8. CASE ListFull(t)
  BY <1>8, ListHasRoom DEF ListFull, Running, TypeInv
<1> QED
  BY <1>2, <1>3, <1>4, <1>5, <1>6, <1>7, <1>8 DEF Register

\* A step of a thread in its instrumented calls keeps its slot in line.
LEMMA StackMoved ==
    ASSUME Running, NEW t \in Thread, Calls(t), NEW i, i = MySlot(t),
           \A k \in SlotIndex : /\ slots'[k].thread_id = slots[k].thread_id
                                /\ slots'[k].flag = slots[k].flag
                                /\ k # i => slots'[k].stack = slots[k].stack,
           slots'[i].stack = SavedOf(t)',
           pc'[t] \in InCalls,
           pc'[t] \in {"save", "restore"} => at'[t] = i
    PROVE  StackInv'
<1>1. /\ UNCHANGED << leave, tidOf >>
      /\ pc[t] \in InCalls
      /\ \A u \in Thread \ {t} : pc'[u] = pc[u] /\ at'[u] = at[u] /\ frames'[u] = frames[u]
      /\ \A u \in Thread : NotLeft(u)' <=> NotLeft(u)
  BY CallEffects DEF Running, TypeInv
<1>2. /\ i \in SlotIndex /\ slots[i].thread_id = tidOf[t] /\ slots[i].flag = 1
      /\ tidOf[t] # 0
  BY <1>1, CallerSlot, CallerNotLeft DEF Running
<1>3. \A u \in Thread : tidOf[u] = tidOf[t] => u = t
  BY <1>2 DEF Running, IdsInv
<1>4. \A u \in Thread \ {t} : SavedOf(u)' = SavedOf(u)
  BY <1>1 DEF SavedOf
<1>5. ASSUME NEW k \in SlotIndex PROVE SlotKept(k)'
  <2>1. SlotKept(k)
    BY DEF Running, StackInv
  <2>2. pc'[Main] = "leave_real" => pc[Main] = "leave_real"
    BY <1>1, ThreadAssumption DEF InCalls
  <2>3. CASE k = i
    BY <1>1, <1>2, <1>3, <2>1, <2>2, <2>3 DEF SlotKept
  <2>4. CASE k # i
    <3>1. slots[k].thread_id # tidOf[t]
      BY <1>2, <2>4 DEF Running, SlotsInv
    <3> QED
      BY <1>1, <1>4, <2>1, <2>2, <2>4, <3>1 DEF SlotKept
  <2> QED
    BY <2>3, <2>4
<1>6. ASSUME NEW u \in Thread PROVE ThreadKept(u)'
  <2>1. ThreadKept(u)
    BY DEF Running, StackInv
  <2>2. CASE u = t
    BY <1>1, <1>2, <2>2 DEF ThreadKept, InCalls
  <2>3. CASE u # t
    BY <1>1, <2>1, <2>3 DEF ThreadKept, Settled
  <2> QED
    BY <2>2, <2>3
<1> QED
  BY <1>5, <1>6 DEF StackInv

LEMMA StackCalls ==
    ASSUME Running, OrderlyUse, NEW t \in Thread, Calls(t)
    PROVE  StackInv'
<1> DEFINE i == MySlot(t)
           f == frames[t]
<1>1. TypeOK /\ f \in Seq(Addr) /\ Len(f) =< MaxDepth
  BY DEF Running, TypeInv, TypeOK
<1>2. pc[t] \in InCalls
  BY <1>1, CallEffects
<1>3. /\ i \in SlotIndex /\ slots[i].stack = SavedOf(t)
      /\ pc[t] \in {"save", "restore"} => at[t] = i
  BY <1>2, CallerSlot
<1>4. pc[t] \in {"save", "restore"} => f # << >>
  BY DEF Running, TypeInv
<1> HIDE DEF i
<1>5. ASSUME slots' = slots PROVE \A k \in SlotIndex : slots'[k] = slots[k]
  BY <1>5
<1>6. ASSUME NEW lr \in Addr, Call(t, lr) PROVE StackInv'
  <2>1. /\ pc[t] = "run" /\ pc'[t] = "save" /\ slots' = slots /\ at'[t] = i
        /\ frames' = [frames EXCEPT ![t] = Append(f, lr)]
    BY <1>1, <1>6 DEF Call, TypeOK, Goto, tables, i
  <2>2. Popped(Append(f, lr)) = f
    BY <1>1, FrontOfAppend
  <2>3. SavedOf(t)' = f
    BY <1>1, <2>1, <2>2 DEF SavedOf, TypeOK
  <2>4. SavedOf(t) = f
    BY <2>1 DEF SavedOf
  <2> QED
    BY <1>3, <2>1, <2>3, <2>4, StackMoved DEF i, InCalls
<1>7. ASSUME Return(t) PROVE StackInv'
  <2>1. /\ pc[t] = "run" /\ pc'[t] = "restore" /\ slots' = slots /\ at'[t] = i
        /\ frames' = frames
    BY <1>1, <1>7 DEF Return, TypeOK, Goto, tables, i
  <2>2. SavedOf(t)' = SavedOf(t)
    BY <2>1 DEF SavedOf
  <2> QED
    BY <1>3, <2>1, <2>2, StackMoved DEF i, InCalls
<1>8. ASSUME shadow_stack_save(t) PROVE StackInv'
  <2> DEFINE lr == f[Len(f)]
  <2>1. pc[t] = "save" /\ pc'[t] = "run" /\ frames' = frames /\ at[t] = i
    BY <1>1, <1>3, <1>8 DEF shadow_stack_save, TypeOK, Goto
  <2>2. slots[i].stack = Popped(f)
    BY <1>3, <2>1 DEF SavedOf
  <2>3. ~ StackFull(slots[i].stack)
    <3>1. Len(Popped(f)) = Len(f) - 1 /\ Len(f) \in Nat
      BY <1>1, <1>4, <2>1, PoppedProperties, LenProperties
    <3>2. Len(f) - 1 < PSEUDO_THREAD_SS_SIZE - 1
      BY <1>1, <3>1, SizesAssumption, BoundAssumption DEF OrderlyUse
    <3>3. ASSUME NEW m \in Int, m < PSEUDO_THREAD_SS_SIZE - 1
          PROVE  ~ (m >= PSEUDO_THREAD_SS_SIZE - 1)
      BY <3>3, SizesAssumption
    <3> HIDE DEF f
    <3> QED
      BY <2>2, <3>1, <3>2, <3>3 DEF StackFull
  <2>4. slots' = [slots EXCEPT ![i].stack = Pushed(@, lr)]
    <3>1. slots' = IF at[t] = NotFound \/ StackFull(slots[at[t]].stack) THEN slots
                   ELSE [slots EXCEPT ![at[t]].stack = Pushed(@, lr)]
      BY <1>8 DEF shadow_stack_save
    <3> HIDE DEF lr, f
    <3>2. i # NotFound
      BY <1>3, Sizes
    <3> QED
      BY <2>1, <2>3, <3>1, <3>2
  <2>5. Pushed(Popped(f), lr) = f
    BY <1>1, <1>4, <2>1, PushedBack
  <2> HIDE DEF lr
  <2>6. slots' = [slots EXCEPT ![i].stack = f]
    BY <1>1, <1>3, <2>2, <2>4, <2>5 DEF TypeOK, Table
  <2>7. SavedOf(t)' = f
    BY <2>1 DEF SavedOf
  <2> HIDE DEF f
  <2>8. \A k \in SlotIndex : /\ slots'[k].thread_id = slots[k].thread_id
                             /\ slots'[k].flag = slots[k].flag
                             /\ slots'[k].stack = IF k = i THEN f ELSE slots[k].stack
    BY <1>1, <2>6 DEF TypeOK, Table, Slot
  <2> QED
    BY <1>3, <2>1, <2>7, <2>8, StackMoved DEF i, InCalls
<1>9. ASSUME shadow_stack_restore(t) PROVE StackInv'
  <2>1. pc[t] = "restore" /\ at[t] = i
    BY <1>3, <1>9 DEF shadow_stack_restore
  <2>2. slots[i].stack = f
    BY <1>3, <2>1 DEF SavedOf
  <2>3. RestoredWord(i) = f[Len(f)]
    BY <1>3, <1>4, <2>1, <2>2, Sizes DEF RestoredWord, TopWord
  <2>4. /\ pc'[t] = "run"
        /\ frames' = [frames EXCEPT ![t] = Popped(f)]
        /\ slots' = [slots EXCEPT ![i].stack = IF @ = << >> THEN @ ELSE Popped(@)]
    <3>1. i # NotFound
      BY <1>3, Sizes
    <3>2. slots' = IF at[t] = NotFound THEN slots
                   ELSE [slots EXCEPT ![at[t]].stack = IF @ = << >> THEN @ ELSE Popped(@)]
      BY <1>9 DEF shadow_stack_restore
    <3>3. frames' = [frames EXCEPT ![t] = Popped(f)]
      BY <1>9 DEF shadow_stack_restore, Popped
    <3>4. pc' = [pc EXCEPT ![t] = IF RestoredWord(at[t]) = f[Len(f)] THEN "run" ELSE "lost"]
      BY <1>9 DEF shadow_stack_restore, Goto
    <3>5. pc'[t] = "run"
      BY <1>1, <2>1, <2>3, <3>4 DEF TypeOK
    <3> HIDE DEF f
    <3> QED
      BY <2>1, <3>1, <3>2, <3>3, <3>5
  <2>5. slots' = [slots EXCEPT ![i].stack = Popped(f)]
    BY <1>1, <1>3, <1>4, <2>1, <2>2, <2>4 DEF TypeOK, Table
  <2>6. SavedOf(t)' = Popped(f)
    BY <1>1, <2>4 DEF SavedOf, TypeOK
  <2> HIDE DEF f
  <2>7. \A k \in SlotIndex : /\ slots'[k].thread_id = slots[k].thread_id
                             /\ slots'[k].flag = slots[k].flag
                             /\ slots'[k].stack = IF k = i THEN Popped(f) ELSE slots[k].stack
    BY <1>1, <2>5 DEF TypeOK, Table, Slot
  <2> QED
    BY <1>3, <2>4, <2>6, <2>7, StackMoved DEF i, InCalls
<1> QED
  BY <1>6, <1>7, <1>8, <1>9 DEF Calls

LEMMA StackCreate ==
    ASSUME Running, OrderlyUse, NEW c \in Thread, NEW t \in Thread, my_pthread_create(c, t)
    PROVE  StackInv'
<1>1. /\ UNCHANGED << slots, at, leave, frames >> /\ pc[Main] = "run" /\ t # Main
      /\ pc[t] = "none" /\ pc'[t] = "init_lock" /\ tidOf'[t] = lastTid + 1
      /\ \A u \in Thread \ {t} : pc'[u] = pc[u] /\ tidOf'[u] = tidOf[u]
      /\ \A u \in Thread \ {t} : NotLeft(u)' <=> NotLeft(u)
  BY CreateEffects DEF tables, Running, TypeInv
<1>2. ASSUME NEW i \in SlotIndex PROVE slots[i].thread_id # lastTid + 1
  <2>1. TypeOK /\ SlotsInv
    BY DEF Running, TypeInv
  <2>2. slots[i].thread_id \in Tid \cup {0}
    BY <2>1 DEF TypeOK, Table, Slot
  <2>3. slots[i].thread_id \in Nat /\ lastTid \in Nat
    BY <2>1, <2>2, TidTypes, Sizes
  <2>4. slots[i].thread_id =< lastTid
    BY <2>1 DEF SlotsInv
  <2> QED
    BY <2>3, <2>4
<1>3. StackInv /\ tidOf[t] = 0
  BY <1>1 DEF Running, LeaverInv
<1>4. ASSUME NEW i \in SlotIndex, slots[i].flag = 1
      PROVE  \E u \in Thread : tidOf'[u] # 0 /\ tidOf'[u] = slots[i].thread_id
  <2>1. PICK u \in Thread : tidOf[u] # 0 /\ tidOf[u] = slots[i].thread_id
    BY <1>3, <1>4 DEF StackInv, SlotKept
  <2> QED
    BY <1>1, <1>3, <2>1
<1>5. ASSUME NEW u \in Thread, NEW i \in SlotIndex, tidOf'[u] # 0, slots[i].thread_id = tidOf'[u]
      PROVE  tidOf'[u] = tidOf[u] /\ SavedOf(u)' = SavedOf(u)
  <2>1. u # t
    BY <1>1, <1>2, <1>5
  <2> QED
    BY <1>1, <2>1 DEF SavedOf
<1>6. ASSUME NEW u \in Thread
      PROVE  /\ Settled(u)' /\ NotLeft(u)' => Settled(u) /\ NotLeft(u) /\ tidOf'[u] = tidOf[u]
             /\ pc'[u] = "init_scan" =>
                    /\ at'[u] \in 0 .. PSEUDO_THREAD_NUM
                    /\ \A i \in SlotIndex : i < at'[u] => slots[i].flag = 1
             /\ pc'[u] \in {"save", "restore"} =>
                    /\ at'[u] \in SlotIndex
                    /\ slots[at'[u]].thread_id = tidOf'[u]
             /\ pc'[u] # "lost"
  <2>1. CASE u = t
    BY <1>1, <2>1 DEF Settled
  <2>2. CASE u # t
    <3>1. ThreadKept(u)
      BY <1>3 DEF StackInv
    <3> QED
      BY <1>1, <2>2, <3>1 DEF ThreadKept, Settled
  <2> QED
    BY <2>1, <2>2
<1> QED
  BY <1>1, <1>3, <1>4, <1>5, <1>6, StackQuiet, ThreadAssumption

LEMMA StackLeave ==
    ASSUME Running, OrderlyUse, NEW c \in Thread, NEW t \in Thread,
           NEW call \in {"detach", "join"}, Leave(c, t, call)
    PROVE  StackInv'
<1>1. /\ UNCHANGED << slots, tidOf, frames >>
      /\ pc[Main] = "run" /\ pc'[Main] = "leave_scan"
      /\ \A u \in Thread \ {Main} : pc'[u] = pc[u] /\ at'[u] = at[u]
      /\ \A u \in Thread : NotLeft(u)' => NotLeft(u)
  BY LeaveEffects DEF tables, Running, TypeInv
<1>2. StackInv
  BY DEF Running
<1> QED
  BY <1>1, <1>2, StackIdle, ThreadAssumption DEF Settled

LEMMA StackLookup ==
    ASSUME Running, NEW c \in Thread, Lookup(c)
    PROVE  StackInv'
<1>0. TypeOK /\ StackInv
  BY DEF Running, TypeInv
<1>1. /\ UNCHANGED << slots, tidOf, frames >> /\ c = Main
      /\ pc[Main] \in Looking /\ pc'[Main] \in Looking \cup {"leave_free"}
      /\ \A u \in Thread \ {Main} : pc'[u] = pc[u] /\ at'[u] = at[u]
      /\ \A u \in Thread : NotLeft(u)' => NotLeft(u)
  BY <1>0, LookupEffects DEF tables, Running
<1> QED
  BY <1>0, <1>1, StackIdle DEF Settled, Looking

\* ioctl 4 finds the slot of the thread that has ended, which is empty.
LEMMA StackFree ==
    ASSUME Running, OrderlyUse, NEW c \in Thread, LeaveFree(c)
    PROVE  StackInv'
<1> DEFINE tid == leave[Main].subtid
           i == FindSlot(slots, tid)
<1>0. TypeOK /\ StackInv
  BY DEF Running, TypeInv
<1>1. c = Main
  BY <1>0, FreeEffects DEF Running, LeaverInv, LeavePlaces, InLeave
<1>2. /\ UNCHANGED << at, leave, tidOf, frames >> /\ ss_mutex = NoThread
      /\ pc[Main] = "leave_free" /\ pc'[Main] = "leave_real"
      /\ \A u \in Thread \ {Main} : pc'[u] = pc[u]
      /\ \A u \in Thread : NotLeft(u)' <=> NotLeft(u)
  BY <1>0, <1>1, FreeEffects
<1>3. PICK t \in Thread : tid = tidOf[t] /\ frames[t] = << >> /\ pc[t] # "save" /\ pc[t] # "none"
  BY <1>2, ThreadAssumption DEF Running, LeaverInv, InLeave
<1>4. tid # 0
  BY <1>3 DEF Running, IdsInv
<1>5. slots' = IF i = NotFound THEN slots ELSE [slots EXCEPT ![i].flag = 0]
  BY <1>1 DEF LeaveFree
<1>6. /\ i # NotFound => i \in SlotIndex /\ slots[i].thread_id = tid
      /\ i = NotFound => \A k \in SlotIndex : slots[k].thread_id # tid
  BY <1>0, FindSlotProperties DEF TypeOK
<1> HIDE DEF i, tid
<1>7. ASSUME NEW k \in SlotIndex
      PROVE  /\ slots'[k].thread_id = slots[k].thread_id
             /\ slots'[k].stack = slots[k].stack
             /\ slots'[k].flag = IF slots[k].thread_id = tid THEN 0 ELSE slots[k].flag
  <2>1. CASE i = NotFound
    BY <1>5, <1>6, <2>1
  <2>2. CASE i # NotFound
    <3>1. \A j \in SlotIndex : slots[j].thread_id = tid <=> j = i
      BY <1>4, <1>6, <2>2 DEF Running, SlotsInv
    <3>2. slots' = [slots EXCEPT ![i].flag = 0]
      BY <1>5, <2>2
    <3>3. /\ slots'[k].thread_id = slots[k].thread_id
          /\ slots'[k].stack = slots[k].stack
          /\ slots'[k].flag = IF k = i THEN 0 ELSE slots[k].flag
      BY <1>0, <3>2 DEF TypeOK, Table, Slot
    <3> QED
      BY <3>1, <3>3
  <2> QED
    BY <2>1, <2>2
<1>8. \A u \in Thread : SavedOf(u)' = SavedOf(u)
  BY <1>2 DEF SavedOf
<1>9. ASSUME NEW k \in SlotIndex PROVE SlotKept(k)'
  <2>1. SlotKept(k)
    BY <1>0 DEF StackInv
  <2>2. slots[k].thread_id = tid => slots[k].stack = << >>
    BY <1>3, <1>4, <2>1 DEF SlotKept, SavedOf
  <2> QED
    BY <1>2, <1>7, <1>8, <2>1, <2>2 DEF SlotKept, tid
<1>10. ASSUME NEW u \in Thread PROVE ThreadKept(u)'
  <2>1. ThreadKept(u)
    BY <1>0 DEF StackInv
  <2>2. pc'[u] # "init_scan"
    BY <1>2, ThreadAssumption DEF Running, MutexInv
  <2>3. Settled(u)' => Settled(u)
    BY <1>2 DEF Settled
  <2> QED
    BY <1>2, <1>7, <2>1, <2>2, <2>3 DEF ThreadKept
<1> QED
  BY <1>9, <1>10 DEF StackInv

\* A reaped thread's slot has been released.
LEMMA StackReal ==
    ASSUME Running, NEW c \in Thread, RealDetach(c) \/ RealJoin(c)
    PROVE  StackInv'
<1>0. TypeOK /\ StackInv
  BY DEF Running, TypeInv
<1>1. PICK t \in Thread :
         /\ UNCHANGED << slots, at, frames >> /\ leave[Main].subtid = tidOf[t]
         /\ pc[Main] = "leave_real" /\ pc'[Main] = "leave_unlist"
         /\ \A u \in Thread \ {t} : /\ tidOf'[u] = tidOf[u]
                                    /\ NotLeft(u)' <=> NotLeft(u)
         /\ \A u \in Thread \ {t, Main} : pc'[u] = pc[u]
         /\ \/ t = Main /\ tidOf'[t] = tidOf[t] /\ mode'[t] = "detached"
            \/ t # Main /\ pc'[t] = "none" /\ tidOf'[t] = 0
  BY <1>0, OrderlyReal DEF tables, Running
<1>2. \A u \in Thread : tidOf'[u] # 0 => tidOf'[u] = tidOf[u] /\ SavedOf(u)' = SavedOf(u)
  BY <1>1 DEF SavedOf
<1>3. ASSUME NEW i \in SlotIndex, slots[i].flag = 1
      PROVE  \E u \in Thread : tidOf'[u] # 0 /\ tidOf'[u] = slots[i].thread_id
  <2>1. PICK u \in Thread : tidOf[u] # 0 /\ tidOf[u] = slots[i].thread_id
    BY <1>0, <1>3 DEF StackInv, SlotKept
  <2>2. slots[i].thread_id # tidOf[t]
    BY <1>0, <1>1, <1>3 DEF StackInv, SlotKept
  <2> QED
    BY <1>1, <2>1, <2>2
<1>4. ASSUME NEW u \in Thread
      PROVE  /\ Settled(u)' /\ NotLeft(u)' => Settled(u) /\ NotLeft(u) /\ tidOf'[u] = tidOf[u]
             /\ pc'[u] = "init_scan" =>
                    /\ at'[u] \in 0 .. PSEUDO_THREAD_NUM
                    /\ \A i \in SlotIndex : i < at'[u] => slots[i].flag = 1
             /\ pc'[u] \in {"save", "restore"} =>
                    /\ at'[u] \in SlotIndex
                    /\ slots[at'[u]].thread_id = tidOf'[u]
             /\ pc'[u] # "lost"
  <2>1. ThreadKept(u)
    BY <1>0 DEF StackInv
  <2>2. CASE u = t
    BY <1>1, <2>2 DEF Settled, NotLeft
  <2>3. CASE u # t
    BY <1>1, <2>1, <2>3 DEF ThreadKept, Settled
  <2> QED
    BY <2>2, <2>3
<1> QED
  BY <1>0, <1>1, <1>2, <1>3, <1>4, StackQuiet

LEMMA StackUnlist ==
    ASSUME Running, NEW c \in Thread, LeaveUnlist(c)
    PROVE  StackInv'
<1>0. TypeOK /\ StackInv
  BY DEF Running, TypeInv
<1>1. /\ UNCHANGED << slots, at, tidOf, frames >>
      /\ pc[c] = "leave_unlist" /\ pc'[c] \in {"ended", "run"}
      /\ \A u \in Thread \ {c} : pc'[u] = pc[u] /\ leave'[u] = leave[u]
      /\ \A u \in Thread : NotLeft(u)' <=> NotLeft(u)
  BY <1>0, UnlistEffects DEF Running
<1>2. Settled(c) /\ pc[c] # "save" /\ pc'[c] \notin {"save", "restore", "lost", "leave_real", "init_scan"}
  BY <1>1 DEF Settled
<1>3. c # Main => leave'[Main] = leave[Main]
  BY <1>1, ThreadAssumption
<1> HIDE DEF Settled
<1> QED
  BY <1>0, <1>1, <1>2, <1>3, StackIdle

LEMMA StackExit ==
    ASSUME Running, OrderlyUse, NEW t \in Thread, Exit(t)
    PROVE  StackInv'
<1>0. TypeOK /\ StackInv
  BY DEF Running, TypeInv
<1>1. /\ UNCHANGED << slots, at, leave >>
      /\ t # Main /\ pc[t] = "run" /\ frames'[t] = << >>
      /\ \A u \in Thread \ {t} : pc'[u] = pc[u] /\ frames'[u] = frames[u]
      /\ frames' = [frames EXCEPT ![t] = << >>]
  BY <1>0, ExitEffects DEF tables, Exit
<1>2. pc'[t] = "exited" /\ UNCHANGED << mode, tidOf >>
  <2>1. mode[t] # "detached"
    BY <1>1 DEF Running, LeaverInv
  <2> QED
    BY <1>0, <2>1 DEF Exit, TypeOK, Goto
<1>3. frames' = frames
  <2>1. frames[t] = << >>
    BY DEF Exit, OrderlyUse
  <2> QED
    BY <1>0, <1>1, <2>1 DEF TypeOK
<1>4. \A u \in Thread : NotLeft(u)' <=> NotLeft(u)
  BY <1>1, <1>2 DEF NotLeft
<1> QED
  BY <1>0, <1>1, <1>2, <1>3, <1>4, StackIdle DEF Settled

LEMMA StackWhole ==
    ASSUME TypeInv, MutexInv, IdsInv, LeaverInv, InitWhole
    PROVE  StackInv'
<1>1. /\ UNCHANGED tidOf /\ slots' = ZeroTable
      /\ pc[Main] = "boot" /\ pc'[Main] = "init_lock"
      /\ \A u \in Thread \ {Main} : pc'[u] = "none"
  BY ThreadAssumption DEF InitWhole, Goto, TypeInv, TypeOK, MutexInv
<1>2. \A i \in SlotIndex : /\ slots'[i].thread_id = 0 /\ slots'[i].flag = 0
                           /\ slots'[i].stack = << >>
  BY <1>1 DEF ZeroTable, EmptySlot
<1> QED
  BY <1>1, <1>2 DEF StackInv, SlotKept, ThreadKept, Settled

-----------------------------------------------------------------------------
(* The invariant of the orderly processes.                                 *)

LEMMA OrderlyInit == Init => OrderlyInv
<1> SUFFICES ASSUME Init PROVE OrderlyInv
  OBVIOUS
<1>1. LibInv
  BY LibInit
<1>2. LeaverInv
  BY LeaverFresh DEF Init
<1>3. ListInv
  BY ListFresh DEF Init
<1>4. pc[Main] = "boot" /\ FoundInv
  BY ThreadAssumption DEF Init, FoundInv, Looking
<1> QED
  BY <1>1, <1>2, <1>3, <1>4 DEF OrderlyInv

LEMMA StackStep ==
    ASSUME OrderlyInv, OrderlyUse, [Next]_vars, pc'[Main] # "boot"
    PROVE  StackInv'
<1>1. CASE pc[Main] # "boot"
  <2>1. Running
    BY <1>1 DEF OrderlyInv, LibInv, Running
  <2>2. ~ InitWhole /\ ~ Restart
    BY <1>1, ThreadAssumption DEF InitWhole, Restart
  <2>3. CASE UNCHANGED vars
    <3>1. StackInv /\ UNCHANGED << slots, pc, at, leave, tidOf, mode, frames >>
      BY <2>1, <2>3 DEF Running, vars, tables, threads
    <3> QED
      BY <3>1 DEF StackInv, SlotKept, ThreadKept, Settled, NotLeft, SavedOf
  <2> QED
    BY <2>1, <2>2, <2>3, StackRegister, StackCalls, StackCreate, StackLeave, StackLookup,
       StackFree, StackReal, StackUnlist, StackExit DEF Next, Finish, Calls
<1>2. CASE pc[Main] = "boot"
  <2>1. \A u \in Thread : pc[u] \in {"boot", "none"}
    BY <1>2 DEF OrderlyInv, LibInv, MutexInv
  <2>2. \A t \in Thread : ~ Register(t)
    BY <2>1 DEF Register, InitLock, InitScan, InitFull, InitClaim, InitClear, ListLock,
                ListFull, ListFill
  <2>3. \A t \in Thread : ~ (\/ Lookup(t) \/ LeaveFree(t)
                              \/ RealDetach(t) \/ RealJoin(t) \/ LeaveUnlist(t))
    BY <2>1 DEF Lookup, LookupScan, LookupFails, LookupRead, LeaveFree, RealDetach, RealJoin,
                LeaveUnlist
  <2>4. \A t \in Thread : /\ ~ (shadow_stack_save(t) \/ shadow_stack_restore(t))
                           /\ ~ (Return(t) \/ Exit(t)) /\ ~ \E lr \in Addr : Call(t, lr)
    BY <2>1 DEF shadow_stack_save, shadow_stack_restore, Return, Exit, Call
  <2>5. \A c, t \in Thread : /\ ~ my_pthread_create(c, t)
                              /\ ~ \E call \in {"detach", "join"} : Leave(c, t, call)
    BY <2>1 DEF my_pthread_create, Leave, MayLeave
  <2>6. ~ Restart /\ ~ UNCHANGED vars
    BY <1>2 DEF Restart, vars, threads
  <2>7. InitWhole
    BY <2>2, <2>3, <2>4, <2>5, <2>6 DEF Next, Finish
  <2> QED
    BY <2>7, StackWhole DEF OrderlyInv, LibInv
<1> QED
  BY <1>1, <1>2

LEMMA OrderlyStep ==
    ASSUME OrderlyUse, OrderlyInv, [Next]_vars
    PROVE  OrderlyInv'
<1>1. LibInv'
  BY LibStep DEF OrderlyInv
<1>2. LeaverInv' /\ ListInv' /\ FoundInv'
  BY LeaverStep, ListStep, FoundStep DEF OrderlyInv, LibInv, TypeInv
<1>3. pc'[Main] # "boot" => StackInv'
  BY StackStep
<1> QED
  BY <1>1, <1>2, <1>3 DEF OrderlyInv

\* The inductive invariant of the orderly processes: shadowstack.c 61-315 with
\* the slots of std_svc_setup.c 256-345 behind it.
THEOREM OrderlyKept ==
    ASSUME OrderlyUse
    PROVE  Spec => []OrderlyInv
BY OrderlyInit, OrderlyStep, PTL DEF Spec

-----------------------------------------------------------------------------
(* What it says of the library.                                            *)

LEMMA UsedRuns ==
    ASSUME OrderlyInv, NEW t \in Thread, pc[t] \notin {"none", "boot"}
    PROVE  Running
<1>1. pc[Main] # "boot"
  BY ThreadAssumption DEF OrderlyInv, LibInv, MutexInv
<1> QED
  BY <1>1 DEF OrderlyInv, LibInv, Running

\* shadowstack.c 278-315 and std_svc_setup.c 304-341: between two calls a
\* thread's slot is its own and holds its calls in progress, in order.
THEOREM SlotsMatchCalls ==
    ASSUME OrderlyUse
    PROVE  Spec => []ShadowMatchesFrames
<1>1. OrderlyInv => ShadowMatchesFrames
  <2> SUFFICES ASSUME OrderlyInv, NEW t \in Instrumented, pc[t] = "run"
               PROVE  MySlot(t) # NotFound /\ slots[MySlot(t)].stack = frames[t]
    BY DEF ShadowMatchesFrames
  <2>1. t \in Thread
    BY ThreadAssumption
  <2>2. Running
    BY <2>1, UsedRuns
  <2>3. MySlot(t) \in SlotIndex /\ slots[MySlot(t)].stack = SavedOf(t)
    BY <2>1, <2>2, CallerSlot DEF InCalls
  <2>4. MySlot(t) # NotFound
    BY <2>3, Sizes
  <2> QED
    BY <2>3, <2>4 DEF SavedOf
<1> QED
  BY <1>1, OrderlyKept, PTL

\* shadowstack.c 278-315: every instrumented function of every thread returns
\* to its caller.
THEOREM EveryCallReturns ==
    ASSUME OrderlyUse
    PROVE  Spec => []ReturnsToCaller
<1>1. OrderlyInv => ReturnsToCaller
  <2> SUFFICES ASSUME OrderlyInv, NEW t \in Thread PROVE pc[t] # "lost"
    BY DEF ReturnsToCaller
  <2>1. CASE pc[t] \in {"none", "boot"}
    BY <2>1
  <2>2. CASE pc[t] \notin {"none", "boot"}
    BY <2>2, UsedRuns DEF Running, StackInv, ThreadKept
  <2> QED
    BY <2>1, <2>2
<1> QED
  BY <1>1, OrderlyKept, PTL

\* shadowstack.c 116-168: a slot is flagged only while the thread it was given
\* to has not been reaped.
THEOREM NoSlotLost ==
    ASSUME OrderlyUse
    PROVE  Spec => []SlotsReclaimed
<1>1. OrderlyInv => SlotsReclaimed
  BY DEF OrderlyInv, StackInv, SlotKept, SlotsReclaimed
<1> QED
  BY <1>1, OrderlyKept, PTL

\* shadowstack.c 77-86: the two unlocked loads of get_fake_pthread give the id
\* of the thread it is asked about, never that of an earlier one, nor that of
\* one that takes a list entry meanwhile.
THEOREM LookupNeverStale ==
    ASSUME OrderlyUse
    PROVE  Spec => []LookupIsCurrent
<1>1. OrderlyInv => LookupIsCurrent
  BY DEF OrderlyInv, LeaverInv, LeavePlaces, InLeave, LookupIsCurrent
<1> QED
  BY <1>1, OrderlyKept, PTL

\* std_svc_setup.c 268-341 takes no lock: no two threads are about to write the
\* words of the same slot.
THEOREM WritersApart ==
    ASSUME OrderlyUse
    PROVE  Spec => []NoDataRace
<1>1. OrderlyInv => NoDataRace
  <2> SUFFICES ASSUME OrderlyInv, NEW t \in Thread, NEW u \in Thread, t # u,
                      AboutToWrite(t), AboutToWrite(u), at[t] = at[u]
               PROVE  FALSE
    BY DEF NoDataRace
  <2>1. Running
    BY UsedRuns DEF AboutToWrite
  <2>2. ASSUME NEW v \in Thread, AboutToWrite(v)
        PROVE  at[v] \in SlotIndex /\ slots[at[v]].thread_id = tidOf[v] /\ tidOf[v] # 0
    <3>1. tidOf[v] # 0
      BY <2>1, <2>2 DEF Running, IdsInv, AboutToWrite
    <3>2. CASE pc[v] = "init_clear"
      BY <2>1, <3>1, <3>2 DEF Running, SlotsInv
    <3>3. CASE pc[v] \in {"save", "restore"}
      BY <2>1, <3>1, <3>3 DEF Running, StackInv, ThreadKept
    <3> QED
      BY <2>2, <3>2, <3>3 DEF AboutToWrite
  <2>3. tidOf[t] = tidOf[u] /\ tidOf[t] # 0
    BY <2>2
  <2> QED
    BY <2>1, <2>3 DEF Running, IdsInv
<1> QED
  BY <1>1, OrderlyKept, PTL
=============================================================================
