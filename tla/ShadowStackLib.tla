--------------------------- MODULE ShadowStackLib ---------------------------
(***************************************************************************)
(* The shadow stacks of one PLC runtime process at work: the wrappers and  *)
(* the save and restore calls of src/openplc/webserver/core/shadowstack.c, *)
(* run by any number of threads, over the secure monitor's table of        *)
(* ShadowTable.  The driver between them (teeplc_ioctl) adds the caller's  *)
(* kernel thread id to every call.                                         *)
(*                                                                         *)
(* A step is what a thread does between two points where another thread    *)
(* can matter: the functions of the monitor hold no lock, so a search and  *)
(* the stores that follow it are steps of their own.                       *)
(***************************************************************************)
EXTENDS ShadowTable

CONSTANTS Thread,       \* pthread_t values; one names a new thread once free
          Main,         \* the thread main runs in
          NoThread,
          Instrumented, \* the threads whose functions save and restore
          Creators,     \* the threads that create, detach and join others
          MaxTid,       \* bound: threads started in one run of the process
          MaxDepth,     \* bound: instrumented calls in progress in a thread
          FAKE_NUM,     \* entries of fake_pthread_list
          Orderly       \* are threads left only after they end, and do they
                        \* end only outside their instrumented calls?

ASSUME ThreadAssumption == /\ Main \in Thread
                           /\ NoThread \notin Thread
                           /\ Instrumented \subseteq Thread
                           /\ Creators \subseteq Thread
ASSUME BoundAssumption == /\ MaxTid \in Nat \ {0}
                          /\ MaxDepth \in Nat
                          /\ FAKE_NUM \in Nat \ {0}
                          /\ Tid = 1 .. MaxTid
ASSUME OrderlyAssumption == Orderly \in BOOLEAN

VARIABLES
  slots,      \* the monitor's table: outlives the process
  fake,       \* fake_pthread_list
  ss_mutex,   \* who holds it, or NoThread
  fake_mutex, \* fake_pthread_mutex
  pc,         \* where each thread is
  at,         \* the slot or list entry its search has reached or found
  leave,      \* the my_pthread_detach or my_pthread_join it is in
  tidOf,      \* gettid()
  lastTid,    \* the last kernel thread id given out
  mode,       \* what the C library knows of a pthread_t
  mapped,     \* the threads whose page is mapped
  frames,     \* the return addresses its calls in progress really have
  crossed     \* history: the threads that took a list entry between the two
              \* loads of a lookup that had found it

tables == << slots, fake, ss_mutex, fake_mutex, crossed >>
threads == << pc, at, leave, tidOf, lastTid, mode, mapped, frames >>
vars == << tables, threads >>

FakeIndex == 0 .. FAKE_NUM - 1
FakeEntry == [value : Thread \cup {NoThread}, tid : Tid \cup {0}, flag : {0, 1}]
EmptyEntry == [value |-> NoThread, tid |-> 0, flag |-> 0]

NoLeave == [call |-> "none", target |-> NoThread, subtid |-> 0]

Init == /\ slots = ZeroTable
        /\ fake = [e \in FakeIndex |-> EmptyEntry]
        /\ ss_mutex = NoThread
        /\ fake_mutex = NoThread
        /\ pc = [t \in Thread |-> IF t = Main THEN "boot" ELSE "none"]
        /\ at = [t \in Thread |-> 0]
        /\ leave = [t \in Thread |-> NoLeave]
        /\ tidOf = [t \in Thread |-> IF t = Main THEN 1 ELSE 0]
        /\ lastTid = 1
        /\ mode = [t \in Thread |-> IF t = Main THEN "joinable" ELSE "none"]
        /\ mapped = {}
        /\ frames = [t \in Thread |-> << >>]
        /\ crossed = {}

Goto(t, to) == pc' = [pc EXCEPT ![t] = to]

MySlot(t) == FindSlot(slots, tidOf[t])

-----------------------------------------------------------------------------
(* The list from pthread_t to kernel thread id.                            *)

\* Mutants: a flag that counts, and an entry that loses its id instead.
FakeFreedCounts(tid) ==
    LET e == FirstIn({f \in FakeIndex : fake[f].tid = tid})
    IN  IF e = NotFound THEN fake ELSE [fake EXCEPT ![e].flag = @ - 1]
FakeFreedId(tid) ==
    LET e == FirstIn({f \in FakeIndex : fake[f].tid = tid})
    IN  IF e = NotFound THEN fake ELSE [fake EXCEPT ![e].tid = 0]

\* free_fake_pthread
FakeFreed(tid) ==
    LET e == FirstIn({f \in FakeIndex : fake[f].tid = tid})
    IN  IF e = NotFound THEN fake ELSE [fake EXCEPT ![e].flag = 0]

\* Mutant: entries are never used again.
FreshEntry == FirstIn({f \in FakeIndex : fake[f].value = NoThread})

\* The entry add_fake_pthread takes.
FreeEntry == FirstIn({f \in FakeIndex : \/ fake[f].value = NoThread
                                           \/ fake[f].flag = 0})

-----------------------------------------------------------------------------
(* Registration: init_whole_shadow_stack in main, thread_init in a thread. *)

\* init_whole_shadow_stack: the mutexes, init_fake_pthread_list, ioctl 5.
InitWhole ==
    /\ pc[Main] = "boot"
    /\ slots' = ZeroTable
    /\ fake' = [e \in FakeIndex |-> EmptyEntry]
    /\ Goto(Main, "init_lock")
    /\ UNCHANGED << ss_mutex, fake_mutex, at, leave, tidOf, lastTid, mode,
                    mapped, frames, crossed >>

\* Mutant: ioctl 1 without ss_mutex.
InitUnlocked(t) ==
    /\ pc[t] = "init_lock"
    /\ at' = [at EXCEPT ![t] = 0]
    /\ Goto(t, "init_scan")
    /\ UNCHANGED << slots, fake, ss_mutex, fake_mutex, leave, tidOf, lastTid,
                    mode, mapped, frames, crossed >>

\* init_shadow_stack takes ss_mutex and enters ioctl 1.
InitLock(t) ==
    /\ pc[t] = "init_lock"
    /\ ss_mutex = NoThread
    /\ ss_mutex' = t
    /\ at' = [at EXCEPT ![t] = 0]
    /\ Goto(t, "init_scan")
    /\ UNCHANGED << slots, fake, fake_mutex, leave, tidOf, lastTid, mode,
                    mapped, frames, crossed >>

\* One round of init_thread_local_ss's loop.
InitScan(t) ==
    /\ pc[t] = "init_scan"
    /\ at[t] \in SlotIndex
    /\ IF Claimable(slots[at[t]])
       THEN Goto(t, "init_claim") /\ UNCHANGED at
       ELSE at' = [at EXCEPT ![t] = @ + 1] /\ UNCHANGED pc
    /\ UNCHANGED << tables, leave, tidOf, lastTid, mode, mapped, frames >>

\* Mutant: ss_mutex is kept when the table is full.
InitFullKeeps(t) ==
    /\ pc[t] = "init_scan"
    /\ at[t] \notin SlotIndex
    /\ at' = [at EXCEPT ![t] = 0]
    /\ Goto(t, "list_lock")
    /\ UNCHANGED << tables, leave, tidOf, lastTid, mode, mapped, frames >>

\* No slot is left: init_thread_local_ss returns -1, which nobody looks at.
InitFull(t) ==
    /\ pc[t] = "init_scan"
    /\ at[t] \notin SlotIndex
    /\ ss_mutex' = NoThread
    /\ at' = [at EXCEPT ![t] = 0]
    /\ Goto(t, "list_lock")
    /\ UNCHANGED << slots, fake, fake_mutex, leave, tidOf, lastTid, mode,
                    mapped, frames, crossed >>

\* The slot gets its new id before its flag is set and its words are cleared.
InitClaim(t) ==
    /\ pc[t] = "init_claim"
    /\ slots' = [slots EXCEPT ![at[t]].thread_id = tidOf[t]]
    /\ Goto(t, "init_clear")
    /\ UNCHANGED << fake, ss_mutex, fake_mutex, at, leave, tidOf, lastTid,
                    mode, mapped, frames, crossed >>

InitClear(t) ==
    /\ pc[t] = "init_clear"
    /\ slots' = [slots EXCEPT ![at[t]] = Claimed(@, @.thread_id)]
    /\ ss_mutex' = NoThread
    /\ at' = [at EXCEPT ![t] = 0]
    /\ Goto(t, "list_lock")
    /\ UNCHANGED << fake, fake_mutex, leave, tidOf, lastTid, mode, mapped,
                    frames, crossed >>

\* add_fake_pthread, under its mutex, writes value before tid.
ListLock(t) ==
    /\ pc[t] = "list_lock"
    /\ fake_mutex = NoThread
    /\ FreeEntry # NotFound
    /\ fake' = [fake EXCEPT ![FreeEntry].value = t]
    /\ fake_mutex' = t
    /\ crossed' = IF \E c \in Thread : pc[c] = "leave_read" /\ at[c] = FreeEntry
                  THEN crossed \cup {tidOf[t]} ELSE crossed
    /\ at' = [at EXCEPT ![t] = FreeEntry]
    /\ Goto(t, "list_fill")
    /\ UNCHANGED << slots, ss_mutex, leave, tidOf, lastTid, mode, mapped,
                    frames >>

\* Mutant: fake_pthread_mutex is kept when the list is full.
ListFullKeeps(t) ==
    /\ pc[t] = "list_lock"
    /\ fake_mutex = NoThread
    /\ FreeEntry = NotFound
    /\ fake_mutex' = t
    /\ mapped' = mapped \cup {t}
    /\ Goto(t, "run")
    /\ UNCHANGED << slots, fake, ss_mutex, at, leave, tidOf, lastTid, mode,
                    frames, crossed >>

\* With no entry left the thread is not listed.
ListFull(t) ==
    /\ pc[t] = "list_lock"
    /\ fake_mutex = NoThread
    /\ FreeEntry = NotFound
    /\ mapped' = mapped \cup {t}
    /\ Goto(t, "run")
    /\ UNCHANGED << tables, at, leave, tidOf, lastTid, mode, frames >>

\* Then the thread maps its page and runs.
ListFill(t) ==
    /\ pc[t] = "list_fill"
    /\ fake' = [fake EXCEPT ![at[t]].tid = tidOf[t], ![at[t]].flag = 1]
    /\ fake_mutex' = NoThread
    /\ at' = [at EXCEPT ![t] = 0]
    /\ mapped' = mapped \cup {t}
    /\ Goto(t, "run")
    /\ UNCHANGED << slots, ss_mutex, leave, tidOf, lastTid, mode, frames,
                    crossed >>

Register(t) == \/ InitLock(t) \/ InitScan(t) \/ InitFull(t)
               \/ InitClaim(t) \/ InitClear(t)
               \/ ListLock(t) \/ ListFull(t) \/ ListFill(t)

\* my_pthread_create: the new thread starts in thread_init.
my_pthread_create(c, t) ==
    /\ pc[c] = "run"
    /\ c \in Creators
    /\ pc[t] = "none"
    /\ lastTid < MaxTid
    /\ lastTid' = lastTid + 1
    /\ tidOf' = [tidOf EXCEPT ![t] = lastTid + 1]
    /\ mode' = [mode EXCEPT ![t] = "joinable"]
    /\ Goto(t, "init_lock")
    /\ UNCHANGED << tables, at, leave, mapped, frames >>

-----------------------------------------------------------------------------
(* my_pthread_detach and my_pthread_join.                                  *)

\* The client's part of the contract: one such call at a time about a
\* thread, none after it was reaped; main detaches itself, from its
\* outermost frame, when it shuts down.
MayLeave(c, t, call) ==
    /\ pc[c] = "run"
    /\ \A u \in Thread : leave[u].target # t
    /\ IF c = t THEN c = Main /\ call = "detach" /\ frames[c] = << >>
                ELSE /\ c \in Creators
                     /\ t # Main
                     /\ Orderly => pc[t] = "exited"
    /\ \/ mode[t] = "joinable"
       \/ mode[t] = "detached" /\ call = "join" /\ t # c

\* It begins with get_fake_pthread, which takes no mutex.
Leave(c, t, call) ==
    /\ MayLeave(c, t, call)
    /\ leave' = [leave EXCEPT ![c] = [call |-> call, target |-> t,
                                      subtid |-> NotFound]]
    /\ at' = [at EXCEPT ![c] = 0]
    /\ Goto(c, "leave_scan")
    /\ UNCHANGED << tables, tidOf, lastTid, mode, mapped, frames >>

\* One round of its loop: the load of pthread_t_value.  Flag is not looked at.
LookupScan(c) ==
    /\ pc[c] = "leave_scan"
    /\ at[c] \in FakeIndex
    /\ IF fake[at[c]].value = leave[c].target
       THEN Goto(c, "leave_read") /\ UNCHANGED at
       ELSE at' = [at EXCEPT ![c] = @ + 1] /\ UNCHANGED pc
    /\ UNCHANGED << tables, leave, tidOf, lastTid, mode, mapped, frames >>

LookupFails(c) ==
    /\ pc[c] = "leave_scan"
    /\ at[c] \notin FakeIndex
    /\ at' = [at EXCEPT ![c] = 0]
    /\ Goto(c, "leave_free")
    /\ UNCHANGED << tables, leave, tidOf, lastTid, mode, mapped, frames >>

\* The load of tid, by when the entry may be another thread's.
LookupRead(c) ==
    /\ pc[c] = "leave_read"
    /\ leave' = [leave EXCEPT ![c].subtid = fake[at[c]].tid]
    /\ at' = [at EXCEPT ![c] = 0]
    /\ Goto(c, "leave_free")
    /\ UNCHANGED << tables, tidOf, lastTid, mode, mapped, frames >>

Lookup(c) == LookupScan(c) \/ LookupFails(c) \/ LookupRead(c)

\* Mutant: ioctl 4 with the id of the caller.
LeaveFreeCaller(c) ==
    LET i == MySlot(c)
    IN  /\ pc[c] = "leave_free"
        /\ ss_mutex = NoThread
        /\ slots' = IF i = NotFound THEN slots
                    ELSE [slots EXCEPT ![i].flag = 0]
        /\ mapped' = mapped \ {c}
        /\ Goto(c, "leave_real")
        /\ UNCHANGED << fake, ss_mutex, fake_mutex, at, leave, tidOf, lastTid,
                        mode, frames, crossed >>

\* ioctl 4 on that id under ss_mutex; then the caller unmaps its own page.
LeaveFree(c) ==
    LET i == FindSlot(slots, leave[c].subtid)
    IN  /\ pc[c] = "leave_free"
        /\ ss_mutex = NoThread
        /\ slots' = IF i = NotFound THEN slots
                    ELSE [slots EXCEPT ![i].flag = 0]
        /\ mapped' = mapped \ {c}
        /\ Goto(c, "leave_real")
        /\ UNCHANGED << fake, ss_mutex, fake_mutex, at, leave, tidOf, lastTid,
                        mode, frames, crossed >>

\* The C library's pthread_detach: a thread that has ended is gone.
RealDetach(c) ==
    LET t == leave[c].target
    IN  /\ pc[c] = "leave_real"
        /\ leave[c].call = "detach"
        /\ IF pc[t] = "exited"
           THEN /\ pc' = [pc EXCEPT ![t] = "none", ![c] = "leave_unlist"]
                /\ mode' = [mode EXCEPT ![t] = "none"]
                /\ tidOf' = [tidOf EXCEPT ![t] = 0]
           ELSE /\ Goto(c, "leave_unlist")
                /\ mode' = [mode EXCEPT ![t] = "detached"]
                /\ UNCHANGED tidOf
        /\ leave' = [leave EXCEPT ![c].target = NoThread]
        /\ UNCHANGED << tables, at, lastTid, mapped, frames >>

\* The C library's pthread_join waits for the end of a joinable thread and
\* returns EINVAL at once for a detached one.
RealJoin(c) ==
    LET t == leave[c].target
    IN  /\ pc[c] = "leave_real"
        /\ leave[c].call = "join"
        /\ IF mode[t] = "joinable"
           THEN /\ pc[t] = "exited"
                /\ pc' = [pc EXCEPT ![t] = "none", ![c] = "leave_unlist"]
                /\ mode' = [mode EXCEPT ![t] = "none"]
                /\ tidOf' = [tidOf EXCEPT ![t] = 0]
           ELSE /\ Goto(c, "leave_unlist")
                /\ UNCHANGED << mode, tidOf >>
        /\ leave' = [leave EXCEPT ![c].target = NoThread]
        /\ UNCHANGED << tables, at, lastTid, mapped, frames >>

\* free_fake_pthread.  Main, detached from itself, goes on to exit(0).
LeaveUnlist(c) ==
    /\ pc[c] = "leave_unlist"
    /\ fake_mutex = NoThread
    /\ fake' = FakeFreed(leave[c].subtid)
    /\ leave' = [leave EXCEPT ![c] = NoLeave]
    /\ Goto(c, IF c = Main /\ mode[c] = "detached" THEN "ended" ELSE "run")
    /\ UNCHANGED << slots, ss_mutex, fake_mutex, at, tidOf, lastTid, mode,
                    mapped, frames, crossed >>

-----------------------------------------------------------------------------
(* Instrumented calls and returns.                                         *)

\* An instrumented function is entered: its prologue calls
\* shadow_stack_save, ioctl 2 searches the slot.
Call(t, lr) ==
    /\ pc[t] = "run"
    /\ t \in Instrumented
    /\ Len(frames[t]) < MaxDepth
    /\ frames' = [frames EXCEPT ![t] = Append(@, lr)]
    /\ at' = [at EXCEPT ![t] = MySlot(t)]
    /\ Goto(t, "save")
    /\ UNCHANGED << tables, leave, tidOf, lastTid, mode, mapped >>

\* The stores of add_lr_thread_local_ss.  shadow_stack_save drops the error.
shadow_stack_save(t) ==
    LET i == at[t]
    IN  /\ pc[t] = "save"
        /\ slots' = IF i = NotFound \/ StackFull(slots[i].stack) THEN slots
                    ELSE [slots EXCEPT ![i].stack = Pushed(@, frames[t][Len(frames[t])])]
        /\ at' = [at EXCEPT ![t] = 0]
        /\ Goto(t, "run")
        /\ UNCHANGED << fake, ss_mutex, fake_mutex, leave, tidOf, lastTid,
                        mode, mapped, frames, crossed >>

\* The function reaches its epilogue: shadow_stack_restore, ioctl 3.
Return(t) ==
    /\ pc[t] = "run"
    /\ frames[t] # << >>
    /\ at' = [at EXCEPT ![t] = MySlot(t)]
    /\ Goto(t, "restore")
    /\ UNCHANGED << tables, leave, tidOf, lastTid, mode, mapped, frames >>

\* restore_lr_thread_local_ss: the word it returns goes to the link register,
\* an error as well as an address.
RestoredWord(i) == IF i = NotFound THEN NotFound
                   ELSE IF slots[i].stack = << >> THEN StackEnd
                   ELSE TopWord(slots[i].stack)

\* A thread that returns elsewhere than to its caller is lost.
shadow_stack_restore(t) ==
    LET i == at[t]
        depth == Len(frames[t])
    IN  /\ pc[t] = "restore"
        /\ slots' = IF i = NotFound THEN slots
                    ELSE [slots EXCEPT ![i].stack =
                             IF @ = << >> THEN @ ELSE Popped(@)]
        /\ frames' = [frames EXCEPT ![t] = SubSeq(@, 1, depth - 1)]
        /\ at' = [at EXCEPT ![t] = 0]
        /\ Goto(t, IF RestoredWord(i) = frames[t][depth] THEN "run" ELSE "lost")
        /\ UNCHANGED << fake, ss_mutex, fake_mutex, leave, tidOf, lastTid,
                        mode, mapped, crossed >>

-----------------------------------------------------------------------------
(* The ends of threads and of the process.                                 *)

\* A thread ends: it returns from its start routine, with every call
\* returned, or it calls my_pthread_exit, which unmaps its page.
Exit(t) ==
    /\ pc[t] = "run"
    /\ t # Main
    /\ \/ frames[t] = << >> /\ mapped' = mapped
       \/ (Orderly => frames[t] = << >>) /\ mapped' = mapped \ {t}
    /\ frames' = [frames EXCEPT ![t] = << >>]
    /\ IF mode[t] = "detached"
       THEN /\ Goto(t, "none")
            /\ mode' = [mode EXCEPT ![t] = "none"]
            /\ tidOf' = [tidOf EXCEPT ![t] = 0]
       ELSE /\ Goto(t, "exited")
            /\ UNCHANGED << mode, tidOf >>
    /\ UNCHANGED << tables, at, leave, lastTid >>

\* The process ends, by exit(0) or a signal, wherever its threads are, and
\* is started again.  The monitor's table is all that is left of it.
Restart ==
    /\ pc[Main] # "boot"
    /\ fake' = [e \in FakeIndex |-> EmptyEntry]
    /\ ss_mutex' = NoThread
    /\ fake_mutex' = NoThread
    /\ pc' = [t \in Thread |-> IF t = Main THEN "boot" ELSE "none"]
    /\ at' = [t \in Thread |-> 0]
    /\ leave' = [t \in Thread |-> NoLeave]
    /\ tidOf' = [t \in Thread |-> IF t = Main THEN 1 ELSE 0]
    /\ lastTid' = 1
    /\ mode' = [t \in Thread |-> IF t = Main THEN "joinable" ELSE "none"]
    /\ mapped' = {}
    /\ frames' = [t \in Thread |-> << >>]
    /\ crossed' = {}
    /\ UNCHANGED slots

\* What a thread does without anybody's help once it has begun.
Finish(t) == \/ Register(t)
             \/ Lookup(t) \/ LeaveFree(t)
             \/ RealDetach(t) \/ RealJoin(t) \/ LeaveUnlist(t)
             \/ shadow_stack_save(t) \/ shadow_stack_restore(t)

Next == \/ InitWhole
        \/ \E t \in Thread : Finish(t)
        \/ \E c, t \in Thread : my_pthread_create(c, t)
        \/ \E c, t \in Thread, call \in {"detach", "join"} : Leave(c, t, call)
        \/ \E t \in Thread, lr \in Addr : Call(t, lr)
        \/ \E t \in Thread : Return(t) \/ Exit(t)
        \/ Restart

\* A thread that is inside the library is scheduled again and again.  What
\* the client calls, and when its threads end, is the client's affair.
Fairness == \A t \in Thread : WF_vars(Finish(t))

Spec == Init /\ [][Next]_vars /\ Fairness

-----------------------------------------------------------------------------

PC == {"none", "boot", "init_lock", "init_scan", "init_claim", "init_clear",
       "list_lock", "list_fill", "run", "leave_scan", "leave_read",
       "leave_free", "leave_real", "leave_unlist", "save", "restore",
       "exited", "ended", "lost"}

TypeOK ==
    /\ slots \in Table
    /\ fake \in [FakeIndex -> FakeEntry]
    /\ {ss_mutex, fake_mutex} \subseteq Thread \cup {NoThread}
    /\ pc \in [Thread -> PC]
    /\ at \in [Thread -> Nat \cup {NotFound}]
    /\ leave \in [Thread -> [call   : {"none", "detach", "join"},
                            target : Thread \cup {NoThread},
                            subtid : Tid \cup {0, NotFound}]]
    /\ tidOf \in [Thread -> Tid \cup {0}]
    /\ lastTid \in 1 .. MaxTid
    /\ mode \in [Thread -> {"none", "joinable", "detached"}]
    /\ mapped \subseteq Thread
    /\ frames \in [Thread -> Seq(Addr)]
    /\ \A t \in Thread : Len(frames[t]) =< MaxDepth
    /\ crossed \subseteq Tid \cup {0}

\* A thread that has been through init_thread_local_ss and still runs.
Settled(t) == pc[t] \in {"list_lock", "list_fill", "run", "leave_scan",
                         "leave_read", "leave_free", "leave_real",
                         "leave_unlist", "save", "restore"}

\* Nobody has called my_pthread_detach or my_pthread_join about it.
NotLeft(t) == mode[t] = "joinable" /\ \A u \in Thread : leave[u].target # t

(* An instrumented function returns to its caller: what                    *)
(* shadow_stack_restore puts in the link register is the address that was  *)
(* there when the function was entered.                                    *)
ReturnsToCaller == \A t \in Thread : pc[t] # "lost"

(* Between calls a thread's slot holds exactly the return addresses of the *)
(* instrumented calls it has in progress, in order.                        *)
ShadowMatchesFrames ==
    \A t \in Instrumented :
       pc[t] = "run" => /\ MySlot(t) # NotFound
                        /\ slots[MySlot(t)].stack = frames[t]

(* A release reaches a thread nobody has left through one window only:     *)
(* get_fake_pthread compares pthread_t_value and then loads tid without    *)
(* fake_pthread_mutex, and a thread that registers between the two may     *)
(* take the stale entry over.  The flag of every other thread's slot stays *)
(* set until it is left, so that the slot cannot be given away.            *)
KeptUntilLeft ==
    \A t \in Thread :
       /\ Settled(t) /\ NotLeft(t) /\ MySlot(t) # NotFound
       /\ tidOf[t] \notin crossed
       => slots[MySlot(t)].flag = 1

(* The monitor's functions need no lock against one another: two threads   *)
(* are never about to write the stack of the same slot.                    *)
AboutToWrite(t) == pc[t] \in {"save", "restore", "init_clear"}

NoDataRace == \A t, u \in Thread :
                 /\ t # u
                 /\ AboutToWrite(t) /\ AboutToWrite(u)
                 /\ at[t] = at[u]
                 => at[t] = NotFound

(* A flagged slot belongs to a thread that has not been reaped, so that    *)
(* the table never fills up with the slots of threads that are gone.       *)
SlotsReclaimed ==
    \A i \in SlotIndex :
       slots[i].flag = 1 /\ pc[Main] # "boot"
          => \E t \in Thread : tidOf[t] = slots[i].thread_id

(* The id my_pthread_detach or my_pthread_join has looked up, unlocked, is *)
(* that of the thread it is about: never the id of an earlier thread with  *)
(* the same pthread_t, nor that of one that took the entry meanwhile.      *)
LookupIsCurrent ==
    \A c \in Thread :
       pc[c] = "leave_free" => leave[c].subtid = tidOf[leave[c].target]

(* A thread that wants to register does, table full or not: nobody keeps   *)
(* ss_mutex or fake_pthread_mutex.  (Restart takes the thread away.)       *)
Registers ==
    \A t \in Thread : pc[t] = "init_lock" ~> pc[t] \in {"run", "none", "boot"}

(* my_pthread_detach and my_pthread_join come to an end: only a join whose *)
(* thread still runs may wait, and it waits without a mutex.               *)
WaitsForEnd(c) == LET t == leave[c].target
                  IN  /\ pc[c] = "leave_real"
                      /\ leave[c].call = "join"
                      /\ mode[t] = "joinable" /\ pc[t] # "exited"

Leaving(c) == pc[c] \in {"leave_scan", "leave_read", "leave_free",
                         "leave_real", "leave_unlist"}

LeaveReturns ==
    \A c \in Thread : Leaving(c) /\ ~ WaitsForEnd(c)
                          ~> ~ Leaving(c) \/ WaitsForEnd(c)
=============================================================================
