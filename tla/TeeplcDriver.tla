---------------------------- MODULE TeeplcDriver ----------------------------
(***************************************************************************)
(* The Linux driver of /dev/TEEPLC_DEVICE: teeplc_ioctl taken apart into   *)
(* the copies and the SMC between which other threads run, on top of the   *)
(* actions of TeeService, and the life of the module and of its device.    *)
(***************************************************************************)
EXTENDS ShadowTable, FiniteSets

CONSTANTS Majors,   \* the device numbers, in the kernel's order: it hands
                    \* out the highest that is free
          MaxLeaked, \* bound: ioctls of an unknown command
          MaxHeld   \* bound: numbers of other drivers before an open

ASSUME DriverAssumption == /\ Majors \subseteq Nat \ {0}
                           /\ MaxLeaked \in Nat /\ MaxHeld \in Nat
                           /\ IsFiniteSet(Tid) /\ IsFiniteSet(Majors)

VARIABLES slots,   \* whole_shadow_stack, in the secure monitor
          reply,   \* what the last SMC of a thread left in its registers
          cdev,    \* the number the driver serves, 0 when it is not loaded
          taken,   \* numbers other drivers hold
          lost,    \* numbers of loads that failed
          node,    \* the number /dev/TEEPLC_DEVICE stands for, 0: no node
          fd,      \* does the process hold the driver's device open?
          call,    \* a thread's run through teeplc_ioctl
          live,    \* buffers that vmalloc gave and vfree did not get back
          leaked,  \* history: ioctls of an unknown command
          held,    \* history: the numbers other drivers have held
          view,    \* history: the words a thread has to get back
          due      \* history: the word its restore is to return

monitor == << slots, reply, view, due >>
module == << cdev, taken, lost, held, node >>
vars == << monitor, module, fd, call, live, leaked >>

\* A thread's pid is its number, its SMCs leave their answers to itself.
Tee(t) == INSTANCE TeeService WITH Reinit <- TRUE, reply <- reply[t]

\* pc, cmd, the word the argument points to, the first word of cmd_args, ret,
\* and (history) whether the word arrived in the kernel.
NoCall == [pc |-> "user", cmd |-> 0, user |-> 0, buf |-> 0, ret |-> 0,
           arrived |-> FALSE]
NoReply == [call |-> "boot", tid |-> 0, ret |-> 0, lr |-> 0]

AnyTid == Tid \cup {0, NotFound}
NotCopied == 8 \* bytes copy_to_user left behind
Unknown == 7   \* stands for every command the switch does not list
CopiesIn == {0, 2, 4}
CopiesOut == {0, 3}
Silent == {6}  \* only writes a log line

Init == /\ slots = ZeroTable
        /\ reply = [t \in Tid |-> NoReply]
        /\ cdev = 0 /\ node = 0
        /\ taken = {} /\ lost = {} /\ held = {}
        /\ fd = FALSE
        /\ call = [t \in Tid |-> NoCall]
        /\ live = 0 /\ leaked = 0
        /\ view = [t \in Tid |-> << >>]
        /\ due = [t \in Tid |-> 0]

-----------------------------------------------------------------------------
\* The module and its device.

Free == Majors \ (taken \cup lost \cup {cdev})

\* alloc_chrdev_region
Dynamic == CHOOSE d \in Free : \A e \in Free : e =< d

\* device_create: the node of an earlier life is in the way of a new one, and
\* the error is not looked at.
Created == IF node = 0 THEN Dynamic ELSE node

\* Loading the module.  When cdev_add fails the number is not given back;
\* with no number left nothing happens at all.
teeplc_init ==
    /\ cdev = 0 /\ Free # {}
    /\ \/ cdev' = Dynamic /\ node' = Created /\ UNCHANGED lost
       \/ lost' = lost \cup {Dynamic} /\ UNCHANGED << cdev, node >>
    /\ UNCHANGED << taken, held, fd, monitor, call, live, leaked >>

\* Mutant: the number is not given back.
teeplc_exit_registered ==
    /\ cdev # 0 /\ ~ fd
    /\ cdev' = 0
    /\ taken' = taken \cup {cdev}
    /\ UNCHANGED << lost, held, node, fd, monitor, call, live, leaked >>

\* Removing the module, which .owner forbids while the device is open.
\* device_destroy is given 1 and not the device's number: the node stays.
teeplc_exit ==
    /\ cdev # 0 /\ ~ fd
    /\ cdev' = 0
    /\ UNCHANGED << taken, lost, held, node, fd, monitor, call, live, leaked >>

\* Other drivers take numbers and give them back, which is of consequence
\* only to the next load of this one.
OtherDriver ==
    /\ ~ fd
    /\ \/ \E d \in Free : taken' = taken \cup {d} /\ held' = held \cup {d}
       \/ \E d \in taken : taken' = taken \ {d} /\ held' = held
    /\ UNCHANGED << cdev, lost, node, fd, monitor, call, live, leaked >>

\* The user library opens the device once, when the process starts, and does
\* not look whether it got it: without it every ioctl fails unnoticed.
OpenDevice == /\ ~ fd /\ node # 0 /\ node = cdev
              /\ Cardinality(held) =< MaxHeld
              /\ fd' = TRUE
              /\ UNCHANGED << monitor, module, call, live, leaked >>

ProcessEnds == /\ fd /\ \A t \in Tid : call[t].pc = "user"
               /\ fd' = FALSE
               /\ UNCHANGED << monitor, module, call, live, leaked >>

-----------------------------------------------------------------------------
\* teeplc_ioctl

\* The words a caller may have behind the argument.  A thread initialises its
\* stack once.
Arguments(c) == IF c = 2 THEN Addr ELSE IF c = 4 THEN AnyTid ELSE {0}
MayCall(t, c) == c = 1 => FindSlot(slots, t) = NotFound

FirstStep(c) == IF c \in CopiesIn THEN "copyin"
                ELSE IF c \in Silent THEN "return" ELSE "smc"

\* Mutant: the buffer is used as vmalloc hands it out, with an old word in it.
RecycledBuffer == CHOOSE a \in Addr : TRUE

\* vmalloc and memset
FreshBuffer == 0

Enter(t, c, w) ==
    /\ fd /\ call[t].pc = "user" /\ MayCall(t, c)
    /\ live' = live + 1
    /\ call' = [call EXCEPT ![t] = [NoCall EXCEPT !.pc = FirstStep(c),
                                                  !.cmd = c,
                                                  !.user = w,
                                                  !.buf = FreshBuffer]]
    /\ UNCHANGED << monitor, module, fd, leaked >>

\* A command that is not listed returns -ENOTTY and keeps its buffer.
EnterUnknown(t) ==
    /\ fd /\ call[t].pc = "user" /\ leaked < MaxLeaked
    /\ live' = live + 1
    /\ leaked' = leaked + 1
    /\ UNCHANGED << monitor, module, fd, call >>

\* copy_from_user: the word arrives or it does not, and either way the driver
\* goes on (ret is overwritten after the SMC).
CopyIn(t) ==
    /\ call[t].pc = "copyin"
    /\ \/ call' = [call EXCEPT ![t] = [@ EXCEPT !.pc = "smc", !.buf = call[t].user,
                                                !.arrived = TRUE]]
       \/ call' = [call EXCEPT ![t] = [@ EXCEPT !.pc = "smc"]]
    /\ UNCHANGED << monitor, module, fd, live, leaked >>

\* Mutant: a release is of the caller's own stack.
CallMonitorOwnId(t) ==
    CASE call[t].cmd = 0 -> Tee(t)!SmcOther
      [] call[t].cmd = 1 -> Tee(t)!SmcInit(t)
      [] call[t].cmd = 2 -> Tee(t)!SmcAddLr(t, call[t].buf)
      [] call[t].cmd = 3 -> Tee(t)!SmcRestoreLr(t)
      [] call[t].cmd = 4 -> Tee(t)!SmcFree(t)
      [] call[t].cmd = 5 -> Tee(t)!SmcFreeWhole

\* The whole handler of the SMC with the command in x1 and, in x2 and x3, the
\* caller's pid and the word in the buffer; a release names the word's thread.
CallMonitor(t) ==
    CASE call[t].cmd = 0 -> Tee(t)!SmcOther
      [] call[t].cmd = 1 -> Tee(t)!SmcInit(t)
      [] call[t].cmd = 2 -> Tee(t)!SmcAddLr(t, call[t].buf)
      [] call[t].cmd = 3 -> Tee(t)!SmcRestoreLr(t)
      [] call[t].cmd = 4 -> Tee(t)!SmcFree(call[t].buf)
      [] call[t].cmd = 5 -> Tee(t)!SmcFreeWhole

Accepted(r) == r.call = "save" /\ r.ret \in SlotIndex
Returned(r) == r.call = "restore" /\ r.lr \in Word

\* What the callers have to get back: the words they gave themselves, 0 for a
\* word that did not arrive, last in first out.
Remember(t, r) ==
    /\ view' = CASE r.call = "reset" -> [u \in Tid |-> << >>]
                 [] r.call = "init"  -> [view EXCEPT ![t] = << >>]
                 [] Accepted(r) ->
                       [view EXCEPT ![t] = Append(@, IF call[t].arrived
                                                     THEN call[t].user ELSE 0)]
                 [] Returned(r) /\ view[t] # << >> ->
                       [view EXCEPT ![t] = Popped(@)]
                 [] OTHER -> view
    /\ due' = IF Returned(r) /\ view[t] # << >>
              THEN [due EXCEPT ![t] = TopWord(view[t])] ELSE due

CallName == << "init", "save", "restore", "free", "reset" >>

Answers(t) == [call : {IF call[t].cmd = 0 THEN "other"
                       ELSE CallName[call[t].cmd]},
               tid  : {t, 0, call[t].buf},
               ret  : SlotIndex \cup {NotFound, StackEnd},
               lr   : Word \cup {NotFound, StackEnd}]

Smc(t) ==
    /\ call[t].pc = "smc"
    /\ \E r \in Answers(t) :
          /\ reply' = [reply EXCEPT ![t] = r]
          /\ CallMonitor(t)
          /\ Remember(t, r)
          /\ call' = [call EXCEPT ![t] =
                         [NoCall EXCEPT !.cmd = call[t].cmd, !.ret = r.ret,
                            !.pc = IF call[t].cmd \in CopiesOut
                                   THEN "copyout" ELSE "return"]]
    /\ UNCHANGED << module, fd, live, leaked >>

\* Mutant: return_address is one variable for all threads.
ToUserShared(t) ==
    LET running == {u \in Tid : call[u].cmd = 3 /\ call[u].pc = "copyout"}
    IN  IF call[t].cmd = 3
        THEN reply[CHOOSE u \in running : \A v \in running : u =< v].lr
        ELSE call[t].user

\* What copy_to_user copies: x1 of the caller's own SMC for a restore, the
\* results of the test command (their values are left out).
ToUser(t) == IF call[t].cmd = 3 THEN reply[t].lr ELSE call[t].user

\* When the copy fails the address is gone from the monitor.
CopyOut(t) ==
    /\ call[t].pc = "copyout"
    /\ \/ call' = [call EXCEPT ![t] = [@ EXCEPT !.pc = "return", !.ret = 0,
                                                !.user = ToUser(t)]]
       \/ call' = [call EXCEPT ![t] = [@ EXCEPT !.pc = "return",
                                                !.ret = NotCopied]]
    /\ UNCHANGED << monitor, module, fd, live, leaked >>

\* Mutant: the command that only writes a log line returns by itself.
FreedUnlessLog(t) == IF call[t].cmd \in Silent THEN 0 ELSE 1

\* Mutant: the log command frees its buffer before the end does so again.
FreedAgain(t) == IF call[t].cmd \in Silent THEN 2 ELSE 1

\* vfree
Freed(t) == 1

\* The caller reads its word and ret, and is done with both.
Return(t) ==
    /\ call[t].pc = "return"
    /\ live' = live - Freed(t)
    /\ call' = [call EXCEPT ![t] = NoCall]
    /\ reply' = [reply EXCEPT ![t] = NoReply]
    /\ due' = [due EXCEPT ![t] = 0]
    /\ UNCHANGED << slots, view, module, fd, leaked >>

Next == \/ teeplc_init \/ teeplc_exit \/ OtherDriver
        \/ OpenDevice \/ ProcessEnds
        \/ \E t \in Tid :
              \/ \E c \in 0 .. Unknown - 1 : \E w \in Arguments(c) :
                    Enter(t, c, w)
              \/ EnterUnknown(t)
              \/ CopyIn(t) \/ Smc(t) \/ CopyOut(t) \/ Return(t)

Spec == Init /\ [][Next]_vars

-----------------------------------------------------------------------------

\* How a thread stands between its system calls.
Calls == [pc : {"user", "copyin", "smc", "copyout", "return"},
          cmd : 0 .. Unknown - 1, user : Word \cup AnyTid \cup {StackEnd},
          buf : Word \cup AnyTid, ret : Int, arrived : BOOLEAN]

(* The table is the monitor's, a thread is at one place of teeplc_ioctl,   *)
(* and a device number has one holder.                                     *)
TypeOK == /\ slots \in Table
          /\ call \in [Tid -> Calls]
          /\ cdev \in Majors \cup {0} /\ node \in Majors \cup {0}
          /\ taken \subseteq Majors \ {cdev}
          /\ lost \subseteq Majors \ (taken \cup {cdev})
          /\ live \in Nat /\ leaked \in 0 .. MaxLeaked

(* The node outlives the driver, because device_destroy is given another   *)
(* number.  After a load it still leads to the driver, unless its number   *)
(* was not to be had again, or the driver's was not when the node was      *)
(* made: left alone, the module comes back under its node's number however *)
(* often it is removed and loaded.                                         *)
NodeLeadsBack ==
    cdev # 0 => \/ node = cdev
                \/ node > cdev /\ node \in held \cup lost
                \/ node < cdev /\ cdev \in held

(* The buffers of teeplc_ioctl that are out are those of the threads in it *)
(* and one for each command it does not list: no listed command, failed    *)
(* copies included, keeps its buffer or gives back one it does not have.   *)
BuffersAccounted ==
    live = Cardinality({t \in Tid : call[t].pc # "user"}) + leaked

(* Whatever the threads' calls do between each other's copies and SMCs,    *)
(* the monitor holds for a thread the words it gave itself, in order, with *)
(* 0 in the place of a word whose copy failed: never another thread's word *)
(* nor one of an earlier call, left in a buffer that is used again.        *)
HoldsOwnWords ==
    \A t \in Tid : LET i == FindSlot(slots, t)
                   IN  i # NotFound => slots[i].stack = view[t]

(* A restore whose copy succeeds puts into the caller's memory the word    *)
(* the caller saved last, although SMCs of other threads, restores and     *)
(* resets among them, run between its own SMC and its copy_to_user.        *)
DeliversOwnWord ==
    \A t \in Tid :
        call[t].pc = "return" /\ call[t].cmd = 3 /\ Returned(reply[t])
           => call[t].ret = NotCopied \/ call[t].user = due[t]

(* A stack is released only by a call whose caller named its thread: a     *)
(* release whose copy fails asks for thread 0 and releases nobody.         *)
ReleasedAsAsked ==
    [][\A i \in SlotIndex :
          slots[i].flag = 1 /\ slots'[i].flag = 0
             => \E t \in Tid :
                   /\ call[t].pc = "smc" /\ call'[t].pc = "return"
                   /\ \/ call[t].cmd = 5
                      \/ /\ call[t].cmd = 4 /\ call[t].arrived
                         /\ call[t].user = slots[i].thread_id]_vars
=============================================================================
