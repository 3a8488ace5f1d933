----------------------------- MODULE PlcRuntime -----------------------------
(***************************************************************************)
(* main of the PLC runtime: the start beside the interactive server's      *)
(* thread, the scan cycle and its timing, the record of the cycle times    *)
(* that the search reads, and the shutdown.  One unit of time is what the  *)
(* code calls a nanosecond.                                                *)
(***************************************************************************)
EXTENDS Integers, Sequences

CONSTANTS NSEC_PER_SEC,
          NSEC_PER_USEC,    \* the 1000 by which the recorded times are cut
          common_ticktime__,
          Cycles,           \* the initial value of cycles
          MaxTime           \* bound: the clock stops here

ASSUME RuntimeAssumption ==
          /\ NSEC_PER_SEC \in Nat \ {0} /\ NSEC_PER_USEC \in Nat \ {0}
          /\ common_ticktime__ \in Nat \ {0}
          /\ Cycles \in Nat /\ MaxTime \in Nat

VARIABLES build,       \* which condition compile_program.sh left in the while
          ethercat,    \* is the EtherCAT code compiled in?
          layerLocks,  \* do the hardware layer's updates take bufferLock?
          pc,          \* where main is
          now,         \* CLOCK_MONOTONIC
          timer_start, cycle_start, cycle_time, \* timespecs
          tick,        \* __tick
          cycles, run_openplc,
          timeList,    \* the recorded cycle and delay of each tick
          file,        \* json/time_record.json: of this run or an earlier one
          lock,        \* bufferLock: "free" or who took it
          server,      \* the interactive server's thread and its clients'
          image, hw,   \* the classes with an output that is on, in the image
                       \* and in what the hardware was given
          epoch,       \* history: when the timer was started
          truth,       \* history: the times timeList ought to hold
          races        \* history: where clients got past bufferLock

clocks == << now, timer_start, cycle_start, cycle_time, epoch >>
record == << timeList, truth, file >>
buffers == << lock, server, image, hw, races >>
switches == << build, ethercat, layerLocks, run_openplc >>
vars == << pc, clocks, tick, cycles, record, buffers, switches >>

-----------------------------------------------------------------------------

Timespec(t) == [tv_sec |-> t \div NSEC_PER_SEC, tv_nsec |-> t % NSEC_PER_SEC]
Time(ts) == ts.tv_sec * NSEC_PER_SEC + ts.tv_nsec

\* Mutant: no second is borrowed for the nanoseconds.
DiffUnborrowed(a, b) == [tv_sec  |-> a.tv_sec - b.tv_sec,
                         tv_nsec |-> a.tv_nsec - b.tv_nsec]

\* timespec_diff
Diff(a, b) ==
    IF a.tv_nsec < b.tv_nsec
    THEN [tv_sec  |-> a.tv_sec - b.tv_sec - 1,
          tv_nsec |-> a.tv_nsec - b.tv_nsec + NSEC_PER_SEC]
    ELSE [tv_sec  |-> a.tv_sec - b.tv_sec,
          tv_nsec |-> a.tv_nsec - b.tv_nsec]

\* Mutant: nanoseconds that make up a second are not carried over.
LaterUncarried(ts, delay) ==
    [tv_sec  |-> ts.tv_sec + delay \div NSEC_PER_SEC,
     tv_nsec |-> (ts.tv_nsec + (delay % NSEC_PER_SEC)) % NSEC_PER_SEC]

\* The time sleep_until sleeps to.  One subtraction normalises it.
Later(ts, delay) ==
    LET sec  == ts.tv_sec + delay \div NSEC_PER_SEC
        nsec == ts.tv_nsec + (delay % NSEC_PER_SEC)
    IN  IF nsec >= NSEC_PER_SEC
        THEN [tv_sec |-> sec + 1, tv_nsec |-> nsec - NSEC_PER_SEC]
        ELSE [tv_sec |-> sec, tv_nsec |-> nsec]

\* The output buffers, by the size of their elements.
Class == {"bool", "byte", "int", "dint", "lint"}

\* updateBuffersIn and updateBuffersOut of the hardware layer (external):
\* main calls them outside its own critical section, because most layers
\* take bufferLock themselves.
LayerPasses == layerLocks => lock = "free"

\* What is recorded of a time: its nanoseconds, without the seconds.
Recorded(ts) == ts.tv_nsec \div NSEC_PER_USEC

Init == /\ build \in {"cycles", "run_openplc"}
        /\ ethercat \in BOOLEAN /\ layerLocks \in BOOLEAN
        /\ pc = "create"
        /\ now \in 0 .. NSEC_PER_SEC - 1
        /\ timer_start = Timespec(0)
        /\ cycle_start = Timespec(0)
        /\ cycle_time = Timespec(0)
        /\ epoch = 0
        /\ tick = 0 /\ cycles = Cycles /\ run_openplc = TRUE
        /\ timeList = << >> /\ truth = << >>
        /\ file = [ours |-> FALSE, list |-> << >>]
        /\ lock = "free" /\ server = "none" /\ races = {}
        /\ image = {} /\ hw = {}

-----------------------------------------------------------------------------
\* The start.

\* The server's thread runs from here on, ...
CreateServer == /\ pc = "create"
                /\ server' = "idle"
                /\ pc' = "mutex"
                /\ UNCHANGED << clocks, tick, cycles, record, lock, image, hw,
                                races, switches >>

\* ... and only now is the mutex it shares with main initialised, taken or
\* not.  A failure ends the process.
InitBufferLock == /\ pc = "mutex"
                  /\ \/ /\ lock' = "free"
                        /\ races' = IF lock = "server" THEN races \cup {"init"} ELSE races
                        /\ pc' = "hardware"
                     \/ /\ pc' = "exit(1)"
                        /\ UNCHANGED << lock, races >>
                  /\ UNCHANGED << clocks, tick, cycles, record, server, image,
                                  hw, switches >>

\* The first updates of the buffers, and the timer is started.
InitHardware == /\ pc = "hardware" /\ LayerPasses
                /\ hw' = image
                /\ timer_start' = Timespec(now)
                /\ epoch' = now
                /\ pc' = "while"
                /\ UNCHANGED << now, cycle_start, cycle_time, tick, cycles,
                                record, lock, server, image, races, switches >>

-----------------------------------------------------------------------------
\* The scan cycle.

Running == IF build = "cycles" THEN cycles # 0 ELSE run_openplc

BeginCycle == /\ pc = "while" /\ Running
              /\ cycles' = cycles - 1
              /\ cycle_start' = Timespec(now)
              /\ pc' = "read"
              /\ UNCHANGED << now, timer_start, cycle_time, epoch, tick,
                              record, buffers, switches >>

LeaveLoop == /\ pc = "while" /\ ~ Running
             /\ pc' = "summary"
             /\ UNCHANGED << clocks, tick, cycles, record, buffers, switches >>

\* updateBuffersIn
ReadInputs == /\ pc = "read" /\ LayerPasses
              /\ pc' = "lock"
              /\ UNCHANGED << clocks, tick, cycles, record, buffers, switches >>

\* Mutant: the lock is only waited for.
LockBuffersUntaken == /\ pc = "lock" /\ lock = "free"
                      /\ pc' = "logic"
                      /\ UNCHANGED << clocks, tick, cycles, record, buffers,
                                      switches >>

LockBuffers == /\ pc = "lock" /\ lock = "free"
               /\ lock' = "main"
               /\ pc' = "logic"
               /\ UNCHANGED << clocks, tick, cycles, record, server, image, hw,
                               races, switches >>

\* ethercat_callcyclic fails: the loop is left with bufferLock held.
EthercatFails == /\ pc = "logic" /\ ethercat
                 /\ pc' = "summary"
                 /\ UNCHANGED << clocks, tick, cycles, record, buffers,
                                 switches >>

\* Mutant: the lock is kept.
RunLogicLocked == /\ pc = "logic"
                  /\ tick' = tick + 1
                  /\ image' = Class
                  /\ pc' = "end"
                  /\ UNCHANGED << clocks, cycles, record, lock, server, hw,
                                  races, switches >>

\* The program's logic turns outputs of every class on, then bufferLock is
\* released.
RunLogic == /\ pc = "logic"
            /\ tick' = tick + 1
            /\ image' = Class
            /\ lock' = "free"
            /\ pc' = "end"
            /\ UNCHANGED << clocks, cycles, record, server, hw, races,
                            switches >>

\* Mutant: the next cycle is timed from the end of this one.
NextFromNow == Later(Timespec(now), common_ticktime__)

\* sleep_until adds the tick to the time it was given, late or not.
NextDeadline == Later(timer_start, common_ticktime__)

\* updateBuffersOut comes before the end of the cycle is read off the clock.
EndCycle == /\ pc = "end" /\ LayerPasses
            /\ hw' = image
            /\ cycle_time' = Diff(Timespec(now), cycle_start)
            /\ timer_start' = NextDeadline
            /\ pc' = "sleep"
            /\ UNCHANGED << now, cycle_start, epoch, tick, cycles, record,
                            lock, server, image, races, switches >>

\* Mutant: the tick the cycle began with.
RecordKeyBefore(t) == t - 1

\* __tick has been counted up, so that the first cycle is recorded as 1.
RecordKey(t) == t

\* A map with an entry for n, new or not.
Entered(map, n, entry) ==
    [k \in DOMAIN map \cup {n} |-> IF k = n THEN entry ELSE map[k]]

\* clock_nanosleep is over at its time or later; the lateness is recorded
\* together with the time of the cycle before the sleep.
Wake == LET late == Diff(Timespec(now), timer_start)
            entry == [cycle_t |-> Recorded(cycle_time),
                      delay_t |-> Recorded(late)]
            fact == [cycle_t |-> Time(cycle_time),
                     delay_t |-> now - Time(timer_start)]
        IN  /\ pc = "sleep" /\ now >= Time(timer_start)
            /\ timeList' = Entered(timeList, RecordKey(tick), entry)
            /\ truth' = Entered(truth, tick, fact)
            /\ pc' = "while"
            /\ UNCHANGED << clocks, tick, cycles, file, buffers, switches >>

\* Time passes while main waits for the lock, runs the logic and sleeps.
TimePasses == /\ pc \in {"read", "lock", "logic", "end", "sleep"}
              /\ now < MaxTime
              /\ now' = now + 1
              /\ UNCHANGED << pc, timer_start, cycle_start, cycle_time, epoch,
                              tick, cycles, record, buffers, switches >>

-----------------------------------------------------------------------------
\* The end.

\* The averages are printed only: __tick is 0 when the first cycle was not
\* finished, and AArch64 divides by it without a fault.  The file is
\* truncated and written, or cannot be opened.
Summary == /\ pc = "summary"
           /\ file' \in {file, [ours |-> TRUE, list |-> timeList]}
           /\ pc' = "leave"
           /\ UNCHANGED << clocks, tick, cycles, timeList, truth, buffers,
                           switches >>

\* The server's thread is detached and then joined, which is an error the
\* join returns at once; if the thread is gone by then, anything may happen.
LeaveServer == /\ pc = "leave"
               /\ \/ pc' = "disable"
                  \/ server = "ended" /\ pc' = "crash"
               /\ UNCHANGED << clocks, tick, cycles, record, buffers,
                               switches >>

\* disableOutputs clears three of the five classes; it does not take
\* bufferLock.
Disabled == {"bool", "byte", "int"}

DisableOutputs == /\ pc = "disable"
                  /\ image' = image \ Disabled
                  /\ pc' = "write"
                  /\ UNCHANGED << clocks, tick, cycles, record, lock, server,
                                  hw, races, switches >>

\* Mutant: the cleared image is not given to the hardware.
LastOutputsLeft == /\ pc = "write" /\ LayerPasses
                   /\ pc' = "exit(0)"
                   /\ UNCHANGED << clocks, tick, cycles, record, buffers,
                                   switches >>

LastOutputs == /\ pc = "write" /\ LayerPasses
               /\ hw' = image
               /\ pc' = "exit(0)"
               /\ UNCHANGED << clocks, tick, cycles, record, lock, server,
                               image, races, switches >>

Gone == {"exit(0)", "exit(1)", "crash"}

-----------------------------------------------------------------------------
\* The server's thread, which main only starts (external): its clients take
\* bufferLock and write outputs, and it may end once told to stop.

ServerEnters == /\ pc \notin Gone /\ server = "idle" /\ lock = "free"
                /\ server' = "in"
                /\ lock' = "server"
                /\ UNCHANGED << pc, clocks, tick, cycles, record, image, hw,
                                races, switches >>

ServerLeaves == /\ pc \notin Gone /\ server = "in"
                /\ server' = "idle"
                /\ lock' = "free"
                /\ image' = Class
                /\ races' = IF pc = "write" THEN races \cup {"outputs"}
                            ELSE races
                /\ UNCHANGED << pc, clocks, tick, cycles, record, hw, switches >>

ServerToldToStop == /\ pc \notin Gone /\ server = "idle" /\ run_openplc
                    /\ run_openplc' = FALSE
                    /\ UNCHANGED << pc, clocks, tick, cycles, record, buffers,
                                    build, ethercat, layerLocks >>

ServerEnds == /\ pc \notin Gone /\ server = "idle" /\ ~ run_openplc
              /\ server' = "ended"
              /\ UNCHANGED << pc, clocks, tick, cycles, record, lock, image,
                              hw, races, switches >>

Main == \/ CreateServer \/ InitBufferLock \/ InitHardware
        \/ BeginCycle \/ LeaveLoop \/ ReadInputs \/ LockBuffers
        \/ EthercatFails \/ RunLogic \/ EndCycle \/ Wake
        \/ Summary \/ LeaveServer \/ DisableOutputs \/ LastOutputs

Server == ServerEnters \/ ServerLeaves \/ ServerToldToStop \/ ServerEnds

Next == Main \/ Server \/ TimePasses

Spec == Init /\ [][Next]_vars

\* Main goes on when it can, time goes by, a client's critical section ends,
\* and main, which runs at real-time priority once it is in the loop, is not
\* passed over for ever when it waits for bufferLock.
TakesLock == ReadInputs \/ LockBuffers \/ EndCycle \/ LastOutputs

FairSpec == /\ Spec
            /\ WF_vars(Main)
            /\ WF_vars(TimePasses)
            /\ WF_vars(ServerLeaves)
            /\ SF_vars(TakesLock)

-----------------------------------------------------------------------------

Timespecs == [tv_sec : Nat, tv_nsec : 0 .. NSEC_PER_SEC - 1]
Times == [cycle_t : Nat, delay_t : Nat]

(* Every timespec the code computes is normalised: timespec_diff borrows   *)
(* and sleep_until carries one second at most, and that is enough.         *)
TypeOK ==
    /\ pc \in Gone \cup {"create", "mutex", "hardware", "while", "read",
                         "lock", "logic", "end", "sleep", "summary", "leave",
                         "disable", "write"}
    /\ {timer_start, cycle_start, cycle_time} \subseteq Timespecs
    /\ now \in Nat /\ epoch \in Nat /\ tick \in Nat /\ cycles \in Int
    /\ lock \in {"free", "main", "server"}
    /\ server \in {"none", "idle", "in", "ended"}
    /\ image \subseteq Class /\ hw \subseteq Class
    /\ races \subseteq {"init", "outputs"}
    /\ timeList \in [1 .. Len(timeList) -> Times]

(* The schedule does not drift: however late cycles end and sleeps wake    *)
(* up, cycle n + 1 is due n ticks after the timer was started, and it      *)
(* never begins before.                                                    *)
Due(n) == epoch + n * common_ticktime__

OnSchedule ==
    /\ pc \in {"while", "read", "lock", "logic", "sleep"}
          => Time(timer_start) = Due(tick)
    /\ pc = "end" => Time(timer_start) = Due(tick - 1)
    /\ pc \in {"while", "read", "lock", "logic"} => now >= Due(tick)

(* Lateness is not forgotten: what an overrun leaves of itself after the   *)
(* rest of its tick is in the next delay, until the cycles have caught up. *)
LatenessCarried ==
    \A n \in DOMAIN truth :
        LET before == IF n = 1 THEN 0 ELSE truth[n - 1].delay_t
        IN  /\ truth[n].delay_t >= 0
            /\ truth[n].delay_t
                  >= before + truth[n].cycle_t - common_ticktime__

(* The record has one entry for every finished cycle and sleep, under its  *)
(* number, and a time shorter than a second is recorded in microseconds,   *)
(* as main.cpp 440 and 483 say.  (Of a longer one it has no more than the  *)
(* nanoseconds beyond its seconds.)  A file of this run is the whole       *)
(* record.                                                                 *)
RecordedTruly(recorded, time) ==
    time < NSEC_PER_SEC => recorded = time \div NSEC_PER_USEC

RecordTrue ==
    /\ DOMAIN timeList = 1 .. tick - (IF pc \in {"end", "sleep"} THEN 1 ELSE 0)
    /\ \A n \in DOMAIN timeList :
          /\ RecordedTruly(timeList[n].cycle_t, truth[n].cycle_t)
          /\ RecordedTruly(timeList[n].delay_t, truth[n].delay_t)
    /\ file.ours => file.list = timeList

(* The logic and a client of the server are in the buffers at one time     *)
(* only if a client held bufferLock when main initialised it.              *)
Exclusive == pc = "logic" /\ server = "in" => "init" \in races

(* A shutdown leaves the outputs that disableOutputs is for off, unless a  *)
(* client writes to them between it, which takes no lock, and the last     *)
(* update.                                                                 *)
OutputsOff ==
    pc = "exit(0)" => hw \cap Disabled = {} \/ "outputs" \in races

(* From the loop on, a measuring run always ends, and the other when it is *)
(* told to: neither late cycles nor clients stop main for ever.  What      *)
(* stops it is itself, after an EtherCAT failure, which keeps bufferLock   *)
(* taken, when the hardware layer's last update takes it too.  (The clock  *)
(* of the model stops at MaxTime.)                                         *)
Stopping == /\ pc \notin {"create", "mutex", "hardware"}
            /\ build = "cycles" \/ ~ run_openplc
ClockStopped == pc = "sleep" /\ Time(timer_start) > MaxTime
SelfLocked == pc = "write" /\ ethercat /\ layerLocks /\ lock = "main"

Ends == Stopping ~> pc \in Gone \/ ClockStopped \/ SelfLocked
=============================================================================
