--------------------------- MODULE PlcRuntimeProofs ---------------------------
(***************************************************************************)
(* Theorems about PlcRuntime: the schedule of the scan cycle does not      *)
(* drift, and bufferLock excludes the server's clients from the logic,     *)
(* for every tick, every length of a second and any number of cycles.      *)
(***************************************************************************)
EXTENDS PlcRuntime, SequenceTheorems, TLAPS

-----------------------------------------------------------------------------
\* Arithmetic on timespecs.

LEMMA DivMod ==
    ASSUME NEW t \in Nat
    PROVE  /\ t \div NSEC_PER_SEC \in Nat
           /\ t % NSEC_PER_SEC \in 0 .. NSEC_PER_SEC - 1
           /\ t = (t \div NSEC_PER_SEC) * NSEC_PER_SEC + (t % NSEC_PER_SEC)
BY RuntimeAssumption

LEMMA Product ==
    ASSUME NEW a \in Int, NEW b \in Int, NEW c \in Int
    PROVE  /\ a * c \in Int /\ b * c \in Int
           /\ (a + b) * c = a * c + b * c
OBVIOUS

LEMMA ProductNat ==
    ASSUME NEW a \in Nat, NEW c \in Nat
    PROVE  a * c \in Nat
OBVIOUS

\* What the clock returns is a normalised timespec of the time it stands for.
LEMMA TimespecTime ==
    ASSUME NEW t \in Nat
    PROVE  Timespec(t) \in Timespecs /\ Time(Timespec(t)) = t
<1>1. /\ t \div NSEC_PER_SEC \in Nat
      /\ t % NSEC_PER_SEC \in 0 .. NSEC_PER_SEC - 1
      /\ t = (t \div NSEC_PER_SEC) * NSEC_PER_SEC + (t % NSEC_PER_SEC)
  BY DivMod
<1> QED
  BY <1>1 DEF Timespec, Timespecs, Time

\* One subtraction is enough for sleep_until: the time it computes is
\* normalised, and later by the delay exactly.
LEMMA LaterTime ==
    ASSUME NEW ts \in Timespecs, NEW delay \in Nat
    PROVE  Later(ts, delay) \in Timespecs
           /\ Time(Later(ts, delay)) = Time(ts) + delay
<1> DEFINE n == NSEC_PER_SEC
           q == delay \div n
           r == delay % n
           sec == ts.tv_sec + q
           nsec == ts.tv_nsec + r
<1>1. n \in Nat \ {0}
  BY RuntimeAssumption
<1>2. q \in Nat /\ r \in 0 .. n - 1 /\ delay = q * n + r
  BY DivMod
<1>3. ts.tv_sec \in Nat /\ ts.tv_nsec \in 0 .. n - 1
  BY DEF Timespecs
<1>4. sec \in Nat /\ nsec \in Nat /\ nsec < n + n
  BY <1>1, <1>2, <1>3
<1> HIDE DEF q, r
<1>5. sec * n = ts.tv_sec * n + q * n /\ (sec + 1) * n = sec * n + n
  <2>1. sec * n = ts.tv_sec * n + q * n
    BY <1>1, <1>2, <1>3, Product
  <2>2. (sec + 1) * n = sec * n + 1 * n
    BY <1>1, <1>4, Product
  <2> QED
    BY <2>1, <2>2, <1>1
<1>6. ts.tv_sec * n \in Int /\ q * n \in Int
  BY <1>1, <1>2, <1>3, Product
<1>7. Later(ts, delay) = IF nsec >= n
                         THEN [tv_sec |-> sec + 1, tv_nsec |-> nsec - n]
                         ELSE [tv_sec |-> sec, tv_nsec |-> nsec]
  BY DEF Later, q, r
<1>8. Time(ts) = ts.tv_sec * n + ts.tv_nsec
  BY DEF Time
<1>9. CASE nsec >= n
  <2>1. Later(ts, delay) = [tv_sec |-> sec + 1, tv_nsec |-> nsec - n]
    BY <1>7, <1>9
  <2>2. sec + 1 \in Nat /\ nsec - n \in 0 .. n - 1
    BY <1>1, <1>4, <1>9
  <2>3. Later(ts, delay) \in Timespecs
    BY <2>1, <2>2 DEF Timespecs
  <2>4. Time(Later(ts, delay)) = (sec + 1) * n + (nsec - n)
    BY <2>1 DEF Time
  <2>5. (sec + 1) * n + (nsec - n) = ts.tv_sec * n + q * n + nsec
    BY <1>1, <1>4, <1>5, <1>6
  <2> QED
    BY <2>3, <2>4, <2>5, <1>2, <1>3, <1>6, <1>8
<1>10. CASE ~ (nsec >= n)
  <2>1. Later(ts, delay) = [tv_sec |-> sec, tv_nsec |-> nsec]
    BY <1>7, <1>10
  <2>2. nsec \in 0 .. n - 1
    BY <1>1, <1>4, <1>10
  <2>3. Later(ts, delay) \in Timespecs
    BY <2>1, <2>2, <1>4 DEF Timespecs
  <2>4. Time(Later(ts, delay)) = sec * n + nsec
    BY <2>1 DEF Time
  <2> QED
    BY <2>3, <2>4, <1>2, <1>3, <1>5, <1>6, <1>8
<1> QED
  BY <1>9, <1>10

-----------------------------------------------------------------------------
\* The schedule.

\* The deadline is a normalised timespec on the schedule, and before the
\* timer is started no cycle has been counted.
Starting == pc \in {"create", "mutex", "hardware"}

ScheduleInv ==
    /\ now \in Nat /\ epoch \in Nat /\ tick \in Nat
    /\ timer_start \in Timespecs
    /\ Starting => tick = 0
    /\ pc \in {"end", "sleep"} => tick # 0
    /\ OnSchedule

LEMMA DueNext ==
    ASSUME NEW n \in Nat, epoch \in Nat
    PROVE  /\ Due(n) \in Int
           /\ Due(n + 1) = Due(n) + common_ticktime__
<1>1. common_ticktime__ \in Nat
  BY RuntimeAssumption
<1>2. (n + 1) * common_ticktime__
         = n * common_ticktime__ + 1 * common_ticktime__
  BY <1>1, Product
<1>3. n * common_ticktime__ \in Int
  BY <1>1, Product
<1> QED
  BY <1>1, <1>2, <1>3 DEF Due

LEMMA ScheduleInit == Init => ScheduleInv
<1> SUFFICES ASSUME Init PROVE ScheduleInv
  OBVIOUS
<1>1. now \in Nat
  BY RuntimeAssumption DEF Init
<1>2. timer_start \in Timespecs
  BY TimespecTime DEF Init
<1> QED
  BY <1>1, <1>2 DEF Init, ScheduleInv, OnSchedule, Starting

LEMMA ScheduleStep == ScheduleInv /\ [Next]_vars => ScheduleInv'
<1> SUFFICES ASSUME ScheduleInv, [Next]_vars PROVE ScheduleInv'
  OBVIOUS
<1> USE DEF ScheduleInv
<1>1. CASE UNCHANGED vars
  BY <1>1 DEF vars, clocks, OnSchedule, Due, Time, Starting
<1>2. CASE CreateServer
  BY <1>2 DEF CreateServer, clocks, OnSchedule, Starting
<1>3. CASE InitBufferLock
  BY <1>3 DEF InitBufferLock, clocks, OnSchedule, Starting
<1>4. CASE InitHardware
  <2>1. /\ timer_start' \in Timespecs /\ Time(timer_start)' = now
        /\ epoch' = now /\ now' = now /\ tick' = 0 /\ pc' = "while"
    BY <1>4, TimespecTime DEF InitHardware, Starting, Time
  <2>2. Due(tick)' = now
    BY <2>1, RuntimeAssumption DEF Due
  <2> QED
    BY <2>1, <2>2 DEF OnSchedule, Starting
<1>5. CASE BeginCycle
  BY <1>5 DEF BeginCycle, OnSchedule, Due, Time, Starting
<1>6. CASE LeaveLoop
  BY <1>6 DEF LeaveLoop, clocks, OnSchedule, Starting
<1>7. CASE ReadInputs \/ LockBuffers
  BY <1>7 DEF ReadInputs, LockBuffers, clocks, OnSchedule, Due, Time, Starting
<1>8. CASE EthercatFails
  BY <1>8 DEF EthercatFails, clocks, OnSchedule, Starting
<1>9. CASE RunLogic
  <2>1. /\ tick' = tick + 1 /\ pc' = "end" /\ timer_start' = timer_start
        /\ epoch' = epoch /\ now' = now
    BY <1>9 DEF RunLogic, clocks
  <2>2. Time(timer_start) = Due(tick)
    BY <1>9 DEF RunLogic, OnSchedule
  <2>3. Time(timer_start)' = Due(tick - 1)'
    BY <2>1, <2>2 DEF Time, Due
  <2> QED
    BY <2>1, <2>3 DEF OnSchedule, Starting
<1>10. CASE EndCycle
  <2>1. /\ tick' = tick /\ tick # 0 /\ pc' = "sleep" /\ epoch' = epoch
        /\ now' = now
        /\ timer_start' = Later(timer_start, common_ticktime__)
    BY <1>10 DEF EndCycle, NextDeadline
  <2>2. pc = "end" /\ tick - 1 \in Nat /\ (tick - 1) + 1 = tick
    BY <1>10 DEF EndCycle
  <2>3. Time(timer_start) = Due(tick - 1)
    BY <2>2 DEF OnSchedule
  <2>4. /\ timer_start' \in Timespecs
        /\ Time(timer_start)' = Due(tick - 1) + common_ticktime__
    BY <2>1, <2>3, LaterTime, RuntimeAssumption DEF Time
  <2>5. Due(tick) = Due(tick - 1) + common_ticktime__
    BY <2>2, DueNext
  <2>6. Time(timer_start)' = Due(tick)'
    BY <2>1, <2>4, <2>5 DEF Due
  <2> QED
    BY <2>1, <2>4, <2>6 DEF OnSchedule, Starting
<1>11. CASE Wake
  <2>1. /\ pc = "sleep" /\ now >= Time(timer_start) /\ pc' = "while"
        /\ tick' = tick
        /\ UNCHANGED << now, timer_start, epoch >>
    BY <1>11 DEF Wake, clocks
  <2>2. Time(timer_start) = Due(tick)
    BY <2>1 DEF OnSchedule
  <2> QED
    BY <2>1, <2>2 DEF OnSchedule, Due, Time, Starting
<1>12. CASE Summary
  BY <1>12 DEF Summary, clocks, OnSchedule, Starting
<1>13. CASE LeaveServer
  BY <1>13 DEF LeaveServer, clocks, OnSchedule, Starting
<1>14. CASE DisableOutputs
  BY <1>14 DEF DisableOutputs, clocks, OnSchedule, Starting
<1>15. CASE LastOutputs
  BY <1>15 DEF LastOutputs, clocks, OnSchedule, Starting
<1>16. CASE Server
  BY <1>16 DEF Server, ServerEnters, ServerLeaves, ServerToldToStop,
               ServerEnds, clocks, OnSchedule, Due, Time, Starting
<1>17. CASE TimePasses
  <2>1. /\ now' = now + 1
        /\ UNCHANGED << pc, timer_start, epoch, tick >>
        /\ pc \in {"read", "lock", "logic", "end", "sleep"}
    BY <1>17 DEF TimePasses
  <2>2. /\ Due(tick) \in Int /\ Due(tick)' = Due(tick)
        /\ Due(tick - 1)' = Due(tick - 1)
    BY <2>1, DueNext DEF Due
  <2> QED
    BY <2>1, <2>2 DEF OnSchedule, Time, Starting
<1> QED
  BY <1>1, <1>2, <1>3, <1>4, <1>5, <1>6, <1>7, <1>8, <1>9, <1>10, <1>11,
     <1>12, <1>13, <1>14, <1>15, <1>16, <1>17 DEF Next, Main

\* main.cpp 94-107 and 469: however late cycles end and sleeps wake up, cycle
\* n + 1 is due n ticks after the timer was started and does not begin before.
THEOREM ScheduleKept == Spec => []OnSchedule
<1>1. ScheduleInv => OnSchedule
  BY DEF ScheduleInv
<1> QED
  BY <1>1, ScheduleInit, ScheduleStep, PTL DEF Spec

-----------------------------------------------------------------------------
\* The lateness.

\* timespec_diff is the difference of the times.
LEMMA DiffTime ==
    ASSUME NEW a \in Timespecs, NEW b \in Timespecs
    PROVE  Time(Diff(a, b)) = Time(a) - Time(b)
<1> DEFINE n == NSEC_PER_SEC
<1>1. n \in Nat /\ a.tv_sec \in Nat /\ a.tv_nsec \in Nat
               /\ b.tv_sec \in Nat /\ b.tv_nsec \in Nat
  BY RuntimeAssumption DEF Timespecs
<1> DEFINE s == a.tv_sec - b.tv_sec
<1>2. s \in Int /\ a.tv_sec = s + b.tv_sec
  BY <1>1
<1> HIDE DEF s
<1>3. a.tv_sec * n = s * n + b.tv_sec * n /\ s * n \in Int
  BY <1>1, <1>2, Product
<1>4. (s + (-1)) * n = s * n + (-1) * n
  BY <1>1, <1>2, Product
<1>5. CASE a.tv_nsec < b.tv_nsec
  <2>1. Diff(a, b) = [tv_sec |-> s + (-1),
                      tv_nsec |-> a.tv_nsec - b.tv_nsec + n]
    BY <1>1, <1>2, <1>5 DEF Diff, s
  <2>2. Time(Diff(a, b)) = (s + (-1)) * n + (a.tv_nsec - b.tv_nsec + n)
    BY <2>1 DEF Time
  <2> QED
    BY <2>2, <1>1, <1>3, <1>4 DEF Time
<1>6. CASE ~ (a.tv_nsec < b.tv_nsec)
  <2>1. Diff(a, b) = [tv_sec |-> s, tv_nsec |-> a.tv_nsec - b.tv_nsec]
    BY <1>1, <1>2, <1>6 DEF Diff, s
  <2>2. Time(Diff(a, b)) = s * n + (a.tv_nsec - b.tv_nsec)
    BY <2>1 DEF Time
  <2> QED
    BY <2>2, <1>1, <1>3 DEF Time
<1> QED
  BY <1>5, <1>6

LEMMA TimeType ==
    ASSUME NEW a \in Timespecs
    PROVE  Time(a) \in Nat
<1>1. NSEC_PER_SEC \in Nat /\ a.tv_sec \in Nat /\ a.tv_nsec \in Nat
  BY RuntimeAssumption DEF Timespecs
<1>2. a.tv_sec * NSEC_PER_SEC \in Nat
  BY <1>1, ProductNat
<1> QED
  BY <1>1, <1>2 DEF Time

\* The cycles that are over, and how late the cycle after them began.
Finished == IF pc \in {"end", "sleep"} THEN tick - 1 ELSE tick
Late(n) == IF n = 0 THEN 0 ELSE truth[n].delay_t

\* Every cycle begins as late as the sleep before it woke up.
CycleInv ==
    /\ DOMAIN truth = 1 .. Finished
    /\ \A n \in DOMAIN truth :
          truth[n].cycle_t \in Int /\ truth[n].delay_t \in Int
    /\ pc = "while" => now = Due(tick) + Late(tick)
    /\ pc \in {"read", "lock", "logic", "end"} =>
          /\ cycle_start \in Timespecs
          /\ Time(cycle_start) = Due(Finished) + Late(Finished)
    /\ pc = "sleep" =>
          /\ Time(cycle_time) \in Int
          /\ Time(cycle_time) <= now - (Due(Finished) + Late(Finished))

LatenessInv == ScheduleInv /\ CycleInv /\ LatenessCarried

LEMMA LateType ==
    ASSUME LatenessInv
    PROVE  /\ Finished \in Nat
           /\ Late(Finished) \in Int
           /\ Due(Finished) \in Int
           /\ common_ticktime__ \in Int
<1>1. Finished \in Nat /\ epoch \in Nat
  BY DEF LatenessInv, ScheduleInv, Finished
<1>2. Finished # 0 => Finished \in DOMAIN truth
  BY <1>1 DEF LatenessInv, CycleInv
<1>3. Late(Finished) \in Int
  BY <1>2 DEF LatenessInv, CycleInv, Late
<1>4. Due(Finished) \in Int
  BY <1>1, DueNext
<1> QED
  BY <1>1, <1>3, <1>4, RuntimeAssumption

LEMMA LatenessInit == Init => LatenessInv
<1> SUFFICES ASSUME Init PROVE LatenessInv
  OBVIOUS
<1>1. Finished = 0 /\ DOMAIN truth = {} /\ pc = "create"
  BY DEF Init, Finished
<1>2. CycleInv
  <2>1. 1 .. 0 = {}
    OBVIOUS
  <2> QED
    BY <1>1, <2>1 DEF CycleInv
<1>3. LatenessCarried
  BY <1>1 DEF LatenessCarried
<1> QED
  BY <1>2, <1>3, ScheduleInit DEF LatenessInv

\* Steps that leave the record and the number of cycles over alone.
LEMMA SameRecord ==
    ASSUME LatenessInv, UNCHANGED << truth, epoch >>, Finished' = Finished
    PROVE  /\ LatenessCarried'
           /\ DOMAIN truth' = 1 .. Finished'
           /\ \A n \in DOMAIN truth' :
                 truth'[n].cycle_t \in Int /\ truth'[n].delay_t \in Int
           /\ Due(Finished)' = Due(Finished) /\ Late(Finished)' = Late(Finished)
BY DEF LatenessInv, CycleInv, LatenessCarried, Due, Late

\* What sleep_until and the clock add to the record.
LEMMA WakeRecord ==
    ASSUME LatenessInv, Wake
    PROVE  CycleInv' /\ LatenessCarried'
<1> DEFINE fact == [cycle_t |-> Time(cycle_time),
                    delay_t |-> now - Time(timer_start)]
           m == tick - 1
<1>1. /\ pc = "sleep" /\ now >= Time(timer_start) /\ pc' = "while"
      /\ truth' = Entered(truth, tick, fact)
      /\ tick' = tick /\ now' = now /\ epoch' = epoch
  BY DEF Wake, clocks
<1>2. /\ now \in Nat /\ tick \in Nat /\ Finished = m /\ Finished' = tick
      /\ DOMAIN truth = 1 .. m /\ Time(timer_start) = Due(tick)
      /\ Time(cycle_time) \in Int
      /\ Time(cycle_time) <= now - (Due(m) + Late(m))
  BY <1>1 DEF LatenessInv, ScheduleInv, CycleInv, OnSchedule, Finished
<1>3. m \in Nat /\ m + 1 = tick /\ Late(m) \in Int /\ Due(m) \in Int
      /\ common_ticktime__ \in Int
  BY <1>2, LateType
<1>4. Due(tick) = Due(m) + common_ticktime__
  BY <1>3, DueNext DEF LatenessInv, ScheduleInv
<1>5. /\ fact.cycle_t \in Int /\ fact.delay_t \in Int /\ fact.delay_t >= 0
      /\ fact.delay_t >= Late(m) + fact.cycle_t - common_ticktime__
  BY <1>1, <1>2, <1>3, <1>4
<1> HIDE DEF fact
<1>6. /\ DOMAIN truth' = 1 .. tick
      /\ truth'[tick] = fact
      /\ \A n \in 1 .. m : truth'[n] = truth[n]
  <2>1. truth' = [x \in {tick} \cup (1 .. m) |->
                    IF x = tick THEN fact ELSE truth[x]]
    BY <1>1, <1>2 DEF Entered
  <2>2. {tick} \cup (1 .. m) = 1 .. tick /\ tick \notin 1 .. m
    BY <1>2, <1>3
  <2> HIDE DEF m
  <2> QED
    BY <2>1, <2>2
<1> HIDE DEF m
<1>7. 1 .. tick = {tick} \cup (1 .. m)
  BY <1>2, <1>3
<1>8. \A n \in DOMAIN truth' :
         truth'[n].cycle_t \in Int /\ truth'[n].delay_t \in Int
  BY <1>2, <1>5, <1>6, <1>7 DEF LatenessInv, CycleInv
<1>9. LatenessCarried'
  <2> SUFFICES ASSUME NEW n \in 1 .. tick
               PROVE  LET before == IF n = 1 THEN 0 ELSE truth'[n - 1].delay_t
                      IN  /\ truth'[n].delay_t >= 0
                          /\ truth'[n].delay_t
                                >= before + truth'[n].cycle_t - common_ticktime__
    BY <1>6 DEF LatenessCarried
  <2>1. CASE n = tick
    <3>1. (IF n = 1 THEN 0 ELSE truth'[n - 1].delay_t) = Late(m)
      BY <2>1, <1>3, <1>6 DEF Late
    <3> QED
      BY <3>1, <2>1, <1>5, <1>6
  <2>2. CASE n # tick
    <3>1. n \in 1 .. m /\ (n # 1 => n - 1 \in 1 .. m)
      BY <2>2, <1>2, <1>3
    <3>2. truth'[n] = truth[n] /\ (n # 1 => truth'[n - 1] = truth[n - 1])
      BY <3>1, <1>6
    <3> QED
      BY <3>1, <3>2, <1>2 DEF LatenessInv, LatenessCarried
  <2> QED
    BY <2>1, <2>2
<1>10. now' = Due(tick)' + Late(tick)'
  <2>1. Late(tick)' = fact.delay_t /\ Due(tick)' = Due(tick)
    BY <1>1, <1>3, <1>6 DEF Late, Due
  <2>2. fact.delay_t = now - Due(tick) /\ Due(tick) \in Int
    BY <1>2, <1>3, <1>4 DEF fact
  <2> QED
    BY <2>1, <2>2, <1>1, <1>2
<1> QED
  BY <1>1, <1>2, <1>6, <1>8, <1>9, <1>10 DEF CycleInv

LEMMA LatenessStep == LatenessInv /\ [Next]_vars => LatenessInv'
<1> SUFFICES ASSUME LatenessInv, [Next]_vars
             PROVE  CycleInv' /\ LatenessCarried'
  BY ScheduleStep DEF LatenessInv
<1>1. ASSUME UNCHANGED << truth, epoch, tick, now, cycle_start, cycle_time >>,
             \/ pc' = pc
             \/ pc' \notin {"while", "read", "lock", "logic", "end", "sleep"}
                /\ pc \notin {"end", "sleep"}
             \/ pc = "read" /\ pc' = "lock"
             \/ pc = "lock" /\ pc' = "logic"
      PROVE  CycleInv' /\ LatenessCarried'
  <2>1. Finished' = Finished
    BY <1>1 DEF Finished
  <2> QED
    BY <1>1, <2>1, SameRecord DEF LatenessInv, CycleInv, Due, Late, Time
<1>2. CASE UNCHANGED vars
  BY <1>1, <1>2 DEF vars, clocks, record
<1>3. CASE CreateServer \/ InitBufferLock
  BY <1>1, <1>3 DEF CreateServer, InitBufferLock, clocks, record
<1>4. CASE InitHardware
  <2>1. /\ pc = "hardware" /\ pc' = "while" /\ tick = 0 /\ tick' = 0
        /\ epoch' = now /\ now' = now /\ truth' = truth /\ now \in Nat
    BY <1>4 DEF InitHardware, LatenessInv, ScheduleInv, Starting, record
  <2>2. Finished = 0 /\ Finished' = 0 /\ DOMAIN truth' = {}
    BY <2>1 DEF Finished, LatenessInv, CycleInv
  <2>3. Due(tick)' = now /\ Late(tick)' = 0
    BY <2>1, RuntimeAssumption DEF Due, Late
  <2> QED
    BY <2>1, <2>2, <2>3 DEF CycleInv, LatenessCarried
<1>5. CASE BeginCycle
  <2>1. /\ pc = "while" /\ pc' = "read" /\ tick' = tick /\ now' = now
        /\ cycle_start' = Timespec(now) /\ UNCHANGED << truth, epoch >>
    BY <1>5 DEF BeginCycle, record
  <2>2. Finished' = Finished /\ Finished = tick
    BY <2>1 DEF Finished
  <2>3. cycle_start' \in Timespecs /\ Time(cycle_start)' = now
    BY <2>1, TimespecTime DEF LatenessInv, ScheduleInv, Time
  <2> QED
    BY <2>1, <2>2, <2>3, SameRecord DEF LatenessInv, CycleInv
<1>6. CASE LeaveLoop \/ ReadInputs \/ LockBuffers \/ EthercatFails
  BY <1>1, <1>6 DEF LeaveLoop, ReadInputs, LockBuffers, EthercatFails, clocks,
                    record
<1>7. CASE RunLogic
  <2>1. /\ pc = "logic" /\ pc' = "end" /\ tick' = tick + 1
        /\ UNCHANGED << truth, epoch, cycle_start >>
    BY <1>7 DEF RunLogic, clocks, record
  <2>2. Finished' = Finished
    BY <2>1 DEF Finished, LatenessInv, ScheduleInv
  <2> QED
    BY <2>1, <2>2, SameRecord DEF LatenessInv, CycleInv, Time
<1>8. CASE EndCycle
  <2>1. /\ pc = "end" /\ pc' = "sleep" /\ tick' = tick /\ now' = now
        /\ cycle_time' = Diff(Timespec(now), cycle_start)
        /\ UNCHANGED << truth, epoch >>
    BY <1>8 DEF EndCycle, record
  <2>2. Finished' = Finished
    BY <2>1 DEF Finished
  <2>3. /\ now \in Nat /\ cycle_start \in Timespecs
        /\ Time(cycle_start) = Due(Finished) + Late(Finished)
    BY <2>1 DEF LatenessInv, ScheduleInv, CycleInv
  <2>4. Time(cycle_time)' = now - Time(cycle_start)
    BY <2>1, <2>3, TimespecTime, DiffTime DEF Time
  <2>5. Time(cycle_start) \in Nat
    BY <2>3, TimeType
  <2> QED
    BY <2>1, <2>2, <2>3, <2>4, <2>5, SameRecord DEF CycleInv
<1>9. CASE Wake
  BY <1>9, WakeRecord
<1>10. CASE Summary \/ LeaveServer \/ DisableOutputs \/ LastOutputs
  BY <1>1, <1>10 DEF Summary, LeaveServer, DisableOutputs, LastOutputs,
                     clocks, record
<1>11. CASE Server
  BY <1>1, <1>11 DEF Server, ServerEnters, ServerLeaves, ServerToldToStop,
                     ServerEnds, clocks, record
<1>12. CASE TimePasses
  <2>1. /\ pc \in {"read", "lock", "logic", "end", "sleep"} /\ now' = now + 1
        /\ UNCHANGED << pc, tick, truth, epoch, cycle_start, cycle_time >>
    BY <1>12 DEF TimePasses, record
  <2>2. Finished' = Finished
    BY <2>1 DEF Finished
  <2>3. now \in Nat /\ Late(Finished) \in Int /\ Due(Finished) \in Int
    BY LateType DEF LatenessInv, ScheduleInv
  <2> QED
    BY <2>1, <2>2, <2>3, SameRecord DEF LatenessInv, CycleInv, Time
<1> QED
  BY <1>2, <1>3, <1>4, <1>5, <1>6, <1>7, <1>8, <1>9, <1>10, <1>11, <1>12
     DEF Next, Main

\* main.cpp 433-485: what an overrun leaves of itself after the rest of its
\* tick is in the next delay, until the cycles have caught up.
THEOREM LatenessKept == Spec => []LatenessCarried
<1>1. LatenessInv => LatenessCarried
  BY DEF LatenessInv
<1> QED
  BY <1>1, LatenessInit, LatenessStep, PTL DEF Spec

-----------------------------------------------------------------------------
\* The record.

\* The nanoseconds of a normalised time are its remainder.
LEMMA Remainder ==
    ASSUME NEW s \in Int, NEW r \in 0 .. NSEC_PER_SEC - 1
    PROVE  (s * NSEC_PER_SEC + r) % NSEC_PER_SEC = r
<1> DEFINE n == NSEC_PER_SEC
           x == s * n + r
           q == x \div n
           m == x % n
<1>1. n \in Nat /\ n > 0 /\ r \in Nat /\ r < n
  BY RuntimeAssumption
<1>2. s * n \in Int /\ x \in Int
  BY <1>1, Product
<1>3. q \in Int /\ m \in 0 .. n - 1 /\ x = q * n + m
  BY <1>1, <1>2
<1> HIDE DEF q, m, n
<1>4. q - s \in Int /\ q = s + (q - s)
  BY <1>3
<1>5. q * n = s * n + (q - s) * n
  BY <1>1, <1>4, Product
<1>6. (q - s) * n = r - m /\ (q - s) * n \in Int
  BY <1>1, <1>2, <1>3, <1>4, <1>5, Product
<1>7. r - m < n /\ - n < r - m
  BY <1>1, <1>3
<1>8. ~ (q - s >= 1)
  <2> SUFFICES ASSUME q - s >= 1 PROVE FALSE
    OBVIOUS
  <2>1. q - s - 1 \in Nat /\ q - s = (q - s - 1) + 1
    BY <1>4
  <2>2. (q - s) * n = (q - s - 1) * n + 1 * n
    BY <1>1, <2>1, Product
  <2>3. (q - s - 1) * n \in Nat
    BY <1>1, <2>1, ProductNat
  <2> QED
    BY <1>1, <1>6, <1>7, <2>2, <2>3
<1>9. ~ (q - s =< -1)
  <2> SUFFICES ASSUME q - s =< -1 PROVE FALSE
    OBVIOUS
  <2>1. s - q - 1 \in Nat /\ q - s \in Int /\ s - q - 1 = (s - q) + (-1)
        /\ s - q \in Int /\ (q - s) + (s - q) = 0
    BY <1>3, <1>4
  <2>2. ((q - s) + (s - q)) * n = (q - s) * n + (s - q) * n
    BY <1>1, <2>1, Product
  <2>3. ((s - q) + (-1)) * n = (s - q) * n + (-1) * n
    BY <1>1, <2>1, Product
  <2>4. (s - q - 1) * n \in Nat
    BY <1>1, <2>1, ProductNat
  <2>5. (s - q) * n \in Int
    BY <1>1, <2>1, Product
  <2> QED
    BY <1>1, <1>6, <1>7, <2>1, <2>2, <2>3, <2>4, <2>5
<1>10. (q - s) * n = 0
  <2>1. q - s = 0
    BY <1>4, <1>8, <1>9
  <2> QED
    BY <2>1, <1>1
<1> QED
  BY <1>1, <1>3, <1>6, <1>10 DEF m, n

\* A difference of two times: its seconds may be negative.
Span == [tv_sec : Int, tv_nsec : 0 .. NSEC_PER_SEC - 1]

LEMMA DiffSpan ==
    ASSUME NEW a \in Timespecs, NEW b \in Timespecs
    PROVE  Diff(a, b) \in Span
BY RuntimeAssumption DEF Diff, Timespecs, Span

\* What the record keeps of a time, short or long.
Cut(time) == (time % NSEC_PER_SEC) \div NSEC_PER_USEC

LEMMA RecordedIsCut ==
    ASSUME NEW d \in Span
    PROVE  Recorded(d) = Cut(Time(d))
BY Remainder DEF Recorded, Cut, Time, Span

\* The record is the cut of what it ought to hold.  The file is written after
\* the last cycle, and nothing is recorded from then on.
Over == pc \in Gone \cup {"leave", "disable", "write"}

RecordInv ==
    /\ DOMAIN timeList = 1 .. Finished
    /\ DOMAIN truth = 1 .. Finished
    /\ \A n \in DOMAIN timeList :
          timeList[n] = [cycle_t |-> Cut(truth[n].cycle_t),
                         delay_t |-> Cut(truth[n].delay_t)]
    /\ pc \in {"read", "lock", "logic", "end"} => cycle_start \in Timespecs
    /\ pc = "sleep" => cycle_time \in Span
    /\ file.ours => Over /\ file.list = timeList

TrueInv == ScheduleInv /\ RecordInv

LEMMA TrueInit == Init => TrueInv
<1> SUFFICES ASSUME Init PROVE RecordInv
  BY ScheduleInit DEF TrueInv
<1>1. Finished = 0 /\ DOMAIN truth = {} /\ DOMAIN timeList = {}
      /\ pc = "create" /\ ~ file.ours
  BY DEF Init, Finished
<1>2. 1 .. 0 = {}
  OBVIOUS
<1> QED
  BY <1>1, <1>2 DEF RecordInv

LEMMA WakeTrue ==
    ASSUME TrueInv, Wake
    PROVE  RecordInv'
<1> DEFINE late == Diff(Timespec(now), timer_start)
           entry == [cycle_t |-> Recorded(cycle_time),
                     delay_t |-> Recorded(late)]
           fact == [cycle_t |-> Time(cycle_time),
                    delay_t |-> now - Time(timer_start)]
           m == tick - 1
<1>1. /\ pc = "sleep" /\ pc' = "while" /\ tick' = tick /\ file' = file
      /\ timeList' = Entered(timeList, tick, entry)
      /\ truth' = Entered(truth, tick, fact)
  BY DEF Wake, clocks, RecordKey
<1>2. /\ now \in Nat /\ timer_start \in Timespecs /\ cycle_time \in Span
      /\ tick \in Nat /\ Finished = m /\ Finished' = tick /\ ~ file.ours
      /\ DOMAIN timeList = 1 .. m /\ DOMAIN truth = 1 .. m
  BY <1>1 DEF TrueInv, ScheduleInv, RecordInv, Finished, Over, Gone
<1>3. Timespec(now) \in Timespecs /\ Time(Timespec(now)) = now
  BY <1>2, TimespecTime
<1>4. late \in Span /\ Time(late) = now - Time(timer_start)
  BY <1>2, <1>3, DiffSpan, DiffTime
<1>5. Recorded(late) = Cut(now - Time(timer_start))
  BY <1>4, RecordedIsCut
<1>6. Recorded(cycle_time) = Cut(Time(cycle_time))
  BY <1>2, RecordedIsCut
<1>7. entry = [cycle_t |-> Cut(fact.cycle_t), delay_t |-> Cut(fact.delay_t)]
  BY <1>5, <1>6
<1> HIDE DEF entry, fact
<1>8. /\ {tick} \cup (1 .. m) = 1 .. tick /\ tick \notin 1 .. m
  BY <1>1, <1>2 DEF TrueInv, ScheduleInv
<1> HIDE DEF m
<1>9. /\ DOMAIN timeList' = 1 .. tick /\ DOMAIN truth' = 1 .. tick
      /\ timeList'[tick] = entry /\ truth'[tick] = fact
      /\ \A n \in 1 .. m : timeList'[n] = timeList[n] /\ truth'[n] = truth[n]
  BY <1>1, <1>2, <1>8 DEF Entered
<1>10. \A n \in DOMAIN timeList' :
          timeList'[n] = [cycle_t |-> Cut(truth'[n].cycle_t),
                          delay_t |-> Cut(truth'[n].delay_t)]
  <2> SUFFICES ASSUME NEW n \in 1 .. tick
               PROVE  timeList'[n] = [cycle_t |-> Cut(truth'[n].cycle_t),
                                      delay_t |-> Cut(truth'[n].delay_t)]
    BY <1>9
  <2>1. CASE n = tick
    BY <2>1, <1>7, <1>9
  <2>2. CASE n \in 1 .. m
    BY <2>2, <1>2, <1>9 DEF TrueInv, RecordInv
  <2> QED
    BY <2>1, <2>2, <1>8
<1> QED
  BY <1>1, <1>2, <1>9, <1>10 DEF RecordInv, Cut

LEMMA TrueStep == TrueInv /\ [Next]_vars => TrueInv'
<1> SUFFICES ASSUME TrueInv, [Next]_vars PROVE RecordInv'
  BY ScheduleStep DEF TrueInv
<1> USE DEF TrueInv, RecordInv, Cut, Over, Gone
<1>1. ASSUME UNCHANGED << record, tick, cycle_start, cycle_time >>,
             \/ pc' = pc
             \/ pc' \notin {"while", "read", "lock", "logic", "end", "sleep"}
                /\ pc \notin {"end", "sleep"} /\ (Over => Over')
             \/ pc = "read" /\ pc' = "lock"
             \/ pc = "lock" /\ pc' = "logic"
             \/ pc = "hardware" /\ pc' = "while"
      PROVE  RecordInv'
  BY <1>1 DEF Finished, record
<1>2. CASE UNCHANGED vars
  BY <1>1, <1>2 DEF vars, clocks
<1>3. CASE CreateServer \/ InitBufferLock
  BY <1>1, <1>3 DEF CreateServer, InitBufferLock, clocks
<1>4. CASE InitHardware
  BY <1>1, <1>4 DEF InitHardware
<1>5. CASE BeginCycle
  <2>1. /\ pc = "while" /\ pc' = "read" /\ tick' = tick
        /\ cycle_start' = Timespec(now) /\ UNCHANGED record
    BY <1>5 DEF BeginCycle
  <2>2. cycle_start' \in Timespecs
    BY <2>1, TimespecTime DEF ScheduleInv
  <2> QED
    BY <2>1, <2>2 DEF Finished, record
<1>6. CASE LeaveLoop \/ ReadInputs \/ LockBuffers \/ EthercatFails
  BY <1>1, <1>6 DEF LeaveLoop, ReadInputs, LockBuffers, EthercatFails, clocks
<1>7. CASE RunLogic
  <2>1. /\ pc = "logic" /\ pc' = "end" /\ tick' = tick + 1 /\ tick \in Nat
        /\ UNCHANGED << record, cycle_start >>
    BY <1>7 DEF RunLogic, clocks, ScheduleInv
  <2>2. Finished' = Finished /\ ~ file.ours
    BY <2>1 DEF Finished
  <2> QED
    BY <2>1, <2>2 DEF record
<1>8. CASE EndCycle
  <2>1. /\ pc = "end" /\ pc' = "sleep" /\ tick' = tick
        /\ cycle_time' = Diff(Timespec(now), cycle_start)
        /\ UNCHANGED record
    BY <1>8 DEF EndCycle
  <2>2. cycle_time' \in Span
    BY <2>1, TimespecTime, DiffSpan DEF ScheduleInv
  <2> QED
    BY <2>1, <2>2 DEF Finished, record
<1>9. CASE Wake
  BY <1>9, WakeTrue
<1>10. CASE Summary
  <2>1. /\ pc = "summary" /\ UNCHANGED << timeList, truth, tick, clocks >>
        /\ pc' = "leave" /\ file' \in {file, [ours |-> TRUE, list |-> timeList]}
    BY <1>10 DEF Summary
  <2>2. Finished' = Finished
    BY <2>1 DEF Finished
  <2>3. ~ file.ours
    BY <2>1
  <2> QED
    BY <2>1, <2>2, <2>3
<1>11. CASE LeaveServer \/ DisableOutputs \/ LastOutputs
  BY <1>1, <1>11 DEF LeaveServer, DisableOutputs, LastOutputs, clocks
<1>12. CASE Server
  BY <1>1, <1>12 DEF Server, ServerEnters, ServerLeaves, ServerToldToStop,
                     ServerEnds, clocks
<1>13. CASE TimePasses
  BY <1>1, <1>13 DEF TimePasses
<1> QED
  BY <1>2, <1>3, <1>4, <1>5, <1>6, <1>7, <1>8, <1>9, <1>10, <1>11, <1>12,
     <1>13 DEF Next, Main

-----------------------------------------------------------------------------
\* bufferLock.

\* Unless a client held bufferLock when it was initialised, the lock tells
\* who is in the buffers.
LockInv ==
    "init" \notin races =>
        /\ server = "in" => lock = "server"
        /\ pc = "logic" => lock = "main"

LEMMA LockStep == LockInv /\ [Next]_vars => LockInv'
<1> SUFFICES ASSUME LockInv, [Next]_vars PROVE LockInv'
  OBVIOUS
<1> USE DEF LockInv
<1>1. CASE UNCHANGED vars
  BY <1>1 DEF vars, buffers
<1>2. CASE CreateServer
  BY <1>2 DEF CreateServer
<1>3. CASE InitBufferLock
  BY <1>3 DEF InitBufferLock
<1>4. CASE \/ InitHardware \/ BeginCycle \/ ReadInputs \/ LeaveLoop
           \/ EthercatFails
  BY <1>4 DEF InitHardware, BeginCycle, ReadInputs, LeaveLoop, EthercatFails,
              buffers
<1>5. CASE LockBuffers \/ RunLogic \/ EndCycle \/ Wake
  BY <1>5 DEF LockBuffers, RunLogic, EndCycle, Wake, buffers
<1>6. CASE Summary \/ LeaveServer \/ DisableOutputs \/ LastOutputs
  BY <1>6 DEF Summary, LeaveServer, DisableOutputs, LastOutputs, buffers
<1>7. CASE ServerEnters \/ ServerLeaves
  BY <1>7 DEF ServerEnters, ServerLeaves
<1>8. CASE ServerToldToStop \/ ServerEnds
  BY <1>8 DEF ServerToldToStop, ServerEnds, buffers
<1>9. CASE TimePasses
  BY <1>9 DEF TimePasses, buffers
<1> QED
  BY <1>1, <1>2, <1>3, <1>4, <1>5, <1>6, <1>7, <1>8, <1>9
     DEF Next, Main, Server

\* main.cpp 305-319 and 406-431: the logic and a client are in the buffers at
\* one time only if the client was there before the lock was initialised.
THEOREM BuffersExclusive == Spec => []Exclusive
<1>1. Init => LockInv
  BY DEF Init, LockInv
<1>2. LockInv => Exclusive
  BY DEF LockInv, Exclusive
<1> QED
  BY <1>1, <1>2, LockStep, PTL DEF Spec

-----------------------------------------------------------------------------
\* The outputs.

\* Between disableOutputs and the last update only a client turns one on.
OffInv ==
    "outputs" \notin races =>
        /\ pc = "write" => image \cap Disabled = {}
        /\ pc = "exit(0)" => hw \cap Disabled = {}

LEMMA OffStep == OffInv /\ [Next]_vars => OffInv'
<1> SUFFICES ASSUME OffInv, [Next]_vars PROVE OffInv'
  OBVIOUS
<1> USE DEF OffInv
<1>1. CASE UNCHANGED vars
  BY <1>1 DEF vars, buffers
<1>2. CASE CreateServer \/ InitBufferLock \/ InitHardware
  BY <1>2 DEF CreateServer, InitBufferLock, InitHardware
<1>3. CASE BeginCycle \/ ReadInputs \/ LeaveLoop \/ EthercatFails \/ LockBuffers
  BY <1>3 DEF BeginCycle, ReadInputs, LeaveLoop, EthercatFails, LockBuffers
<1>4. CASE RunLogic \/ EndCycle \/ Wake
  BY <1>4 DEF RunLogic, EndCycle, Wake
<1>5. CASE Summary \/ LeaveServer
  BY <1>5 DEF Summary, LeaveServer
<1>6. CASE DisableOutputs \/ LastOutputs
  BY <1>6 DEF DisableOutputs, LastOutputs
<1>7. CASE ServerEnters \/ ServerLeaves
  BY <1>7 DEF ServerEnters, ServerLeaves, Gone
<1>8. CASE ServerToldToStop \/ ServerEnds
  BY <1>8 DEF ServerToldToStop, ServerEnds, buffers
<1>9. CASE TimePasses
  BY <1>9 DEF TimePasses, buffers
<1> QED
  BY <1>1, <1>2, <1>3, <1>4, <1>5, <1>6, <1>7, <1>8, <1>9
     DEF Next, Main, Server

\* main.cpp 189-211 and 538-540: the hardware's bool, byte and int outputs are
\* off after a shutdown, unless a client writes one after disableOutputs.
THEOREM OutputsLeftOff == Spec => []OutputsOff
<1>1. Init => OffInv
  BY DEF Init, OffInv
<1>2. OffInv => OutputsOff
  BY DEF OffInv, OutputsOff
<1> QED
  BY <1>1, <1>2, OffStep, PTL DEF Spec

-----------------------------------------------------------------------------
\* The types.

\* A time that is not negative has seconds that are not.
LEMMA SecondsNat ==
    ASSUME NEW s \in Int, NEW n \in Nat, NEW r \in 0 .. n - 1, s * n + r >= 0
    PROVE  s >= 0
<1> SUFFICES ASSUME s <= -1 PROVE FALSE
  OBVIOUS
<1>1. PICK k \in Nat : s = (-1) - k
  <2>1. (-1) - s \in Nat /\ s = (-1) - ((-1) - s)
    OBVIOUS
  <2> QED
    BY <2>1
<1>2. k * n \in Nat /\ n \in Int /\ k \in Int
  BY ProductNat
<1>3. s + (k + 1) = 0
  BY <1>1
<1>4. (s + (k + 1)) * n = s * n + (k + 1) * n /\ s * n \in Int /\ (k + 1) * n \in Int
  BY <1>2, Product
<1>5. (k + 1) * n = k * n + 1 * n
  BY <1>2, Product
<1>6. 0 * n = 0 /\ 1 * n = n
  BY <1>2
<1> QED
  BY <1>2, <1>3, <1>4, <1>5, <1>6

\* Differences of times in order are normalised times.
LEMMA DiffType ==
    ASSUME NEW a \in Timespecs, NEW b \in Timespecs, Time(b) <= Time(a)
    PROVE  Diff(a, b) \in Timespecs
<1> DEFINE d == Diff(a, b)
           n == NSEC_PER_SEC
<1>1. d \in Span /\ Time(d) >= 0
  BY DiffSpan, DiffTime, TimeType
<1>2. n \in Nat /\ d.tv_sec \in Int /\ d.tv_nsec \in 0 .. n - 1
  BY <1>1, RuntimeAssumption DEF Span
<1>3. d = [tv_sec |-> d.tv_sec, tv_nsec |-> d.tv_nsec]
  BY <1>1 DEF Span
<1>4. d.tv_sec * n + d.tv_nsec >= 0
  BY <1>1 DEF Time
<1> HIDE DEF d
<1>5. d.tv_sec >= 0
  BY <1>2, <1>4, SecondsNat
<1> QED
  BY <1>2, <1>3, <1>5 DEF Timespecs, d

LEMMA RecordedType ==
    ASSUME NEW d \in Timespecs
    PROVE  Recorded(d) \in Nat
<1>1. d.tv_nsec \in Nat /\ NSEC_PER_USEC \in Nat /\ NSEC_PER_USEC > 0
  BY RuntimeAssumption DEF Timespecs
<1> QED
  BY <1>1 DEF Recorded

\* A cycle has not begun later than now, and the record is a sequence.
TypeInv ==
    /\ TypeOK /\ ScheduleInv /\ RecordInv
    /\ timeList \in Seq(Times)
    /\ pc \in {"read", "lock", "logic", "end"} => Time(cycle_start) <= now

LEMMA TypeInit == Init => TypeInv
<1> SUFFICES ASSUME Init PROVE TypeInv
  OBVIOUS
<1>1. Timespec(0) \in Timespecs /\ now \in Nat /\ Cycles \in Int
  BY TimespecTime, RuntimeAssumption DEF Init
<1>2. timeList \in Seq(Times) /\ timeList \in [1 .. Len(timeList) -> Times]
  <2>1. timeList = << >>
    BY DEF Init
  <2>2. timeList \in Seq(Times)
    BY <2>1
  <2> QED
    BY <2>2, LenProperties
<1>3. ScheduleInv /\ RecordInv
  BY ScheduleInit, TrueInit DEF TrueInv
<1> QED
  BY <1>1, <1>2, <1>3 DEF Init, TypeInv, TypeOK

LEMMA WakeType ==
    ASSUME TypeInv, Wake
    PROVE  TypeOK' /\ timeList' \in Seq(Times)
<1> DEFINE late == Diff(Timespec(now), timer_start)
           entry == [cycle_t |-> Recorded(cycle_time),
                     delay_t |-> Recorded(late)]
           m == tick - 1
<1>1. /\ pc = "sleep" /\ pc' = "while" /\ now >= Time(timer_start)
      /\ timeList' = Entered(timeList, tick, entry)
      /\ UNCHANGED << clocks, tick, cycles, buffers, switches >>
  BY DEF Wake, RecordKey
<1>2. /\ now \in Nat /\ timer_start \in Timespecs
      /\ cycle_time \in Timespecs /\ tick \in Nat /\ tick # 0
      /\ DOMAIN timeList = 1 .. m /\ timeList \in [1 .. Len(timeList) -> Times]
  BY <1>1 DEF TypeInv, TypeOK, ScheduleInv, RecordInv, Finished
<1>3. late \in Timespecs
  BY <1>1, <1>2, TimespecTime, DiffType
<1>4. entry \in Times
  BY <1>2, <1>3, RecordedType DEF Times
<1>5. timeList \in [1 .. m -> Times]
  BY <1>2
<1> HIDE DEF entry
<1>6. {tick} \cup (1 .. m) = 1 .. tick /\ tick \notin 1 .. m
  BY <1>2
<1> HIDE DEF m
<1>7. timeList' \in [1 .. tick -> Times]
  BY <1>1, <1>2, <1>4, <1>5, <1>6 DEF Entered
<1>8. timeList' \in Seq(Times)
  BY <1>2, <1>7, SeqDef
<1>9. timeList' \in [1 .. Len(timeList') -> Times]
  BY <1>8, LenProperties
<1> QED
  BY <1>1, <1>2, <1>8, <1>9 DEF TypeInv, TypeOK, clocks, buffers

LEMMA TypeStep == TypeInv /\ [Next]_vars => TypeInv'
<1> SUFFICES ASSUME TypeInv, [Next]_vars
             PROVE  /\ TypeOK' /\ timeList' \in Seq(Times)
                    /\ pc' \in {"read", "lock", "logic", "end"}
                          => Time(cycle_start)' <= now'
  BY ScheduleStep, TrueStep DEF TypeInv, TrueInv
<1> USE DEF TypeInv, TypeOK
<1>1. CASE UNCHANGED vars
  BY <1>1 DEF vars, clocks, record, buffers, Time
<1>2. CASE CreateServer \/ InitBufferLock
  BY <1>2 DEF CreateServer, InitBufferLock, clocks, record, Gone
<1>3. CASE InitHardware
  BY <1>3, TimespecTime DEF InitHardware, record
<1>4. CASE BeginCycle
  <2>1. /\ pc' = "read" /\ cycle_start' = Timespec(now) /\ now' = now
        /\ cycles' = cycles - 1
        /\ UNCHANGED << timer_start, cycle_time, epoch, tick, record, buffers >>
    BY <1>4 DEF BeginCycle
  <2>2. cycle_start' \in Timespecs /\ Time(cycle_start)' = now
    BY <2>1, TimespecTime DEF Time
  <2> QED
    BY <2>1, <2>2 DEF record, buffers
<1>5. CASE LeaveLoop \/ EthercatFails
  BY <1>5 DEF LeaveLoop, EthercatFails, clocks, record, buffers
<1>6. CASE ReadInputs \/ LockBuffers
  BY <1>6 DEF ReadInputs, LockBuffers, clocks, record, buffers, Time
<1>7. CASE RunLogic
  BY <1>7 DEF RunLogic, clocks, record, Time
<1>8. CASE EndCycle
  <2>1. /\ pc = "end" /\ pc' = "sleep" /\ hw' = image
        /\ cycle_time' = Diff(Timespec(now), cycle_start)
        /\ UNCHANGED << now, cycle_start, epoch, tick, cycles, record, lock,
                        server, image, races >>
    BY <1>8 DEF EndCycle
  <2>2. cycle_time' \in Timespecs
    BY <2>1, TimespecTime, DiffType
  <2>3. timer_start' \in Timespecs
    BY <1>8, LaterTime, RuntimeAssumption DEF EndCycle, NextDeadline
  <2> QED
    BY <2>1, <2>2, <2>3 DEF record
<1>9. CASE Wake
  BY <1>9, WakeType DEF Wake
<1>10. CASE Summary \/ LeaveServer
  BY <1>10 DEF Summary, LeaveServer, clocks, record, buffers, Gone
<1>11. CASE DisableOutputs \/ LastOutputs
  BY <1>11 DEF DisableOutputs, LastOutputs, clocks, record, Gone
<1>12. CASE Server
  BY <1>12 DEF Server, ServerEnters, ServerLeaves, ServerToldToStop,
               ServerEnds, clocks, record, buffers, Time
<1>13. CASE TimePasses
  <2>1. /\ now' = now + 1
        /\ UNCHANGED << pc, timer_start, cycle_start, cycle_time, epoch, tick,
                        cycles, record, buffers >>
    BY <1>13 DEF TimePasses
  <2>2. Time(cycle_start) \in Nat /\ Time(cycle_start)' = Time(cycle_start)
    BY <2>1, TimeType DEF Time
  <2> QED
    BY <2>1, <2>2 DEF record, buffers
<1> QED
  BY <1>1, <1>2, <1>3, <1>4, <1>5, <1>6, <1>7, <1>8, <1>9, <1>10, <1>11,
     <1>12, <1>13 DEF Next, Main

\* main.cpp 94-135: every timespec the code computes is normalised.
THEOREM TimesNormalised == Spec => []TypeOK
<1>1. TypeInv => TypeOK
  BY DEF TypeInv
<1> QED
  BY <1>1, TypeInit, TypeStep, PTL DEF Spec

-----------------------------------------------------------------------------
\* The record, once more: its times are not negative, so that one shorter than
\* a second is not cut.

TimesInv ==
    /\ TypeInv
    /\ \A n \in DOMAIN truth :
          truth[n].cycle_t \in Nat /\ truth[n].delay_t \in Nat

LEMMA CutOfShort ==
    ASSUME NEW time \in Nat
    PROVE  RecordedTruly(Cut(time), time)
<1> SUFFICES ASSUME time < NSEC_PER_SEC PROVE time % NSEC_PER_SEC = time
  BY DEF RecordedTruly, Cut
<1>1. time = 0 * NSEC_PER_SEC + time /\ time \in 0 .. NSEC_PER_SEC - 1
  BY RuntimeAssumption
<1> QED
  BY <1>1, Remainder

LEMMA TimesStep == TimesInv /\ [Next]_vars => TimesInv'
<1> SUFFICES ASSUME TimesInv, [Next]_vars
             PROVE  \A n \in DOMAIN truth' :
                       truth'[n].cycle_t \in Nat /\ truth'[n].delay_t \in Nat
  BY TypeStep DEF TimesInv
<1>1. CASE UNCHANGED truth
  BY <1>1 DEF TimesInv
<1>2. CASE Wake
  <2> DEFINE fact == [cycle_t |-> Time(cycle_time),
                      delay_t |-> now - Time(timer_start)]
  <2>1. /\ now >= Time(timer_start) /\ now \in Nat
        /\ timer_start \in Timespecs /\ cycle_time \in Timespecs
        /\ truth' = Entered(truth, tick, fact)
    BY <1>2 DEF Wake, TimesInv, TypeInv, TypeOK
  <2>2. Time(cycle_time) \in Nat /\ Time(timer_start) \in Nat
    BY <2>1, TimeType
  <2>3. fact.cycle_t \in Nat /\ fact.delay_t \in Nat
    BY <2>1, <2>2
  <2> HIDE DEF fact
  <2>4. \A n \in DOMAIN truth' :
           \/ truth'[n] = fact
           \/ n \in DOMAIN truth /\ truth'[n] = truth[n]
    BY <2>1 DEF Entered
  <2> QED
    BY <2>3, <2>4 DEF TimesInv
<1>3. CASE UNCHANGED vars \/ TimePasses \/ Server
  BY <1>1, <1>3 DEF vars, record, TimePasses, Server, ServerEnters,
                    ServerLeaves, ServerToldToStop, ServerEnds
<1>4. CASE CreateServer \/ InitBufferLock \/ InitHardware
  BY <1>1, <1>4 DEF CreateServer, InitBufferLock, InitHardware, record
<1>5. CASE \/ BeginCycle \/ LeaveLoop \/ ReadInputs \/ LockBuffers
           \/ EthercatFails \/ RunLogic \/ EndCycle
  BY <1>1, <1>5 DEF BeginCycle, LeaveLoop, ReadInputs, LockBuffers,
                    EthercatFails, RunLogic, EndCycle, record
<1>6. CASE Summary \/ LeaveServer \/ DisableOutputs \/ LastOutputs
  BY <1>1, <1>6 DEF Summary, LeaveServer, DisableOutputs, LastOutputs, record
<1> QED
  BY <1>2, <1>3, <1>4, <1>5, <1>6 DEF Next, Main

\* main.cpp 440, 469-516: every finished cycle has its entry, with its times
\* in microseconds where they are shorter than a second, and a file of this
\* run is the whole record.
THEOREM RecordKept == Spec => []RecordTrue
<1>1. Init => TimesInv
  <2> SUFFICES ASSUME Init PROVE DOMAIN truth = {}
    BY TypeInit DEF TimesInv
  <2> QED
    BY DEF Init
<1>2. TimesInv => RecordTrue
  <2> SUFFICES ASSUME TimesInv PROVE RecordTrue
    OBVIOUS
  <2>1. Finished = tick - (IF pc \in {"end", "sleep"} THEN 1 ELSE 0)
    BY DEF Finished, TimesInv, TypeInv, ScheduleInv
  <2>2. ASSUME NEW n \in DOMAIN timeList
        PROVE  /\ RecordedTruly(timeList[n].cycle_t, truth[n].cycle_t)
               /\ RecordedTruly(timeList[n].delay_t, truth[n].delay_t)
    <3>1. /\ timeList[n] = [cycle_t |-> Cut(truth[n].cycle_t),
                            delay_t |-> Cut(truth[n].delay_t)]
          /\ truth[n].cycle_t \in Nat /\ truth[n].delay_t \in Nat
      BY <2>2 DEF TimesInv, TypeInv, RecordInv
    <3> QED
      BY <3>1, CutOfShort
  <2> QED
    BY <2>1, <2>2 DEF TimesInv, TypeInv, RecordInv, RecordTrue
<1> QED
  BY <1>1, <1>2, TimesStep, PTL DEF Spec

=============================================================================
