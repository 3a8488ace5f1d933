-------------------------- MODULE GranularitySearch --------------------------
(***************************************************************************)
(* The search for the functions to protect: pWCET.py reads the measured    *)
(* times and writes the next list of functions, stat_prior instruments     *)
(* that list, the runtime measures again, and the loop of                  *)
(* compile_program.sh goes on until pWCET.py answers anything but 0.       *)
(*                                                                         *)
(* A function is its place in function_sorted, 1 the highest priority: a   *)
(* list sorted the way the code sorts is an increasing sequence.  The      *)
(* times are microseconds, on a smaller scale.                             *)
(***************************************************************************)
EXTENDS Integers, Sequences, FiniteSets, FiniteSetsExt, SequencesExt

CONSTANTS
    N,          \* number of functions in the JSON files
    Ticktime,   \* common_ticktime__
    InitTime,   \* cycle time without instrumentation: X_init_time.txt
    DelayLimit, \* how much longer than without instrumentation a cycle may wait
    Costs,      \* what protecting a function can add to a cycle
    Noise,      \* how much longer than usual the longest cycle can be
    MaxBuilds   \* bound: runs of the script

ASSUME SearchAssumption ==
    /\ N \in Nat \ {0}
    /\ Ticktime \in Nat /\ InitTime \in Nat /\ DelayLimit \in Nat
    /\ Costs \subseteq Nat /\ Noise \subseteq Nat
    /\ MaxBuilds \in Nat

VARIABLES
    cost,    \* what each function adds to a cycle
    cur,     \* cur_unsorted: the last line of X_funcs.txt
    histIn,  \* histor_line_in: the lists that precede a line tagged 'in'
    built,   \* the functions instrumented in Config0.o and Res0.o
    state,   \* where the script is
    builds   \* runs of the script so far

vars == << cost, cur, histIn, built, state, builds >>

Func == 1..N

\* Every function from place t on: a slice function_sorted[t:].
From(t) == [k \in 1..(N - t + 1) |-> t + k - 1]

function_sorted == From(1)

Protected(list) == Range(list)

\* How many functions of a list come no later than f.
Rank(list, f) == Cardinality({ g \in Protected(list) : g <= f })

Sorted(list) == [k \in 1..Cardinality(Protected(list)) |->
                    CHOOSE f \in Protected(list) : Rank(list, f) = k]

Lowest(list) == Max(Protected(list))

-----------------------------------------------------------------------------
\* getFuncListIndex for 'out': walk back from the end of the list as long as
\* the places go down by one.  The code's temp_j goes below 0 and then counts
\* from the end of function_sorted.
WalkBack(list, p) == ((Last(list) - 1 - (Len(list) - p)) % N) + 1

Mismatches(list) == { p \in DOMAIN list : list[p] # WalkBack(list, p) }

\* Mutant: the position before the mismatch.
KeptShort(list) ==
    IF Mismatches(list) \subseteq {1} THEN 0 ELSE Max(Mismatches(list)) - 1

\* How many functions stand before the run that the walk finds: index + 1, or
\* 0 when index is 0, which the code takes for "no mismatch".
Kept(list) ==
    IF Mismatches(list) \subseteq {1} THEN 0 ELSE Max(Mismatches(list))

\* Mutant: rounded up, a single function stays.
HalfUp(list) == (Len(list) - Kept(list) + 1) \div 2

\* int(len / 2) of the functions behind the kept ones
Half(list) == (Len(list) - Kept(list)) \div 2

\* Too late: the first half of the run stays.  The run is taken from
\* cur_unsorted when nothing is kept and from cur_sorted otherwise.
Halved(list) ==
    LET k   == Kept(list)
        run == IF k = 0 THEN list ELSE Sorted(list)
    IN  SubSeq(list, 1, k) \o SubSeq(run, k + 1, k + Half(list))

\* Mutant: the function that was too late again.
SkipNone(list) ==
    LET k == Kept(list) IN SubSeq(list, 1, k) \o From(list[k + 1])

\* Too late with one function behind the kept ones: the functions after it.
SkipFirst(list) ==
    LET k == Kept(list) IN SubSeq(list, 1, k) \o From(list[k + 1] + 1)

\* Mutant: the last function of the list twice.
ExtendedOverlap(list) ==
    LET s == Sorted(list)
    IN  IF Lowest(list) = 1 THEN From(3)
        ELSE Tail(s) \o << Head(s) >> \o From(Lowest(list))

\* Mutant: the first function is dropped and not moved.
ExtendedTail(list) ==
    IF Lowest(list) = 1 THEN From(3)
    ELSE Tail(Sorted(list)) \o From(Lowest(list) + 1)

\* Time left: every function after the last one of the list, behind the ones
\* in it, whose first moves to their end.  A list of the first function alone
\* gives way to the third and all after it.
Extended(list) ==
    LET s == Sorted(list)
    IN  IF Lowest(list) = 1 THEN From(3)
        ELSE Tail(s) \o << Head(s) >> \o From(Lowest(list) + 1)

-----------------------------------------------------------------------------
Protection == MapThenSumSet(LAMBDA f : cost[f], built)

\* cycle_result is what a cycle usually takes, the longest cycle some noise
\* more; a cycle that overruns delays the start of the next by as much.
Longest(noise) == InitTime + Protection + noise

ExtraTime(noise) == Longest(noise) - Ticktime

DelayTime(noise) == Max({0, ExtraTime(noise)})

Abs(x) == Max({x, -x})

Late(noise) == DelayTime(noise) > DelayLimit

Fits(noise) == ~ Late(noise) /\ 10 * Abs(ExtraTime(noise)) < Ticktime

\* Time left, says the code, but an overrun of a tenth of the tick or more is
\* in here as long as the next cycle does not wait for too long.
Slack(noise) == ~ Late(noise) /\ 10 * Abs(ExtraTime(noise)) >= Ticktime

\* pWCET.py raises an exception and prints nothing: the list is empty and its
\* line has no tuple, or instr_avg is 0 and redun_num is not a number.
Raises == cur = << >> \/ Protection = 0

-----------------------------------------------------------------------------
Init == /\ cost \in [Func -> Costs]
        /\ cur = << >>
        /\ histIn = {}
        /\ built = {}
        /\ state = "idle"
        /\ builds = 0

\* The script from its start to the first run with full instrumentation.  It
\* may have been stopped before, anywhere, and the program may have changed;
\* X_funcs.txt is appended to and read from its first line of this tick time.
Start == /\ builds < MaxBuilds
         /\ builds' = builds + 1
         /\ cost' \in [Func -> Costs]
         /\ cur' = function_sorted
         /\ built' = Protected(function_sorted)
         /\ state' = "measured"
         /\ UNCHANGED histIn

\* What pWCET.py does with a measurement: it appends list under a tag and
\* returns 0 to go on or 1 to end.
Write(list, next) ==
    /\ cur' = list
    /\ state' = next
    /\ UNCHANGED << cost, built, builds >>

Measured == state = "measured"

\* The tag is 'Final', whatever the order of the list was before.
AnswerFits ==
    /\ Measured /\ ~ Raises
    /\ \E noise \in Noise : Fits(noise)
    /\ Write(Sorted(cur), "final")
    /\ UNCHANGED histIn

\* Mutant: the list that is written becomes part of histIn.
AnswerInNew(list, next) ==
    /\ Measured /\ ~ Raises
    /\ \E noise \in Noise : Slack(noise)
    /\ Write(list, next)
    /\ histIn' = histIn \cup {Protected(list)}

\* The tag is 'in': the list before this line becomes part of histIn, for the
\* calls that follow.
AnswerIn(list, next) ==
    /\ Measured /\ ~ Raises
    /\ \E noise \in Noise : Slack(noise)
    /\ Write(list, next)
    /\ histIn' = histIn \cup {Protected(cur)}

\* The last function is in the list: nothing comes after it.
InFull == /\ cur # << >> /\ Lowest(cur) = N
          /\ AnswerIn(Sorted(cur), "ended")

InKnown == /\ cur # << >> /\ Lowest(cur) # N
           /\ Protected(Extended(cur)) \in histIn
           /\ AnswerIn(Extended(cur), "ended")

InMore == /\ cur # << >> /\ Lowest(cur) # N
          /\ Protected(Extended(cur)) \notin histIn
          /\ AnswerIn(Extended(cur), "listed")

\* The tag is 'out'.
AnswerOut(list, next) ==
    /\ Measured /\ ~ Raises
    /\ \E noise \in Noise : Late(noise)
    /\ Write(list, next)
    /\ UNCHANGED histIn

OutHalf == /\ Half(cur) > 0
           /\ AnswerOut(Halved(cur), "listed")

OutNext == /\ cur # << >> /\ Half(cur) = 0
           /\ cur[Kept(cur) + 1] # N
           /\ AnswerOut(SkipFirst(cur), "listed")

\* Nothing comes after the function that has to go.
OutLast == /\ cur # << >> /\ Half(cur) = 0
           /\ cur[Kept(cur) + 1] = N
           /\ AnswerOut(SubSeq(cur, 1, Kept(cur)), "ended")

\* [ "" -eq 0 ] is an error to the shell and ends the loop.
Exception == /\ Measured /\ Raises
             /\ state' = "ended"
             /\ UNCHANGED << cost, cur, histIn, built, builds >>

\* The loop's body: stat_prior instruments the functions of the last line and
\* openplc runs for its cycles.
Compile == /\ state = "listed"
           /\ built' = Protected(cur)
           /\ state' = "measured"
           /\ UNCHANGED << cost, cur, histIn, builds >>

InStep == InFull \/ InKnown \/ InMore

OutStep == OutHalf \/ OutNext \/ OutLast

Step == AnswerFits \/ InStep \/ OutStep \/ Exception \/ Compile

Next == Start \/ Step

\* The script goes on until it ends or is stopped.
Spec == Init /\ [][Next]_vars /\ WF_vars(Step)

-----------------------------------------------------------------------------
(* PROPERTIES *)

\* Lists name functions of the JSON files, each once (pWCET.py 512-617).
TypeOK == /\ cost \in [Func -> Costs]
          /\ cur \in Seq(Func) /\ IsInjective(cur)
          /\ histIn \subseteq SUBSET Func
          /\ built \subseteq Func
          /\ state \in {"idle", "measured", "listed", "final", "ended"}
          /\ builds \in 0..MaxBuilds

\* The walk of getFuncListIndex (pWCET.py 223-228) finds what the 'out' branch
\* takes it to find: behind the kept functions is a run of neighbours, and the
\* kept ones are the first of the sorted list, so that line 614 may join one
\* slice of cur_unsorted and one of cur_sorted and neither lose nor repeat a
\* function.  Index 0 never stands for a mismatch at the first function.
WalkFindsRun ==
    cur # << >> /\ state \in {"listed", "measured"} =>
        LET k == Kept(cur)
        IN  /\ Mismatches(cur) # {1}
            /\ Protected(SubSeq(cur, 1, k)) = Protected(SubSeq(Sorted(cur), 1, k))
            /\ \A p \in k + 1 .. Len(cur) - 1 : cur[p + 1] = cur[p] + 1

\* The comparison with the history (pWCET.py 550-556) ends a search only
\* through a list of an earlier run of the script: within one run every
\* extended list has the last function, and such a list ends the search itself.
KnownOnlyFromBefore == [][InKnown => builds > 1]_vars

\* Time left never costs a function its protection (pWCET.py 527-548), except
\* where the list is the first function alone.
SlackKeepsAll ==
    [][InStep /\ cur # << 1 >> => Protected(cur) \subseteq Protected(cur')]_vars

\* Too late always makes room (pWCET.py 573-617): no function of the list that
\* stays moves, and the first that goes gives way to lower priorities only.
LateMovesDown ==
    [][OutStep => \E k \in 0..Len(cur) - 1 :
          /\ SubSeq(cur, 1, k) = SubSeq(cur', 1, k)
          /\ \A p \in k + 1 .. Len(cur') : cur'[p] > cur[k + 1]]_vars

\* The loop of compile_program.sh (207-222) ends, unless measurements that
\* are too late and measurements that leave time take turns for ever.
EndsUnlessAlternating ==
    \/ []<>(state \in {"idle", "final", "ended"})
    \/ []<><< InStep >>_vars /\ []<><< OutStep >>_vars

\* What the comment of pWCET.py 578 says of index = 0 in the 'out' branch:
\* "#means never 'in'".
IndexZeroMeansNeverIn ==
    [][OutStep /\ Kept(cur) = 0 => histIn = {}]_vars

=============================================================================
