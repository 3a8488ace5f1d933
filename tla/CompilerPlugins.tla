--------------------------- MODULE CompilerPlugins ---------------------------
(***************************************************************************)
(* The two compiler plugins around the search for one file of the PLC      *)
(* program: stat_func.cc counts its calls and writes the first list of     *)
(* functions, pWCET.py appends further lists, and stat_prior.cc reads the  *)
(* last of them to decide which functions the secure monitor protects.     *)
(*                                                                         *)
(* The text of a list is a sequence of symbols, a name being one of them.  *)
(* The files can be opened, and X_new.json is there when X.json is.        *)
(***************************************************************************)
EXTENDS Integers, FiniteSets, FiniteSetsExt, SequencesExt

CONSTANTS
    Func,       \* names of the functions in the file
    Overloaded, \* names that two functions have
    Filtered,   \* main and the others that stat_prior returns early for
    Leaf,       \* functions without calls
    Calls,      \* the calls: which function's, of what name, and a number
    Inlinable,  \* names whose functions the compiler may leave without code
    MaxLists    \* bound: lists written by pWCET.py

ASSUME PluginAssumption ==
    /\ IsFiniteSet(Func) /\ {" ", "\n"} \cap Func = {}
    /\ Overloaded \subseteq Func /\ Filtered \subseteq Func
    /\ Leaf \subseteq Func /\ Inlinable \subseteq Func
    /\ IsFiniteSet(Calls) /\ Calls \subseteq (Func \X {1, 2}) \X Func \X Nat
    /\ \A c \in Calls : c[1][1] \notin Leaf
    /\ MaxLists \in Nat

VARIABLES
    stage,      \* what the script has come to
    toVisit,    \* functions that func_inst_pass has not been called for
    gone,       \* functions that never get to it
    myfuncList, \* the count of each name
    hasExecuted,
    json,       \* X.json: from this compilation? and the counts in it
    funcs,      \* X_funcs.txt
    lists,      \* lists appended so far
    listed,     \* history: the names of the last list written
    instrumented, \* does the object file have the inserted code?
    functionNames \* the list it was compiled with

pluginVars == << stage, toVisit, gone, myfuncList, hasExecuted, json, funcs,
                 lists, listed, instrumented, functionNames >>

\* The functions of the file, and the name a function goes by: the maps and
\* lists of both plugins are kept by unmangled name.
Decl == (Func \X {1}) \cup (Overloaded \X {2})
NameOf(d) == d[1]

\* The calls of f in the functions D.
CallsIn(D, f) == {c \in Calls : c[1] \in D /\ c[2] = f}

\* A list as stat_func writes it, a blank behind every name; pWCET.py leaves
\* the last blank out.
Line(names) ==
    LET end == 2 * Cardinality(names) + 1
    IN  [i \in 1..end |-> IF i = end THEN "\n" ELSE
                          IF i % 2 = 0 THEN " " ELSE SetToSeq(names)[(i + 1) \div 2]]
Joined(names) ==
    LET text == Line(names)
    IN  IF names = {} THEN text
        ELSE SubSeq(text, 1, Len(text) - 2) \o << "\n" >>

NoJson == [ours |-> FALSE, count |-> << >>]
Old(names) == [ours |-> FALSE, count |-> [f \in names |-> 1]]

\* Nothing is left of an earlier compilation, or the files of one.
PluginInit == /\ stage = "names"
              /\ toVisit = {} /\ gone = {}
              /\ myfuncList = << >> /\ hasExecuted = 0
              /\ \/ json = NoJson /\ funcs = << >> /\ listed = {}
                 \/ json = Old(Func) /\ funcs = Line(Func) /\ listed = Func
              /\ lists = 0
              /\ instrumented = FALSE /\ functionNames = {}

-----------------------------------------------------------------------------
\* stat_func.cc

\* func_name_inst_pass, which is through with every function of the file
\* before the first of them gets to func_inst_pass.  Between the two passes
\* the compiler drops functions it has inlined.
ReadNames ==
    /\ stage = "names"
    /\ \E out \in SUBSET {d \in Decl : NameOf(d) \in Inlinable} :
          /\ gone' = out
          /\ toVisit' = Decl \ out
    /\ myfuncList' = [f \in {NameOf(d) : d \in Decl} |-> 1]
    /\ hasExecuted' = Cardinality(DOMAIN myfuncList')
    /\ stage' = "count"
    /\ UNCHANGED << json, funcs, lists, listed, instrumented, functionNames >>

Counted(d) == [f \in DOMAIN myfuncList |->
                  myfuncList[f] + Cardinality(CallsIn({d}, f))]

\* Mutant: the files are written once, when the countdown ends.
LastVisitOnce == hasExecuted <= 1 /\ ~ json.ours

\* hasExecuted starts as the number of names and stays at 1: the files are
\* written, anew each time, from that many functions on.
LastVisit == hasExecuted <= 1

CountCalls(d) ==
    /\ stage = "count" /\ d \in toVisit
    /\ toVisit' = toVisit \ {d}
    /\ myfuncList' = Counted(d)
    /\ IF LastVisit
       THEN /\ json' = [ours |-> TRUE, count |-> myfuncList']
            /\ funcs' = Line(DOMAIN myfuncList)
            /\ listed' = DOMAIN myfuncList
            /\ UNCHANGED hasExecuted
       ELSE /\ hasExecuted' = hasExecuted - 1
            /\ UNCHANGED << json, funcs, listed >>
    /\ UNCHANGED << stage, gone, lists, instrumented, functionNames >>

EndOfCount == /\ stage = "count" /\ toVisit = {}
              /\ stage' = "listed"
              /\ UNCHANGED << toVisit, gone, myfuncList, hasExecuted, json,
                              funcs, lists, listed, instrumented,
                              functionNames >>

-----------------------------------------------------------------------------
\* pWCET.py, which fails without the files, appends another list.
WriteList == /\ stage \in {"listed", "built"} /\ json # NoJson
             /\ lists < MaxLists
             /\ lists' = lists + 1
             /\ \E names \in SUBSET Func :
                   funcs' = funcs \o Joined(names) /\ listed' = names
             /\ stage' = "listed"
             /\ UNCHANGED << toVisit, gone, myfuncList, hasExecuted, json,
                             instrumented, functionNames >>

-----------------------------------------------------------------------------
\* stat_prior.cc

\* Mutant: the search starts at the newline that ends the file.
LineStartAtEnd(text) ==
    LET newlines == {i \in 2..Len(text) : text[i] = "\n"}
    IN  IF newlines = {} THEN 1 ELSE 1 + Max(newlines)

\* getLastLine steps back from the last symbol but one to a newline, or to
\* the first symbol, whatever that is.
LineStart(text) ==
    LET newlines == {i \in 2..Len(text) - 1 : text[i] = "\n"}
    IN  IF newlines = {} THEN 1 ELSE 1 + Max(newlines)

LastLine(text) == SubSeq(text, LineStart(text), Len(text))

\* plugin_init.  Without X_new.json it fails and with it the compilation,
\* which nobody checks: the object file stays as it is.
CompileWithList ==
    /\ stage \in {"listed", "built"}
    /\ stage' = "built"
    /\ IF json = NoJson
       THEN UNCHANGED << instrumented, functionNames >>
       ELSE /\ instrumented' = TRUE
            /\ functionNames' = ToSet(LastLine(funcs)) \ {" ", "\n"}
    /\ UNCHANGED << toVisit, gone, myfuncList, hasExecuted, json, funcs,
                    lists, listed >>

\* The last link takes the object file as it is, compiled with the last list
\* or not.  What only the compilation used is forgotten.
Link == /\ stage \in {"listed", "built"}
        /\ stage' = "run"
        /\ toVisit' = {} /\ gone' = {}
        /\ myfuncList' = << >> /\ hasExecuted' = 0
        /\ json' = NoJson /\ funcs' = << >>
        /\ lists' = 0 /\ listed' = {}
        /\ UNCHANGED << instrumented, functionNames >>

PluginNext == \/ ReadNames
              \/ \E d \in Decl : CountCalls(d)
              \/ EndOfCount
              \/ WriteList
              \/ CompileWithList
              \/ Link

-----------------------------------------------------------------------------
(* PROPERTIES *)

\* A file of counts that is this compilation's has, over the 1 that every name
\* starts with, the number of calls of each name in all the functions that
\* were compiled, although the plugin is never told which one is the last;
\* and there is one unless the compiler drops more functions than names have
\* a second one.
CountsOfAll ==
    LET compiled == Decl \ gone
    IN  stage \in {"listed", "built"} =>
            /\ Cardinality(compiled) >= Cardinality(Func) => json.ours
            /\ json.ours => \A f \in Func :
                  json.count[f] - 1 = Cardinality(CallsIn(compiled, f))

\* An object file compiled with a list has the code for the list written
\* last (stat_prior.cc 540-566, 617-625), whether the counting pass or
\* pWCET.py wrote it, and for an empty one too; or it is not instrumented.
ListedIsBuilt ==
    stage = "built" /\ instrumented => functionNames = listed

=============================================================================
