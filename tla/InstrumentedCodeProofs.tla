----------------------- MODULE InstrumentedCodeProofs -----------------------
(***************************************************************************)
(* Theorems about CompilerPlugins and InstrumentedCode, for any finite set *)
(* of functions, any call depth and any addresses: what the counting pass  *)
(* counts, what the instrumenting pass reads, and what the instructions it *)
(* inserts do.                                                             *)
(***************************************************************************)
EXTENDS InstrumentedCode, SequenceTheorems, FiniteSetTheorems, TLAPS

Compiled == Decl \ gone
Visited == Compiled \ toVisit

-----------------------------------------------------------------------------
(* The counting pass.                                                      *)

LEMMA DeclFinite ==
    /\ IsFiniteSet(Decl) /\ IsFiniteSet(Func)
    /\ Cardinality(Func) \in Nat /\ Cardinality(Func) >= 1
    /\ {NameOf(d) : d \in Decl} = Func
<1>1. IsFiniteSet(Func) /\ Overloaded \subseteq Func /\ Root \in Func
  BY PluginAssumption, CodeAssumption
<1>2. ASSUME NEW S \in SUBSET Func, NEW k PROVE IsFiniteSet(S \X {k})
  <2> DEFINE f == [p \in S \X {k} |-> p[1]]
  <2>1. f \in Injection(S \X {k}, S)
    BY DEF Injection, IsInjective
  <2> HIDE DEF f
  <2>2. IsFiniteSet(S)
    BY <1>1, FS_Subset
  <2> QED
    BY <2>1, <2>2, FS_Injection
<1>3. IsFiniteSet(Decl)
  BY <1>1, <1>2, FS_Union DEF Decl
<1>4. Cardinality(Func) \in Nat /\ Cardinality(Func) >= 1
  <2>1. Cardinality(Func) \in Nat
    BY <1>1, FS_CardinalityType
  <2>2. Cardinality(Func) # 0
    BY <1>1, FS_EmptySet
  <2> QED
    BY <2>1, <2>2
<1>5. {NameOf(d) : d \in Decl} = Func
  <2>1. \A d \in Decl : NameOf(d) \in Func
    BY <1>1 DEF Decl, NameOf
  <2>2. ASSUME NEW f \in Func PROVE \E d \in Decl : NameOf(d) = f
    <3>1. << f, 1 >> \in Decl
      BY DEF Decl
    <3>2. NameOf(<< f, 1 >>) = f
      BY DEF NameOf
    <3> QED
      BY <3>1, <3>2
  <2> QED
    BY <2>1, <2>2
<1> QED
  BY <1>1, <1>3, <1>4, <1>5

\* While it counts, the countdown knows how many functions it has seen, and
\* the file it writes once that reaches the number of names has their counts.
CountInv ==
    /\ stage = "names" => json.ours = FALSE
    /\ stage = "count" =>
          /\ toVisit \subseteq Compiled
          /\ myfuncList = [f \in Func |-> 1 + Cardinality(CallsIn(Visited, f))]
          /\ hasExecuted = IF Cardinality(Visited) < Cardinality(Func)
                           THEN Cardinality(Func) - Cardinality(Visited) ELSE 1
          /\ json.ours <=> Cardinality(Visited) >= Cardinality(Func)
          /\ json.ours => json.count = myfuncList
    /\ CountsOfAll

LEMMA CountInit == PluginInit => CountInv
BY DEF PluginInit, CountInv, CountsOfAll, NoJson, Old

LEMMA DisjointSizes ==
    ASSUME NEW A, NEW B, NEW C, IsFiniteSet(A), IsFiniteSet(B),
           C = A \cup B, A \cap B = {}
    PROVE  Cardinality(C) = Cardinality(A) + Cardinality(B)
<1>1. Cardinality(A) \in Nat /\ Cardinality(B) \in Nat /\ Cardinality({}) = 0
  BY FS_CardinalityType, FS_EmptySet
<1>2. Cardinality(C) = Cardinality(A) + Cardinality(B) - Cardinality({})
  BY FS_Union
<1> QED
  BY <1>1, <1>2

\* One more function seen.
LEMMA OneMoreVisited ==
    ASSUME NEW d \in toVisit, toVisit \subseteq Compiled,
           toVisit' = toVisit \ {d}, UNCHANGED gone
    PROVE  /\ Cardinality(Visited) \in Nat
           /\ Cardinality(Visited') = Cardinality(Visited) + 1
           /\ \A f \in Func : Cardinality(CallsIn(Visited', f))
                 = Cardinality(CallsIn(Visited, f)) + Cardinality(CallsIn({d}, f))
           /\ \A f \in Func : /\ Cardinality(CallsIn(Visited, f)) \in Nat
                              /\ Cardinality(CallsIn({d}, f)) \in Nat
<1>1. Visited' = Visited \cup {d} /\ d \notin Visited
  BY DEF Visited, Compiled
<1>2. IsFiniteSet(Visited)
  BY DeclFinite, FS_Subset DEF Visited, Compiled
<1>3. Cardinality(Visited) \in Nat /\ Cardinality(Visited') = Cardinality(Visited) + 1
  BY <1>1, <1>2, FS_AddElement, FS_CardinalityType
<1>4. ASSUME NEW f \in Func
      PROVE  /\ Cardinality(CallsIn(Visited', f))
                    = Cardinality(CallsIn(Visited, f)) + Cardinality(CallsIn({d}, f))
             /\ Cardinality(CallsIn(Visited, f)) \in Nat
             /\ Cardinality(CallsIn({d}, f)) \in Nat
  <2>1. IsFiniteSet(CallsIn(Visited, f)) /\ IsFiniteSet(CallsIn({d}, f))
    BY PluginAssumption, FS_Subset DEF CallsIn
  <2>2. /\ CallsIn(Visited', f) = CallsIn(Visited, f) \cup CallsIn({d}, f)
        /\ CallsIn(Visited, f) \cap CallsIn({d}, f) = {}
    BY <1>1 DEF CallsIn
  <2>3. Cardinality(CallsIn(Visited, f)) \in Nat /\ Cardinality(CallsIn({d}, f)) \in Nat
    BY <2>1, FS_CardinalityType
  <2>4. Cardinality(CallsIn(Visited', f))
           = Cardinality(CallsIn(Visited, f)) + Cardinality(CallsIn({d}, f))
    BY <2>1, <2>2, DisjointSizes
  <2> QED
    BY <2>3, <2>4
<1> QED
  BY <1>3, <1>4

LEMMA CountVisit ==
    ASSUME CountInv, NEW d \in Decl, CountCalls(d)
    PROVE  CountInv'
<1>1. /\ stage = "count" /\ stage' = "count" /\ gone' = gone
      /\ d \in toVisit /\ toVisit' = toVisit \ {d} /\ myfuncList' = Counted(d)
  BY DEF CountCalls
<1>2. /\ toVisit \subseteq Compiled
      /\ myfuncList = [f \in Func |-> 1 + Cardinality(CallsIn(Visited, f))]
      /\ hasExecuted = IF Cardinality(Visited) < Cardinality(Func)
                       THEN Cardinality(Func) - Cardinality(Visited) ELSE 1
      /\ json.ours <=> Cardinality(Visited) >= Cardinality(Func)
  BY <1>1 DEF CountInv
<1>3. /\ Cardinality(Visited) \in Nat
      /\ Cardinality(Visited') = Cardinality(Visited) + 1
      /\ \A f \in Func : Cardinality(CallsIn(Visited', f))
            = Cardinality(CallsIn(Visited, f)) + Cardinality(CallsIn({d}, f))
      /\ \A f \in Func : /\ Cardinality(CallsIn(Visited, f)) \in Nat
                         /\ Cardinality(CallsIn({d}, f)) \in Nat
  BY <1>1, <1>2, OneMoreVisited
<1>4. toVisit' \subseteq Compiled'
  BY <1>1, <1>2 DEF Compiled
<1>5. myfuncList' = [f \in Func |-> 1 + Cardinality(CallsIn(Visited', f))]
  <2>1. Counted(d) = [f \in Func |-> myfuncList[f] + Cardinality(CallsIn({d}, f))]
    BY <1>2 DEF Counted
  <2>2. \A f \in Func : myfuncList[f] + Cardinality(CallsIn({d}, f))
                           = 1 + Cardinality(CallsIn(Visited', f))
    BY <1>2, <1>3
  <2> QED
    BY <1>1, <2>1, <2>2
<1>6. Cardinality(Func) \in Nat /\ Cardinality(Func) >= 1
  BY DeclFinite
<1>7. /\ hasExecuted' = IF Cardinality(Visited') < Cardinality(Func)
                        THEN Cardinality(Func) - Cardinality(Visited') ELSE 1
      /\ json'.ours <=> Cardinality(Visited') >= Cardinality(Func)
      /\ json'.ours => json'.count = myfuncList'
  <2>1. CASE LastVisit
    <3>1. json' = [ours |-> TRUE, count |-> myfuncList'] /\ hasExecuted' = hasExecuted
      BY <2>1 DEF CountCalls
    <3>2. json'.ours = TRUE /\ json'.count = myfuncList'
      BY <3>1
    <3>3. hasExecuted =< 1
      BY <2>1 DEF LastVisit
    <3> QED
      BY <1>2, <1>3, <1>6, <3>1, <3>2, <3>3
  <2>2. CASE ~ LastVisit
    <3>1. json' = json /\ hasExecuted' = hasExecuted - 1
      BY <2>2 DEF CountCalls
    <3>2. ~ (hasExecuted =< 1)
      BY <2>2 DEF LastVisit
    <3> QED
      BY <1>2, <1>3, <1>6, <3>1, <3>2
  <2> QED
    BY <2>1, <2>2
<1>8. CountsOfAll'
  BY <1>1 DEF CountsOfAll
<1> QED
  BY <1>1, <1>4, <1>5, <1>7, <1>8 DEF CountInv, CallsIn

LEMMA CountStep ==
    ASSUME CountInv, PluginNext
    PROVE  CountInv'
<1>1. CASE ReadNames
  <2>1. PICK out \in SUBSET {d \in Decl : NameOf(d) \in Inlinable} :
           gone' = out /\ toVisit' = Decl \ out
    BY <1>1 DEF ReadNames
  <2>2. /\ stage = "names" /\ stage' = "count" /\ json' = json
        /\ myfuncList' = [f \in Func |-> 1]
        /\ hasExecuted' = Cardinality(Func)
    BY <1>1, DeclFinite DEF ReadNames
  <2>3. Visited' = {} /\ toVisit' \subseteq Compiled'
    BY <2>1 DEF Visited, Compiled
  <2>4. \A f \in Func : CallsIn(Visited, f)' = {}
    BY <2>3 DEF CallsIn
  <2>5. Cardinality({}) = 0 /\ Cardinality(Func) \in Nat /\ Cardinality(Func) >= 1
    BY DeclFinite, FS_EmptySet
  <2>6. json'.ours = FALSE
    BY <2>2 DEF CountInv
  <2>7. myfuncList' = [f \in Func |-> 1 + Cardinality(CallsIn(Visited, f)')]
    BY <2>2, <2>4, <2>5
  <2> QED
    BY <2>2, <2>3, <2>5, <2>6, <2>7 DEF CountInv, CountsOfAll
<1>2. ASSUME NEW d \in Decl, CountCalls(d) PROVE CountInv'
  BY <1>2, CountVisit
<1>3. CASE EndOfCount
  <2>1. /\ stage = "count" /\ stage' = "listed" /\ toVisit = {}
        /\ UNCHANGED << gone, json >>
    BY <1>3 DEF EndOfCount
  <2>2. Visited = Compiled
    BY <2>1 DEF Visited
  <2>3. /\ json.ours <=> Cardinality(Compiled) >= Cardinality(Func)
        /\ json.ours => json.count = [f \in Func |-> 1 + Cardinality(CallsIn(Compiled, f))]
    BY <2>1, <2>2 DEF CountInv
  <2>4. ASSUME json.ours, NEW f \in Func
        PROVE  json.count[f] - 1 = Cardinality(CallsIn(Compiled, f))
    <3>1. Cardinality(CallsIn(Compiled, f)) \in Nat
      BY PluginAssumption, FS_Subset, FS_CardinalityType DEF CallsIn
    <3>2. json.count[f] = 1 + Cardinality(CallsIn(Compiled, f))
      BY <2>3, <2>4
    <3> QED
      BY <3>1, <3>2
  <2> QED
    BY <2>1, <2>3, <2>4 DEF CountInv, CountsOfAll, Compiled, CallsIn
<1>4. CASE WriteList
  BY <1>4 DEF WriteList, CountInv, CountsOfAll
<1>5. CASE CompileWithList
  BY <1>5 DEF CompileWithList, CountInv, CountsOfAll
<1>6. CASE Link
  BY <1>6 DEF Link, CountInv, CountsOfAll
<1> QED
  BY <1>1, <1>2, <1>3, <1>4, <1>5, <1>6 DEF PluginNext

LEMMA CountKept == CountInv /\ [Next]_vars => CountInv'
<1> SUFFICES ASSUME CountInv, [Next]_vars PROVE CountInv'
  OBVIOUS
<1>1. CASE PluginNext
  BY <1>1, CountStep
<1>2. CASE UNCHANGED pluginVars
  BY <1>2 DEF pluginVars, CountInv, CountsOfAll, Visited, Compiled, CallsIn
<1> QED
  BY <1>1, <1>2 DEF Next, Build, Run, vars

\* stat_func.cc 195-351: a file of counts of this compilation has every call
\* in the functions that were compiled, and one is written when at least as
\* many of them are compiled as there are names.
THEOREM EveryCallCounted == Spec => []CountsOfAll
<1>1. Init => CountInv
  BY CountInit DEF Init
<1>2. CountInv => CountsOfAll
  BY DEF CountInv
<1> QED
  BY <1>1, <1>2, CountKept, PTL DEF Spec

-----------------------------------------------------------------------------
(* The lists of functions.                                                 *)

\* The two symbols between names, for the provers without their text.
Blank == " "
Newline == "\n"
Separator == {Blank, Newline}
Symbol == Func \cup Separator
NamesIn(text) == ToSet(text) \ Separator

\* One line, with these names in it.
IsLine(text, names) ==
    /\ text \in Seq(Symbol) /\ Len(text) >= 1 /\ text[Len(text)] = Newline
    /\ \A i \in 1..Len(text) - 1 : text[i] # Newline
    /\ NamesIn(text) = names

\* The last line of the text is one with these names in it.
Ends(text, names) ==
    /\ text \in Seq(Symbol) /\ Len(text) >= 1 /\ text[Len(text)] = Newline
    /\ \E k \in 0..Len(text) - 1 :
          /\ k = 0 \/ text[k] = Newline
          /\ \A i \in k + 1..Len(text) - 1 : text[i] # Newline
          /\ {text[i] : i \in k + 1..Len(text)} \ Separator = names

\* SetToSeq lists every element.
LEMMA ListedOnce ==
    ASSUME NEW S, IsFiniteSet(S)
    PROVE  /\ Cardinality(S) \in Nat
           /\ SetToSeq(S) \in [1..Cardinality(S) -> S]
           /\ \A x \in S : \E i \in 1..Cardinality(S) : SetToSeq(S)[i] = x
<1>1. Cardinality(S) \in Nat /\ ExistsBijection(1..Cardinality(S), S)
  BY FS_CardinalityType
<1>2. PICK f \in Bijection(1..Cardinality(S), S) : TRUE
  BY <1>1 DEF ExistsBijection
<1>3. f \in [1..Cardinality(S) -> S] /\ IsInjective(f)
  <2>1. f \in Injection(1..Cardinality(S), S)
    BY <1>2 DEF Bijection
  <2>2. f \in [1..Cardinality(S) -> S]
    BY <2>1 DEF Injection
  <2> QED
    BY <2>1, <2>2 DEF Injection, IsInjective
<1>4. SetToSeq(S) \in [1..Cardinality(S) -> S] /\ IsInjective(SetToSeq(S))
  BY <1>3 DEF SetToSeq
<1>5. SetToSeq(S) \in Injection(1..Cardinality(S), S)
  BY <1>4 DEF Injection, IsInjective
<1>6. SetToSeq(S) \in Surjection(1..Cardinality(S), S)
  <2>1. IsFiniteSet(1..Cardinality(S)) /\ Cardinality(1..Cardinality(S)) = Cardinality(S)
    BY <1>1, FS_Interval
  <2> QED
    BY <1>5, <2>1, FS_Injection
<1> QED
  BY <1>1, <1>4, <1>6 DEF Surjection

LEMMA LineIsLine ==
    ASSUME NEW names \in SUBSET Func
    PROVE  /\ IsLine(Line(names), names)
           /\ Len(Line(names)) = 2 * Cardinality(names) + 1
           /\ Cardinality(names) \in Nat
           /\ \A f \in names : \E j \in 1..Cardinality(names) :
                 Line(names)[2 * j - 1] = f
           /\ \A i \in 1..2 * Cardinality(names) : Line(names)[i] \in names \cup {Blank}
<1> DEFINE n == Cardinality(names)
           q == SetToSeq(names)
           text == Line(names)
<1>1. /\ n \in Nat /\ q \in [1..n -> names]
      /\ \A f \in names : \E j \in 1..n : q[j] = f
  <2>1. IsFiniteSet(names)
    BY PluginAssumption, FS_Subset
  <2> QED
    BY <2>1, ListedOnce
<1>2. text = [i \in 1..2 * n + 1 |-> IF i = 2 * n + 1 THEN Newline ELSE
                                     IF i % 2 = 0 THEN Blank ELSE q[(i + 1) \div 2]]
  BY DEF Line, Blank, Newline
<1> HIDE DEF n, q, text
<1>3. DOMAIN text = 1..2 * n + 1 /\ text[2 * n + 1] = Newline
  BY <1>1, <1>2
<1>4. ASSUME NEW i \in 1..2 * n PROVE text[i] \in names \cup {Blank}
  <2>1. i \in 1..2 * n + 1 /\ i # 2 * n + 1
    BY <1>1
  <2>2. text[i] = IF i % 2 = 0 THEN Blank ELSE q[(i + 1) \div 2]
    BY <1>2, <2>1
  <2>3. i % 2 # 0 => (i + 1) \div 2 \in 1..n
    BY <1>1
  <2> QED
    BY <1>1, <2>2, <2>3
<1>5. ASSUME NEW f \in names PROVE \E j \in 1..n : text[2 * j - 1] = f
  <2>1. PICK j \in 1..n : q[j] = f
    BY <1>1
  <2>2. /\ 2 * j - 1 \in 1..2 * n + 1 /\ 2 * j - 1 # 2 * n + 1
        /\ (2 * j - 1) % 2 # 0 /\ ((2 * j - 1) + 1) \div 2 = j
    BY <1>1
  <2>3. text[2 * j - 1] = q[((2 * j - 1) + 1) \div 2]
    BY <1>2, <2>2
  <2> QED
    BY <2>1, <2>2, <2>3
<1>6. names \cap Separator = {} /\ names \subseteq Symbol /\ Blank # Newline
  BY PluginAssumption DEF Separator, Symbol, Blank, Newline
<1>7. text \in Seq(Symbol) /\ Len(text) = 2 * n + 1
  <2>1. \A i \in 1..2 * n + 1 : text[i] \in Symbol
    BY <1>1, <1>3, <1>4, <1>6 DEF Symbol, Separator
  <2>2. text \in [1..2 * n + 1 -> Symbol]
    BY <1>2, <1>3, <2>1
  <2> QED
    BY <1>1, <1>3, <2>2
<1>8. \A i \in 1..Len(text) - 1 : text[i] # Newline
  <2> SUFFICES ASSUME NEW i \in 1..2 * n PROVE text[i] # Newline
    BY <1>1, <1>7
  <2> QED
    BY <1>4, <1>6 DEF Separator
<1>9. NamesIn(text) = names
  <2>1. ASSUME NEW x \in NamesIn(text) PROVE x \in names
    <3>1. PICK i \in 1..2 * n + 1 : x = text[i] /\ x \notin Separator
      BY <1>3, <2>1 DEF NamesIn, ToSet
    <3>2. i # 2 * n + 1
      BY <1>3, <3>1 DEF Separator
    <3>3. i \in 1..2 * n
      BY <1>1, <3>2
    <3> QED
      BY <1>4, <3>1, <3>3 DEF Separator
  <2>2. ASSUME NEW f \in names PROVE f \in NamesIn(text)
    <3>1. PICK j \in 1..n : text[2 * j - 1] = f
      BY <1>5
    <3>2. 2 * j - 1 \in DOMAIN text
      BY <1>1, <1>3
    <3> QED
      BY <1>6, <3>1, <3>2 DEF NamesIn, ToSet
  <2> QED
    BY <2>1, <2>2
<1>10. IsLine(text, names)
  BY <1>1, <1>3, <1>7, <1>8, <1>9 DEF IsLine
<1> QED
  BY <1>1, <1>4, <1>5, <1>7, <1>10 DEF n, text

LEMMA JoinedIsLine ==
    ASSUME NEW names \in SUBSET Func
    PROVE  IsLine(Joined(names), names)
<1>1. CASE names = {}
  BY <1>1, LineIsLine DEF Joined
<1>2. CASE names # {}
  <2> DEFINE n == Cardinality(names)
             text == Line(names)
             joined == Joined(names)
  <2>1. /\ IsLine(text, names) /\ Len(text) = 2 * n + 1 /\ n \in Nat
        /\ \A f \in names : \E j \in 1..n : text[2 * j - 1] = f
        /\ \A i \in 1..2 * n : text[i] \in names \cup {Blank}
    BY LineIsLine
  <2>2. joined = SubSeq(text, 1, Len(text) - 2) \o << Newline >>
    BY <1>2 DEF Joined, Newline
  <2>3. n >= 1
    <3>1. PICK f \in names : TRUE
      BY <1>2
    <3>2. \E j \in 1..n : text[2 * j - 1] = f
      BY <2>1
    <3> QED
      BY <2>1, <3>2
  <2> HIDE DEF n, text, joined
  <2>4. /\ text \in Seq(Symbol) /\ Newline \in Symbol
        /\ \A i \in 1..2 * n : text[i] # Newline
    BY <2>1 DEF IsLine, Symbol, Separator
  <2>5. /\ joined \in Seq(Symbol) /\ Len(joined) = 2 * n
        /\ \A i \in 1..2 * n - 1 : joined[i] = text[i]
        /\ joined[2 * n] = Newline
    <3> DEFINE a == SubSeq(text, 1, Len(text) - 2)
               b == << Newline >>
    <3>1. a \in Seq(Symbol) /\ Len(a) = 2 * n - 1 /\ \A i \in 1..2 * n - 1 : a[i] = text[i]
      BY <2>1, <2>3, <2>4, SubSeqProperties
    <3>2. b \in Seq(Symbol) /\ Len(b) = 1 /\ b[1] = Newline
      BY <2>4
    <3> HIDE DEF a, b
    <3>3. joined = a \o b
      BY <2>2 DEF a, b
    <3>4. joined \in Seq(Symbol) /\ Len(joined) = Len(a) + Len(b)
      BY <3>1, <3>2, <3>3, ConcatProperties
    <3>5. /\ \A i \in 1..Len(a) : joined[i] = a[i]
          /\ joined[Len(a) + 1] = b[1]
      BY <3>1, <3>2, <3>3, ConcatProperties
    <3>6. Len(a) = 2 * n - 1 /\ Len(a) + 1 = 2 * n /\ n \in Nat
      BY <2>1, <3>1
    <3> QED
      BY <3>1, <3>2, <3>4, <3>5, <3>6
  <2>6. \A i \in 1..Len(joined) - 1 : joined[i] # Newline
    BY <2>1, <2>4, <2>5
  <2>7. NamesIn(joined) = names
    <3>1. ASSUME NEW x \in NamesIn(joined) PROVE x \in names
      <4>1. PICK i \in 1..2 * n : x = joined[i] /\ x \notin Separator
        BY <2>1, <2>5, <3>1 DEF NamesIn, ToSet
      <4>2. i # 2 * n
        BY <2>5, <4>1 DEF Separator
      <4>3. i \in 1..2 * n - 1 /\ i \in 1..2 * n
        BY <2>1, <4>2
      <4> QED
        BY <2>1, <2>5, <4>1, <4>3 DEF Separator
    <3>2. ASSUME NEW f \in names PROVE f \in NamesIn(joined)
      <4>1. PICK j \in 1..n : text[2 * j - 1] = f
        BY <2>1
      <4>2. 2 * j - 1 \in DOMAIN joined /\ joined[2 * j - 1] = f
        BY <2>1, <2>5, <4>1
      <4>3. f \notin Separator
        BY PluginAssumption DEF Separator, Blank, Newline
      <4> QED
        BY <4>2, <4>3 DEF NamesIn, ToSet
    <3> QED
      BY <3>1, <3>2
  <2>8. IsLine(joined, names)
    BY <2>1, <2>3, <2>5, <2>6, <2>7 DEF IsLine
  <2> QED
    BY <2>8 DEF joined
<1> QED
  BY <1>1, <1>2

LEMMA LineEnds ==
    ASSUME NEW text, NEW names, IsLine(text, names)
    PROVE  Ends(text, names)
<1>1. {text[i] : i \in 0 + 1..Len(text)} \ Separator = names
  BY DEF IsLine, NamesIn, ToSet
<1> QED
  BY <1>1 DEF Ends, IsLine

LEMMA AppendedEnds ==
    ASSUME NEW text, NEW before, Ends(text, before),
           NEW line, NEW names, IsLine(line, names)
    PROVE  Ends(text \o line, names)
<1> DEFINE k == Len(text)
           n == Len(line)
           all == text \o line
<1>1. /\ text \in Seq(Symbol) /\ k \in Nat /\ k >= 1 /\ text[k] = Newline
      /\ line \in Seq(Symbol) /\ n \in Nat /\ n >= 1 /\ line[n] = Newline
  BY DEF Ends, IsLine
<1>2. /\ all \in Seq(Symbol) /\ Len(all) = k + n /\ all[k] = Newline
      /\ \A i \in 1..n : all[k + i] = line[i]
  BY <1>1
<1> HIDE DEF k, n, all
<1>3. ASSUME NEW i \in k + 1..Len(all) - 1 PROVE all[i] # Newline
  <2>1. i - k \in 1..n - 1 /\ k + (i - k) = i
    BY <1>1, <1>2
  <2>2. i - k \in 1..n
    BY <1>1, <2>1
  <2>3. all[i] = line[i - k]
    BY <1>2, <2>1, <2>2
  <2> QED
    BY <2>1, <2>3 DEF IsLine, n
<1>4. {all[i] : i \in k + 1..Len(all)} = {line[i] : i \in 1..n}
  <2>1. \A i \in k + 1..Len(all) : i - k \in 1..n /\ k + (i - k) = i
    BY <1>1, <1>2
  <2>2. \A j \in 1..n : k + j \in k + 1..Len(all)
    BY <1>1, <1>2
  <2>3. ASSUME NEW i \in k + 1..Len(all) PROVE \E j \in 1..n : all[i] = line[j]
    BY <1>2, <2>1
  <2>4. ASSUME NEW j \in 1..n PROVE \E i \in k + 1..Len(all) : all[i] = line[j]
    BY <1>2, <2>2
  <2> QED
    BY <2>3, <2>4
<1>5. {line[i] : i \in 1..n} \ Separator = names
  BY <1>1 DEF IsLine, NamesIn, ToSet, n
<1>6. k \in 0..Len(all) - 1 /\ Len(all) >= 1 /\ all[Len(all)] = Newline
  BY <1>1, <1>2
<1>7. {all[i] : i \in k + 1..Len(all)} \ Separator = names
  BY <1>4, <1>5
<1>8. Ends(all, names)
  BY <1>2, <1>3, <1>6, <1>7 DEF Ends
<1> QED
  BY <1>8 DEF all

\* getLastLine finds it.
LEMMA LastLineRead ==
    ASSUME NEW text, NEW names, Ends(text, names)
    PROVE  ToSet(LastLine(text)) \ Separator = names
<1> DEFINE n == Len(text)
           newlines == {i \in 2..n - 1 : text[i] = Newline}
<1>1. text \in Seq(Symbol) /\ n \in Nat /\ n >= 1
  BY DEF Ends
<1>2. PICK k \in 0..n - 1 :
         /\ k = 0 \/ text[k] = Newline
         /\ \A i \in k + 1..n - 1 : text[i] # Newline
         /\ {text[i] : i \in k + 1..n} \ Separator = names
  BY DEF Ends
<1>3. \A i \in newlines : i \in Int /\ i =< k
  BY <1>1, <1>2
<1>4. LineStart(text) = IF newlines = {} THEN 1 ELSE 1 + Max(newlines)
  BY DEF LineStart, Newline
<1> HIDE DEF newlines
<1>5. LineStart(text) \in 1..n /\ {text[i] : i \in LineStart(text)..n} \ Separator = names
  <2>1. CASE k >= 2
    <3>1. k \in newlines
      BY <1>1, <1>2, <2>1 DEF newlines
    <3>2. Max(newlines) \in newlines /\ Max(newlines) >= k
      <4>1. \A i \in newlines : k >= i
        BY <1>1, <1>3
      <4> QED
        BY <3>1, <4>1 DEF Max
    <3>3. Max(newlines) = k
      BY <1>1, <1>3, <3>2
    <3>4. LineStart(text) = k + 1
      BY <1>4, <3>1, <3>3
    <3> QED
      BY <1>1, <1>2, <3>4
  <2>2. CASE k < 2
    <3>1. newlines = {}
      <4>1. \A i \in newlines : i >= 2
        BY DEF newlines
      <4> QED
        BY <1>3, <2>2, <4>1
    <3>2. LineStart(text) = 1
      BY <1>4, <3>1
    <3>3. k = 0 \/ k = 1
      BY <1>1, <2>2
    <3>4. {text[i] : i \in 1..n} \ Separator = {text[i] : i \in k + 1..n} \ Separator
      <4>1. \A i \in 1..n : i \in k + 1..n \/ text[i] = Newline
        BY <1>1, <1>2, <3>3
      <4>2. \A i \in k + 1..n : i \in 1..n
        BY <1>1, <3>3
      <4> QED
        BY <4>1, <4>2 DEF Separator
    <3> QED
      BY <1>1, <1>2, <3>2, <3>4
  <2> QED
    BY <1>1, <2>1, <2>2
<1>6. ToSet(LastLine(text)) = {text[i] : i \in LineStart(text)..n}
  <2> DEFINE start == LineStart(text)
             line == SubSeq(text, start, n)
  <2>1. start \in 1..n
    BY <1>5
  <2> HIDE DEF start
  <2>2. Len(line) = n - start + 1 /\ \A i \in 1..n - start + 1 : line[i] = text[start + i - 1]
    BY <1>1, <2>1, SubSeqProperties
  <2>3. DOMAIN line = 1..n - start + 1
    BY <1>1, <2>1, <2>2, SubSeqProperties
  <2> HIDE DEF line
  <2>4. \A i \in start..n : i - start + 1 \in 1..n - start + 1 /\ start + (i - start + 1) - 1 = i
    BY <1>1, <2>1
  <2>5. \A i \in 1..n - start + 1 : start + i - 1 \in start..n
    BY <1>1, <2>1
  <2>6. ASSUME NEW i \in start..n PROVE \E j \in 1..n - start + 1 : text[i] = line[j]
    BY <2>2, <2>4
  <2>7. ASSUME NEW j \in 1..n - start + 1 PROVE \E i \in start..n : line[j] = text[i]
    BY <2>2, <2>5
  <2>8. ToSet(line) = {line[j] : j \in 1..n - start + 1}
    BY <2>3 DEF ToSet
  <2>9. ToSet(line) = {text[i] : i \in start..n}
    <3>1. ASSUME NEW x \in ToSet(line) PROVE x \in {text[i] : i \in start..n}
      <4>1. PICK j \in 1..n - start + 1 : x = line[j]
        BY <2>8, <3>1
      <4> QED
        BY <2>7, <4>1
    <3>2. ASSUME NEW x \in {text[i] : i \in start..n} PROVE x \in ToSet(line)
      <4>1. PICK i \in start..n : x = text[i]
        BY <3>2
      <4> QED
        BY <2>6, <2>8, <4>1
    <3> QED
      BY <3>1, <3>2
  <2> QED
    BY <2>9 DEF line, start, LastLine
<1> QED
  BY <1>5, <1>6

\* The file ends with the list written last, and is there when the plugin
\* that reads it is let in.
ListInv ==
    /\ json # NoJson => Ends(funcs, listed)
    /\ stage \in {"names", "count"} => ~ instrumented
    /\ stage \in {"listed", "built"} /\ instrumented => json # NoJson
    /\ ListedIsBuilt

LEMMA ListInit == PluginInit => ListInv
<1> SUFFICES ASSUME PluginInit PROVE ListInv
  OBVIOUS
<1>1. json # NoJson => Ends(funcs, listed)
  <2>1. Ends(Line(Func), Func)
    BY LineIsLine, LineEnds
  <2> QED
    BY <2>1 DEF PluginInit
<1> QED
  BY <1>1 DEF PluginInit, ListInv, ListedIsBuilt

LEMMA ListStep ==
    ASSUME CountInv, ListInv, PluginNext
    PROVE  ListInv'
<1>1. CASE ReadNames
  BY <1>1 DEF ReadNames, ListInv, ListedIsBuilt
<1>2. ASSUME NEW d \in Decl, CountCalls(d) PROVE ListInv'
  <2>1. /\ stage = "count" /\ stage' = stage /\ instrumented' = instrumented
        /\ \/ UNCHANGED << json, funcs, listed >>
           \/ funcs' = Line(DOMAIN myfuncList) /\ listed' = DOMAIN myfuncList
    BY <1>2 DEF CountCalls
  <2>2. DOMAIN myfuncList = Func
    BY <2>1 DEF CountInv
  <2>3. Ends(Line(Func), Func)
    BY LineIsLine, LineEnds
  <2>4. json' # NoJson => Ends(funcs', listed')
    BY <2>1, <2>2, <2>3 DEF ListInv
  <2> QED
    BY <2>1, <2>4 DEF ListInv, ListedIsBuilt, Ends, NoJson
<1>3. CASE EndOfCount
  BY <1>3 DEF EndOfCount, ListInv, ListedIsBuilt
<1>4. CASE WriteList
  <2>1. PICK names \in SUBSET Func : funcs' = funcs \o Joined(names) /\ listed' = names
    BY <1>4 DEF WriteList
  <2>2. Ends(funcs \o Joined(names), names)
    BY <1>4, JoinedIsLine, AppendedEnds DEF WriteList, ListInv
  <2>3. json' # NoJson => Ends(funcs', listed')
    BY <2>1, <2>2
  <2> QED
    BY <1>4, <2>3 DEF WriteList, ListInv, ListedIsBuilt, Ends, NoJson
<1>5. CASE CompileWithList
  <2>1. json # NoJson => ToSet(LastLine(funcs)) \ {" ", "\n"} = listed
    BY LastLineRead DEF ListInv, Separator, Blank, Newline
  <2> QED
    BY <1>5, <2>1 DEF CompileWithList, ListInv, ListedIsBuilt
<1>6. CASE Link
  BY <1>6 DEF Link, ListInv, ListedIsBuilt
<1> QED
  BY <1>1, <1>2, <1>3, <1>4, <1>5, <1>6 DEF PluginNext

LEMMA ListKept == CountInv /\ ListInv /\ [Next]_vars => ListInv'
<1> SUFFICES ASSUME CountInv, ListInv, [Next]_vars PROVE ListInv'
  OBVIOUS
<1>1. CASE PluginNext
  BY <1>1, ListStep
<1>2. CASE UNCHANGED pluginVars
  BY <1>2 DEF pluginVars, ListInv, ListedIsBuilt
<1> QED
  BY <1>1, <1>2 DEF Next, Build, Run, vars

\* stat_prior.cc 540-566, 617-625: an object file with inserted code has it
\* for the list of functions written last.
THEOREM LastListBuilt == Spec => []ListedIsBuilt
<1>1. Init => CountInv /\ ListInv
  BY CountInit, ListInit DEF Init
<1>2. ListInv => ListedIsBuilt
  BY DEF ListInv
<1> QED
  BY <1>1, <1>2, CountKept, ListKept, PTL DEF Spec

-----------------------------------------------------------------------------
(* The instructions inserted, on any registers R and words M, b being the  *)
(* stack pointer they are entered with.                                    *)

Words == 0..StackSize - 1

LEMMA Sizes ==
    /\ StackSize \in Nat /\ StackSize = 2 * MaxDepth + 6
    /\ Addr \subseteq Value /\ Junk \in Value
    /\ \A n \in 0..StackSize : n \in Value
    /\ \A d \in 1..MaxDepth : Argument(d) \in Value
    /\ \A d \in 1..MaxDepth + 1 : Result(d) \in Value
    /\ Addr \subseteq Nat \ {Junk} /\ MaxDepth \in Nat
<1>1. MaxDepth \in Nat /\ Addr \subseteq Nat \ {Junk}
  BY CodeAssumption
<1>2. StackSize \in Nat /\ StackSize = 2 * MaxDepth + 6
  BY <1>1 DEF StackSize
<1> QED
  BY <1>1, <1>2 DEF Value, Junk

\* What a plain instruction does.
Effect(c, R, M, R2, M2) ==
    \/ c.op = "add" /\ R2 = [R EXCEPT !["sp"] = @ + c.n] /\ M2 = M
    \/ c.op = "str" /\ M2 = [M EXCEPT ![R["sp"] + c.n] = R[c.r]] /\ R2 = R
    \/ c.op = "ldr" /\ R2 = [R EXCEPT ![c.r] = M[R["sp"] + c.n]] /\ M2 = M
    \/ c.op = "mov" /\ R2 = [R EXCEPT ![c.d] = R[c.r]] /\ M2 = M

\* Before the i-th instruction, up to the call: what is stored already.
Pushed(R, M, i, b, x30, x29, x0) ==
    /\ R["sp"] = IF i = 1 THEN b ELSE b - 4
    /\ R["x30"] = x30
    /\ i >= 3 => M[b - 4] = x30
    /\ i >= 4 => M[b - 3] = x29
    /\ i =< 4 => R["x29"] = x29
    /\ i >= 6 => M[b - 2] = x0
    /\ R["x0"] = IF i = 7 THEN x30 ELSE x0

\* Behind the call, in the prologue and in the epilogue.
Restored(R, M, i, b, x30, x29, x0) ==
    /\ R["sp"] = IF i = 12 THEN b ELSE b - 4
    /\ i =< 11 => M[b - 4] = x30 /\ M[b - 3] = x29 /\ M[b - 2] = x0
    /\ i >= 9 => R["x30"] = x30
    /\ i >= 10 => R["x29"] = x29
    /\ i >= 11 => R["x0"] = x0

Fetched(R, M, i, b, known, x30, x29, x0) ==
    /\ R["sp"] = IF i = 12 THEN b ELSE b - 4
    /\ i =< 11 => M[b - 3] = x29 /\ M[b - 2] = x0
    /\ known => IF i = 8 THEN R["x0"] = x30 ELSE R["x30"] = x30
    /\ i >= 10 => R["x0"] = x0
    /\ i >= 11 => R["x29"] = x29

\* Registers and words stay such, and the words from b on the same.
Sound(R, M, b) ==
    /\ b \in 4..StackSize
    /\ R \in [Reg -> Value]
    /\ M \in [Words -> Value]

Kept(M, M2, b) == \A a \in Words : a >= b => M2[a] = M[a]

PushCode(i) == << AddSp(-4), Str("x30", 0), Str("x29", 1), Mov("x29", "sp"),
                  Str("x0", 2), Mov("x0", "x30") >>[i]

LEMMA PushStep ==
    ASSUME NEW R, NEW M, NEW R2, NEW M2, NEW i \in 1..6, NEW b,
           NEW x30, NEW x29, NEW x0,
           Sound(R, M, b), Pushed(R, M, i, b, x30, x29, x0),
           Effect(PushCode(i), R, M, R2, M2)
    PROVE  /\ Sound(R2, M2, b) /\ Kept(M, M2, b)
           /\ Pushed(R2, M2, i + 1, b, x30, x29, x0)
<1>1. /\ b \in Int /\ 4 =< b /\ b =< StackSize /\ StackSize \in Nat
      /\ R \in [Reg -> Value] /\ M \in [Words -> Value]
      /\ b - 4 \in Value
  BY Sizes DEF Sound
<1>2. Reg = {"x0", "x1", "x29", "x30", "sp"}
  BY DEF Reg
<1>3. CASE i = 1
  <2>0. PushCode(i) = AddSp(-4)
    BY <1>3 DEF PushCode
  <2>1. R2 = [R EXCEPT !["sp"] = R["sp"] + (-4)] /\ M2 = M
    BY <2>0 DEF Effect, AddSp
  <2>2. R["sp"] + (-4) = b - 4
    BY <1>1, <1>3 DEF Pushed
  <2> QED
    BY <1>1, <1>2, <1>3, <2>1, <2>2 DEF Sound, Kept, Pushed
<1>4. CASE i = 2
  <2>0. PushCode(i) = Str("x30", 0)
    BY <1>4 DEF PushCode
  <2>1. M2 = [M EXCEPT ![R["sp"] + 0] = R["x30"]] /\ R2 = R
    BY <2>0 DEF Effect, Str
  <2>2. R["sp"] + 0 = b - 4 /\ R["x30"] = x30 /\ x30 \in Value
    BY <1>1, <1>2, <1>4 DEF Pushed
  <2>3. b - 4 \in Words
    BY <1>1 DEF Words
  <2> QED
    BY <1>1, <1>2, <1>4, <2>1, <2>2, <2>3 DEF Sound, Kept, Pushed
<1>5. CASE i = 3
  <2>0. PushCode(i) = Str("x29", 1)
    BY <1>5 DEF PushCode
  <2>1. M2 = [M EXCEPT ![R["sp"] + 1] = R["x29"]] /\ R2 = R
    BY <2>0 DEF Effect, Str
  <2>2. R["sp"] + 1 = b - 3 /\ R["x29"] = x29 /\ x29 \in Value
    BY <1>1, <1>2, <1>5 DEF Pushed
  <2>3. b - 4 \in Words /\ b - 3 \in Words
    BY <1>1 DEF Words
  <2> QED
    BY <1>1, <1>2, <1>5, <2>1, <2>2, <2>3 DEF Sound, Kept, Pushed
<1>6. CASE i = 4
  <2>0. PushCode(i) = Mov("x29", "sp")
    BY <1>6 DEF PushCode
  <2>1. R2 = [R EXCEPT !["x29"] = R["sp"]] /\ M2 = M
    BY <2>0 DEF Effect, Mov
  <2>2. R["sp"] = b - 4
    BY <1>1, <1>6 DEF Pushed
  <2> QED
    BY <1>1, <1>2, <1>6, <2>1, <2>2 DEF Sound, Kept, Pushed
<1>7. CASE i = 5
  <2>0. PushCode(i) = Str("x0", 2)
    BY <1>7 DEF PushCode
  <2>1. M2 = [M EXCEPT ![R["sp"] + 2] = R["x0"]] /\ R2 = R
    BY <2>0 DEF Effect, Str
  <2>2. R["sp"] + 2 = b - 2 /\ R["x0"] = x0 /\ x0 \in Value
    BY <1>1, <1>2, <1>7 DEF Pushed
  <2>3. b - 4 \in Words /\ b - 3 \in Words /\ b - 2 \in Words
    BY <1>1 DEF Words
  <2> QED
    BY <1>1, <1>2, <1>7, <2>1, <2>2, <2>3 DEF Sound, Kept, Pushed
<1>8. CASE i = 6
  <2>0. PushCode(i) = Mov("x0", "x30")
    BY <1>8 DEF PushCode
  <2>1. R2 = [R EXCEPT !["x0"] = R["x30"]] /\ M2 = M
    BY <2>0 DEF Effect, Mov
  <2>2. R["sp"] = b - 4 /\ R["x30"] = x30 /\ x30 \in Value
    BY <1>1, <1>2, <1>8 DEF Pushed
  <2> QED
    BY <1>1, <1>2, <1>8, <2>1, <2>2 DEF Sound, Kept, Pushed
<1> QED
  BY <1>3, <1>4, <1>5, <1>6, <1>7, <1>8

RestoreCode(i) == << Ldr("x30", 0), Ldr("x29", 1), Ldr("x0", 2), AddSp(4) >>[i - 7]
FetchCode(i) == << Mov("x30", "x0"), Ldr("x0", 2), Ldr("x29", 1), AddSp(4) >>[i - 7]

LEMMA RestoreStep ==
    ASSUME NEW R, NEW M, NEW R2, NEW M2, NEW i \in 8..11, NEW b,
           NEW x30, NEW x29, NEW x0,
           Sound(R, M, b), Restored(R, M, i, b, x30, x29, x0),
           Effect(RestoreCode(i), R, M, R2, M2)
    PROVE  /\ Sound(R2, M2, b) /\ Kept(M, M2, b)
           /\ Restored(R2, M2, i + 1, b, x30, x29, x0)
<1>1. /\ b \in Int /\ 4 =< b /\ b =< StackSize /\ StackSize \in Nat
      /\ R \in [Reg -> Value] /\ M \in [Words -> Value]
      /\ b \in Value /\ b - 4 \in Words /\ b - 3 \in Words /\ b - 2 \in Words
  BY Sizes DEF Sound, Words
<1>2. Reg = {"x0", "x1", "x29", "x30", "sp"}
  BY DEF Reg
<1>3. /\ R["sp"] = b - 4 /\ M[b - 4] = x30 /\ M[b - 3] = x29 /\ M[b - 2] = x0
      /\ x30 \in Value /\ x29 \in Value /\ x0 \in Value
  BY <1>1 DEF Restored
<1>4. CASE i = 8
  <2>0. RestoreCode(i) = Ldr("x30", 0)
    BY <1>4 DEF RestoreCode
  <2>1. R2 = [R EXCEPT !["x30"] = M[R["sp"] + 0]] /\ M2 = M
    BY <2>0 DEF Effect, Ldr
  <2>2. M[R["sp"] + 0] = x30
    BY <1>1, <1>3
  <2> QED
    BY <1>1, <1>2, <1>3, <1>4, <2>1, <2>2 DEF Sound, Kept, Restored
<1>5. CASE i = 9
  <2>0. RestoreCode(i) = Ldr("x29", 1)
    BY <1>5 DEF RestoreCode
  <2>1. R2 = [R EXCEPT !["x29"] = M[R["sp"] + 1]] /\ M2 = M
    BY <2>0 DEF Effect, Ldr
  <2>2. M[R["sp"] + 1] = x29
    BY <1>1, <1>3
  <2> QED
    BY <1>1, <1>2, <1>3, <1>5, <2>1, <2>2 DEF Sound, Kept, Restored
<1>6. CASE i = 10
  <2>0. RestoreCode(i) = Ldr("x0", 2)
    BY <1>6 DEF RestoreCode
  <2>1. R2 = [R EXCEPT !["x0"] = M[R["sp"] + 2]] /\ M2 = M
    BY <2>0 DEF Effect, Ldr
  <2>2. M[R["sp"] + 2] = x0
    BY <1>1, <1>3
  <2> QED
    BY <1>1, <1>2, <1>3, <1>6, <2>1, <2>2 DEF Sound, Kept, Restored
<1>7. CASE i = 11
  <2>0. RestoreCode(i) = AddSp(4)
    BY <1>7 DEF RestoreCode
  <2>1. R2 = [R EXCEPT !["sp"] = R["sp"] + 4] /\ M2 = M
    BY <2>0 DEF Effect, AddSp
  <2>2. R["sp"] + 4 = b
    BY <1>1, <1>3
  <2> QED
    BY <1>1, <1>2, <1>3, <1>7, <2>1, <2>2 DEF Sound, Kept, Restored
<1> QED
  BY <1>4, <1>5, <1>6, <1>7

LEMMA FetchStep ==
    ASSUME NEW R, NEW M, NEW R2, NEW M2, NEW i \in 8..11, NEW b, NEW known,
           NEW x30, NEW x29, NEW x0,
           Sound(R, M, b), Fetched(R, M, i, b, known, x30, x29, x0),
           Effect(FetchCode(i), R, M, R2, M2)
    PROVE  /\ Sound(R2, M2, b) /\ Kept(M, M2, b)
           /\ Fetched(R2, M2, i + 1, b, known, x30, x29, x0)
<1>1. /\ b \in Int /\ 4 =< b /\ b =< StackSize /\ StackSize \in Nat
      /\ R \in [Reg -> Value] /\ M \in [Words -> Value]
      /\ b \in Value /\ b - 4 \in Words /\ b - 3 \in Words /\ b - 2 \in Words
  BY Sizes DEF Sound, Words
<1>2. Reg = {"x0", "x1", "x29", "x30", "sp"}
  BY DEF Reg
<1>3. /\ R["sp"] = b - 4 /\ M[b - 3] = x29 /\ M[b - 2] = x0
      /\ x29 \in Value /\ x0 \in Value
  BY <1>1 DEF Fetched
<1>4. CASE i = 8
  <2>0. FetchCode(i) = Mov("x30", "x0")
    BY <1>4 DEF FetchCode
  <2>1. R2 = [R EXCEPT !["x30"] = R["x0"]] /\ M2 = M
    BY <2>0 DEF Effect, Mov
  <2>2. known => R["x0"] = x30
    BY <1>4 DEF Fetched
  <2> QED
    BY <1>1, <1>2, <1>3, <1>4, <2>1, <2>2 DEF Sound, Kept, Fetched
<1>5. CASE i = 9
  <2>0. FetchCode(i) = Ldr("x0", 2)
    BY <1>5 DEF FetchCode
  <2>1. R2 = [R EXCEPT !["x0"] = M[R["sp"] + 2]] /\ M2 = M
    BY <2>0 DEF Effect, Ldr
  <2>2. M[R["sp"] + 2] = x0
    BY <1>1, <1>3
  <2>3. known => R["x30"] = x30
    BY <1>5 DEF Fetched
  <2> QED
    BY <1>1, <1>2, <1>3, <1>5, <2>1, <2>2, <2>3 DEF Sound, Kept, Fetched
<1>6. CASE i = 10
  <2>0. FetchCode(i) = Ldr("x29", 1)
    BY <1>6 DEF FetchCode
  <2>1. R2 = [R EXCEPT !["x29"] = M[R["sp"] + 1]] /\ M2 = M
    BY <2>0 DEF Effect, Ldr
  <2>2. M[R["sp"] + 1] = x29
    BY <1>1, <1>3
  <2>3. known => R["x30"] = x30
    BY <1>6 DEF Fetched
  <2> QED
    BY <1>1, <1>2, <1>3, <1>6, <2>1, <2>2, <2>3 DEF Sound, Kept, Fetched
<1>7. CASE i = 11
  <2>0. FetchCode(i) = AddSp(4)
    BY <1>7 DEF FetchCode
  <2>1. R2 = [R EXCEPT !["sp"] = R["sp"] + 4] /\ M2 = M
    BY <2>0 DEF Effect, AddSp
  <2>2. R["sp"] + 4 = b
    BY <1>1, <1>3
  <2>3. known => R["x30"] = x30
    BY <1>7 DEF Fetched
  <2> QED
    BY <1>1, <1>2, <1>3, <1>7, <2>1, <2>2, <2>3 DEF Sound, Kept, Fetched
<1> QED
  BY <1>4, <1>5, <1>6, <1>7

\* The code of a function that is not left alone.
LEMMA Inserted ==
    ASSUME NEW f, ~ Untouched(f)
    PROVE  /\ Len(Prologue(f)) = 11 /\ Len(Epilogue(f)) = 11
           /\ \A i \in 1..6 : Prologue(f)[i] = PushCode(i) /\ Epilogue(f)[i] = PushCode(i)
           /\ Prologue(f)[7] = Bl(SaveCall(f)) /\ Epilogue(f)[7] = Bl(RestoreCall(f))
           /\ \A i \in 8..11 : Prologue(f)[i] = RestoreCode(i) /\ Epilogue(f)[i] = FetchCode(i)
           /\ CallAt(Prologue(f)) = 7 /\ CallAt(Epilogue(f)) = 7
           /\ \A i \in 1..11 : Prologue(f)[i].op = "bl" <=> i = 7
           /\ \A i \in 1..11 : Epilogue(f)[i].op = "bl" <=> i = 7
<1>1. /\ Len(Prologue(f)) = 11 /\ Len(Epilogue(f)) = 11
      /\ DOMAIN Prologue(f) = 1..11 /\ DOMAIN Epilogue(f) = 1..11
  BY DEF Prologue, Epilogue, Push
<1>2. Prologue(f)[7] = Bl(SaveCall(f)) /\ Epilogue(f)[7] = Bl(RestoreCall(f))
  BY DEF Prologue, Epilogue, Push
<1>3. \A i \in 1..6 : Prologue(f)[i] = PushCode(i) /\ Epilogue(f)[i] = PushCode(i)
  <2>1. Prologue(f)[1] = AddSp(-4) /\ PushCode(1) = AddSp(-4)
    BY DEF Prologue, Push, PushCode
  <2>2. Prologue(f)[2] = Str("x30", 0) /\ PushCode(2) = Str("x30", 0)
    BY DEF Prologue, Push, PushCode
  <2>3. Prologue(f)[3] = Str("x29", 1) /\ PushCode(3) = Str("x29", 1)
    BY DEF Prologue, Push, PushCode
  <2>4. Prologue(f)[4] = Mov("x29", "sp") /\ PushCode(4) = Mov("x29", "sp")
    BY DEF Prologue, Push, PushCode
  <2>5. Prologue(f)[5] = Str("x0", 2) /\ PushCode(5) = Str("x0", 2)
    BY DEF Prologue, Push, PushCode
  <2>6. Prologue(f)[6] = Mov("x0", "x30") /\ PushCode(6) = Mov("x0", "x30")
    BY DEF Prologue, Push, PushCode
  <2>7. Epilogue(f)[1] = AddSp(-4) /\ PushCode(1) = AddSp(-4)
    BY DEF Epilogue, Push, PushCode
  <2>8. Epilogue(f)[2] = Str("x30", 0) /\ PushCode(2) = Str("x30", 0)
    BY DEF Epilogue, Push, PushCode
  <2>9. Epilogue(f)[3] = Str("x29", 1) /\ PushCode(3) = Str("x29", 1)
    BY DEF Epilogue, Push, PushCode
  <2>10. Epilogue(f)[4] = Mov("x29", "sp") /\ PushCode(4) = Mov("x29", "sp")
    BY DEF Epilogue, Push, PushCode
  <2>11. Epilogue(f)[5] = Str("x0", 2) /\ PushCode(5) = Str("x0", 2)
    BY DEF Epilogue, Push, PushCode
  <2>12. Epilogue(f)[6] = Mov("x0", "x30") /\ PushCode(6) = Mov("x0", "x30")
    BY DEF Epilogue, Push, PushCode
  <2> QED
    BY <2>1, <2>2, <2>3, <2>4, <2>5, <2>6, <2>7, <2>8, <2>9, <2>10, <2>11, <2>12
<1>4. \A i \in 8..11 : Prologue(f)[i] = RestoreCode(i) /\ Epilogue(f)[i] = FetchCode(i)
  <2>1. Prologue(f)[8] = Ldr("x30", 0) /\ RestoreCode(8) = Ldr("x30", 0)
    BY DEF Prologue, Push, RestoreCode
  <2>2. Prologue(f)[9] = Ldr("x29", 1) /\ RestoreCode(9) = Ldr("x29", 1)
    BY DEF Prologue, Push, RestoreCode
  <2>3. Prologue(f)[10] = Ldr("x0", 2) /\ RestoreCode(10) = Ldr("x0", 2)
    BY DEF Prologue, Push, RestoreCode
  <2>4. Prologue(f)[11] = AddSp(4) /\ RestoreCode(11) = AddSp(4)
    BY DEF Prologue, Push, RestoreCode
  <2>5. Epilogue(f)[8] = Mov("x30", "x0") /\ FetchCode(8) = Mov("x30", "x0")
    BY DEF Epilogue, Push, FetchCode
  <2>6. Epilogue(f)[9] = Ldr("x0", 2) /\ FetchCode(9) = Ldr("x0", 2)
    BY DEF Epilogue, Push, FetchCode
  <2>7. Epilogue(f)[10] = Ldr("x29", 1) /\ FetchCode(10) = Ldr("x29", 1)
    BY DEF Epilogue, Push, FetchCode
  <2>8. Epilogue(f)[11] = AddSp(4) /\ FetchCode(11) = AddSp(4)
    BY DEF Epilogue, Push, FetchCode
  <2> QED
    BY <2>1, <2>2, <2>3, <2>4, <2>5, <2>6, <2>7, <2>8
<1>6. \A i \in 1..6 : PushCode(i).op # "bl"
  BY DEF PushCode, AddSp, Str, Mov
<1>7. \A i \in 8..11 : RestoreCode(i).op # "bl" /\ FetchCode(i).op # "bl"
  BY DEF RestoreCode, FetchCode, AddSp, Ldr, Mov
<1>8. \A i \in 1..11 : i \in 1..6 \/ i = 7 \/ i \in 8..11
  OBVIOUS
<1>9. \A i \in 1..11 : (Prologue(f)[i].op = "bl" <=> i = 7) /\ (Epilogue(f)[i].op = "bl" <=> i = 7)
  BY <1>2, <1>3, <1>4, <1>6, <1>7, <1>8 DEF Bl
<1>10. CallAt(Prologue(f)) = 7 /\ CallAt(Epilogue(f)) = 7
  BY <1>1, <1>9 DEF CallAt
<1> QED
  BY <1>1, <1>2, <1>3, <1>4, <1>9, <1>10
-----------------------------------------------------------------------------
(* The invariant of the machine.                                           *)

\* Where a body runs: what the compiler's prologue leaves in sp and x29.
BodySp(d) == IF d = 1 \/ frames[d].fn \in Leaf THEN frames[d].sp ELSE frames[d].sp - 2
BodyX29(F) == IF F.fn \in Leaf THEN F.x29 ELSE F.sp - 2

\* Nothing runs before the program is linked.
StillInv ==
    stage # "run" =>
        /\ regs = [r \in Reg |-> IF r = "sp" THEN StackSize ELSE Junk]
        /\ mem = [a \in Words |-> Junk] /\ shadow = << >>
        /\ frames = << Frame(Root, Junk, Junk, StackSize) >>
        /\ pc = At("body", 1)

MachineTypes ==
    /\ regs \in [Reg -> Value] /\ regs["sp"] \in 0..StackSize
    /\ mem \in [Words -> Value]
    /\ shadow \in Seq(Addr)
    /\ pc \in [part : {"prologue", "body", "epilogue", "lost"}, i : 1..12]

\* Every call under way has its place on the stack, and only the last can be
\* one of a leaf.
FrameInv ==
    /\ frames \in Seq([fn : Func, ret : Addr \cup {Junk},
                       x29 : 0..StackSize, sp : 0..StackSize])
    /\ Len(frames) \in 1..MaxDepth + 1
    /\ frames[1] = Frame(Root, Junk, Junk, StackSize)
    /\ \A d \in 2..Len(frames) :
          /\ frames[d].fn \notin Filtered /\ frames[d].ret \in Addr
          /\ frames[d].sp = StackSize - 2 * (d - 2)
    /\ \A d \in 1..Len(frames) - 1 : frames[d].fn \notin Leaf
    /\ pc.part # "body" => Len(frames) >= 2

\* x29 of the caller stays in the frame until the epilogue is through with it.
SavedInv ==
    \A d \in 2..Len(frames) :
        /\ frames[d].fn \notin Leaf /\ pc.part # "lost"
        /\ d < Len(frames) \/ pc.part \in {"prologue", "body"}
        => mem[frames[d].sp - 2] = frames[d].x29

PrologueInv ==
    pc.part = "prologue" =>
        /\ Untouched(Current.fn) => pc.i = 1
        /\ pc.i =< 7 => Pushed(regs, mem, pc.i, BodySp(Len(frames)), Current.ret,
                               BodyX29(Current), Argument(Len(frames) - 1))
        /\ pc.i >= 8 => Restored(regs, mem, pc.i, BodySp(Len(frames)), Current.ret,
                                 BodyX29(Current), Argument(Len(frames) - 1))
        /\ Current.fn \notin Leaf => mem[Current.sp - 1] = Current.ret

EpilogueInv ==
    pc.part = "epilogue" =>
        /\ Untouched(Current.fn) => pc.i = 1
        /\ pc.i =< 7 => Pushed(regs, mem, pc.i, Current.sp, regs["x30"],
                               Current.x29, Result(Len(frames)))
        /\ pc.i >= 8 => Fetched(regs, mem, pc.i, Current.sp, Current.fn \in Chosen,
                                Current.ret, Current.x29, Result(Len(frames)))

BodyInv ==
    pc.part = "body" =>
        /\ regs["sp"] = BodySp(Len(frames))
        /\ regs["x29"] \in 0..StackSize
        /\ Current.fn \in Leaf => regs["x29"] = Current.x29

MachineInv ==
    /\ StillInv /\ MachineTypes /\ FrameInv /\ SavedInv
    /\ PrologueInv /\ EpilogueInv /\ BodyInv /\ ShadowInStep

-----------------------------------------------------------------------------

LibraryEffect(R, M, R2, M2, v) ==
    /\ M2 = Below(M, R["sp"])
    /\ R2 = [R EXCEPT !["x0"] = v, !["x1"] = Junk, !["x30"] = Junk]

LEMMA LibraryCall ==
    ASSUME NEW R, NEW M, NEW R2, NEW M2, NEW b, NEW x30, NEW x29, NEW x0,
           Sound(R, M, b), Pushed(R, M, 7, b, x30, x29, x0),
           NEW v \in Addr \cup {Junk}, LibraryEffect(R, M, R2, M2, v)
    PROVE  /\ Sound(R2, M2, b) /\ Kept(M, M2, b)
           /\ R2["sp"] = b - 4 /\ R2["x0"] = v
           /\ M2[b - 4] = x30 /\ M2[b - 3] = x29 /\ M2[b - 2] = x0
<1>1. /\ b \in Int /\ 4 =< b /\ b =< StackSize /\ StackSize \in Nat
      /\ R \in [Reg -> Value] /\ M \in [Words -> Value]
      /\ b - 4 \in Words /\ b - 3 \in Words /\ b - 2 \in Words
      /\ v \in Value /\ Junk \in Value
  BY Sizes DEF Sound, Words
<1>2. Reg = {"x0", "x1", "x29", "x30", "sp"}
  BY DEF Reg
<1>3. /\ R["sp"] = b - 4 /\ M[b - 4] = x30 /\ M[b - 3] = x29 /\ M[b - 2] = x0
      /\ M2 = Below(M, R["sp"])
      /\ R2 = [R EXCEPT !["x0"] = v, !["x1"] = Junk, !["x30"] = Junk]
  BY DEF Pushed, LibraryEffect
<1>4. M2 = [a \in Words |-> IF a < b - 4 THEN Junk ELSE M[a]]
  BY <1>1, <1>3 DEF Below
<1>5. M2 \in [Words -> Value] /\ Kept(M, M2, b)
  BY <1>1, <1>4 DEF Kept, Words
<1>6. M2[b - 4] = x30 /\ M2[b - 3] = x29 /\ M2[b - 2] = x0
  BY <1>1, <1>3, <1>4
<1>7. R2 \in [Reg -> Value] /\ R2["sp"] = b - 4 /\ R2["x0"] = v
  BY <1>1, <1>2, <1>3
<1> QED
  BY <1>5, <1>6, <1>7 DEF Sound

\* Where the last call is on the stack.
LEMMA Place ==
    ASSUME FrameInv
    PROVE  /\ Len(frames) \in Nat /\ Len(frames) >= 1 /\ Len(frames) =< MaxDepth + 1
           /\ DOMAIN frames = 1..Len(frames) /\ Current = frames[Len(frames)]
           /\ StackSize \in Nat
           /\ Len(frames) >= 2 =>
                 /\ Current.sp \in 8..StackSize /\ BodySp(Len(frames)) \in 6..StackSize
                 /\ Current.fn \in Func \ Filtered /\ Current.ret \in Addr
                 /\ Current.x29 \in 0..StackSize /\ BodyX29(Current) \in 0..StackSize
                 /\ BodySp(Len(frames)) = IF Current.fn \in Leaf THEN Current.sp ELSE Current.sp - 2
           /\ \A d \in 2..Len(frames) - 1 : frames[d].sp - 2 >= Current.sp
           /\ \A d \in 2..Len(frames) : frames[d].sp \in 8..StackSize
<1>1. /\ Len(frames) \in Nat /\ Len(frames) >= 1 /\ Len(frames) =< MaxDepth + 1
      /\ DOMAIN frames = 1..Len(frames) /\ Current = frames[Len(frames)]
      /\ MaxDepth \in Nat /\ StackSize = 2 * MaxDepth + 6 /\ StackSize \in Nat
  BY Sizes DEF FrameInv, Current, Last
<1>2. \A d \in 2..Len(frames) :
         /\ frames[d].sp = StackSize - 2 * (d - 2)
         /\ frames[d].sp \in 8..StackSize
  <2> TAKE d \in 2..Len(frames)
  <2>1. frames[d].sp = StackSize - 2 * (d - 2)
    BY DEF FrameInv
  <2>2. d \in Int /\ 2 =< d /\ d =< MaxDepth + 1
    BY <1>1
  <2>3. StackSize - 2 * (d - 2) \in 8..StackSize
    BY <1>1, <2>2
  <2> QED
    BY <2>1, <2>3
<1>3. \A d \in 2..Len(frames) - 1 : frames[d].sp - 2 >= Current.sp
  <2> TAKE d \in 2..Len(frames) - 1
  <2>1. d \in 2..Len(frames) /\ Len(frames) \in 2..Len(frames) /\ d =< Len(frames) - 1
    BY <1>1
  <2>2. frames[d].sp = StackSize - 2 * (d - 2) /\ Current.sp = StackSize - 2 * (Len(frames) - 2)
    BY <1>1, <1>2, <2>1
  <2> QED
    BY <1>1, <2>1, <2>2
<1>4. ASSUME Len(frames) >= 2
      PROVE  /\ Current.sp \in 8..StackSize /\ BodySp(Len(frames)) \in 6..StackSize
             /\ Current.fn \in Func \ Filtered /\ Current.ret \in Addr
             /\ Current.x29 \in 0..StackSize /\ BodyX29(Current) \in 0..StackSize
             /\ BodySp(Len(frames)) = IF Current.fn \in Leaf THEN Current.sp ELSE Current.sp - 2
  <2>1. Len(frames) \in 2..Len(frames) /\ Len(frames) # 1
    BY <1>1, <1>4
  <2>2. Current \in [fn : Func, ret : Addr \cup {Junk}, x29 : 0..StackSize, sp : 0..StackSize]
    <3>1. frames \in Seq([fn : Func, ret : Addr \cup {Junk},
                         x29 : 0..StackSize, sp : 0..StackSize])
      BY DEF FrameInv
    <3>2. Len(frames) \in 1..Len(frames)
      BY <1>1
    <3> QED
      BY <1>1, <3>1, <3>2, ElementOfSeq
  <2>3. Current.sp \in 8..StackSize /\ Current.fn \notin Filtered /\ Current.ret \in Addr
    BY <1>1, <1>2, <2>1 DEF FrameInv
  <2>4. BodySp(Len(frames)) = IF Current.fn \in Leaf THEN Current.sp ELSE Current.sp - 2
    BY <1>1, <2>1 DEF BodySp
  <2>5. BodyX29(Current) = IF Current.fn \in Leaf THEN Current.x29 ELSE Current.sp - 2
    BY DEF BodyX29
  <2> QED
    BY <1>1, <2>2, <2>3, <2>4, <2>5
<1> QED
  BY <1>1, <1>2, <1>3, <1>4

\* The call of the library is the seventh instruction.
OnStack(d) ==
    /\ frames[d].fn \in Chosen
    /\ d = Len(frames) =>
          /\ pc.part = "prologue" => pc.i > 7
          /\ pc.part = "epilogue" => pc.i =< 7

LEMMA SavedAt == \A d : OnShadow(d) <=> OnStack(d)
<1> TAKE d
<1>1. CASE d = Len(frames) /\ frames[d].fn \in Chosen
  <2>1. Current.fn = frames[d].fn /\ ~ Untouched(Current.fn)
    BY <1>1 DEF Current, Last, Chosen
  <2>2. CallAt(Code.prologue) = 7 /\ CallAt(Code.epilogue) = 7
    BY <2>1, Inserted DEF Code
  <2> QED
    BY <2>2 DEF OnShadow, OnStack
<1>2. CASE ~ (d = Len(frames) /\ frames[d].fn \in Chosen)
  BY <1>2 DEF OnShadow, OnStack
<1> QED
  BY <1>1, <1>2

\* What the plugins built does not change while the program runs.
LEMMA Built ==
    ASSUME UNCHANGED << instrumented, functionNames >>
    PROVE  /\ Chosen' = Chosen
           /\ \A f : /\ Untouched(f)' <=> Untouched(f)
                     /\ Prologue(f)' = Prologue(f) /\ Epilogue(f)' = Epilogue(f)
<1>1. \A f : Untouched(f)' <=> Untouched(f)
  BY DEF Untouched
<1>2. Chosen' = Chosen
  BY <1>1 DEF Chosen
<1>3. \A f : SaveCall(f)' = SaveCall(f) /\ RestoreCall(f)' = RestoreCall(f)
  BY <1>2 DEF SaveCall, RestoreCall
<1>4. \A f : Prologue(f)' = Prologue(f) /\ Epilogue(f)' = Epilogue(f)
  BY <1>1, <1>3 DEF Prologue, Epilogue, Push
<1> QED
  BY <1>1, <1>2, <1>4

LEMMA SavedAtNext ==
    ASSUME UNCHANGED << instrumented, functionNames >>
    PROVE  \A d : OnShadow(d)' <=> OnStack(d)'
<1> TAKE d
<1>1. CASE d = Len(frames') /\ frames'[d].fn \in Chosen'
  <2>1. Current'.fn = frames'[d].fn /\ ~ Untouched(Current'.fn)
    BY <1>1, Built DEF Current, Last, Chosen
  <2>2. /\ Code'.prologue = Prologue(Current'.fn)
        /\ Code'.epilogue = Epilogue(Current'.fn)
    BY Built DEF Code
  <2>3. CallAt(Code'.prologue) = 7 /\ CallAt(Code'.epilogue) = 7
    BY <2>1, <2>2, Inserted
  <2> QED
    BY <2>3 DEF OnShadow, OnStack
<1>2. CASE ~ (d = Len(frames') /\ frames'[d].fn \in Chosen')
  BY <1>2 DEF OnShadow, OnStack
<1> QED
  BY <1>1, <1>2

LEMMA SavedSame ==
    ASSUME NEW m, \A e \in 1..m : OnShadow(e)' <=> OnShadow(e)
    PROVE  Saved(m)' = Saved(m)
<1>1. {e \in 1..m : OnShadow(e)'} = {e \in 1..m : OnShadow(e)}
  OBVIOUS
<1> QED
  BY <1>1 DEF Saved

LEMMA ShadowSame ==
    ASSUME ShadowInStep, FrameInv, pc.part # "lost",
           UNCHANGED << frames, shadow >>,
           \A d \in 1..Len(frames) : OnShadow(d)' <=> OnShadow(d)
    PROVE  ShadowInStep'
<1>1. \A m \in 1..Len(frames) : Saved(m)' = Saved(m)
  <2> TAKE m \in 1..Len(frames)
  <2>1. \A e \in 1..m : e \in 1..Len(frames)
    BY Place
  <2> QED
    BY <2>1, SavedSame
<1>2. DOMAIN frames = 1..Len(frames) /\ Len(frames) \in 1..Len(frames)
  BY Place
<1> QED
  BY <1>1, <1>2 DEF ShadowInStep

LEMMA CountTo ==
    ASSUME NEW S, NEW m \in Nat
    PROVE  /\ Cardinality({e \in 1..m : e \in S}) \in Nat
           /\ Cardinality({e \in 1..m + 1 : e \in S})
                 = Cardinality({e \in 1..m : e \in S}) + (IF m + 1 \in S THEN 1 ELSE 0)
           /\ \A d \in 1..m : Cardinality({e \in 1..d : e \in S})
                                 =< Cardinality({e \in 1..m : e \in S})
<1> DEFINE A(k) == {e \in 1..k : e \in S}
<1>1. ASSUME NEW k \in Nat PROVE IsFiniteSet(A(k)) /\ Cardinality(A(k)) \in Nat
  <2>1. IsFiniteSet(1..k)
    BY FS_Interval
  <2>2. IsFiniteSet(A(k))
    BY <2>1, FS_Subset
  <2> QED
    BY <2>2, FS_CardinalityType
<1>2. \A d \in 1..m : Cardinality(A(d)) =< Cardinality(A(m))
  <2> TAKE d \in 1..m
  <2>1. A(d) \subseteq A(m) /\ d \in Nat
    OBVIOUS
  <2> QED
    BY <1>1, <2>1, FS_Subset
<1>3. CASE m + 1 \in S
  <2>1. A(m + 1) = A(m) \cup {m + 1} /\ m + 1 \notin A(m)
    BY <1>3
  <2>2. Cardinality(A(m + 1)) = Cardinality(A(m)) + 1
    BY <1>1, <2>1, FS_AddElement
  <2> QED
    BY <1>1, <1>2, <1>3, <2>2
<1>4. CASE m + 1 \notin S
  <2>1. A(m + 1) = A(m)
    BY <1>4
  <2>2. Cardinality(A(m + 1)) = Cardinality(A(m)) /\ Cardinality(A(m)) \in Nat
    BY <1>1, <2>1
  <2> QED
    BY <1>2, <1>4, <2>2
<1> QED
  BY <1>3, <1>4

LEMMA SavedMore ==
    ASSUME NEW m \in Nat
    PROVE  /\ Saved(m) \in Nat /\ Saved(m)' \in Nat
           /\ Saved(m + 1) = Saved(m) + (IF OnShadow(m + 1) THEN 1 ELSE 0)
           /\ Saved(m + 1)' = Saved(m)' + (IF OnShadow(m + 1)' THEN 1 ELSE 0)
           /\ \A d \in 1..m : Saved(d) =< Saved(m) /\ (OnShadow(d) => Saved(d) >= 1)
<1>1. PICK S : S = {e \in 1..m + 1 : OnShadow(e)}
  OBVIOUS
<1>2. PICK T : T = {e \in 1..m + 1 : OnShadow(e)'}
  OBVIOUS
<1>3. \A d \in 1..m + 1 : {e \in 1..d : e \in S} = {e \in 1..d : OnShadow(e)}
  BY <1>1
<1>4. \A d \in 1..m + 1 : {e \in 1..d : e \in T} = {e \in 1..d : OnShadow(e)'}
  BY <1>2
<1>5. /\ {e \in 1..m : e \in S} = {e \in 1..m : OnShadow(e)}
      /\ {e \in 1..m : e \in T} = {e \in 1..m : OnShadow(e)'}
  BY <1>1, <1>2
<1>6. Saved(m) \in Nat /\ Saved(m)' \in Nat
  BY <1>5, CountTo DEF Saved
<1>7. Saved(m + 1) = Saved(m) + (IF OnShadow(m + 1) THEN 1 ELSE 0)
  <2>1. m + 1 \in 1..m + 1 /\ (m + 1 \in S <=> OnShadow(m + 1))
    BY <1>1
  <2> QED
    BY <1>3, <1>5, <2>1, CountTo DEF Saved
<1>8. Saved(m + 1)' = Saved(m)' + (IF OnShadow(m + 1)' THEN 1 ELSE 0)
  <2>1. m + 1 \in 1..m + 1 /\ (m + 1 \in T <=> OnShadow(m + 1)')
    BY <1>2
  <2> QED
    BY <1>4, <1>5, <2>1, CountTo DEF Saved
<1>9. ASSUME NEW d \in 1..m
      PROVE  Saved(d) =< Saved(m) /\ (OnShadow(d) => Saved(d) >= 1)
  <2>1. d \in 1..m + 1 /\ d \in Nat /\ d - 1 \in Nat /\ (d - 1) + 1 = d
    OBVIOUS
  <2>2. Saved(d) =< Saved(m)
    BY <1>3, <1>5, <2>1, CountTo DEF Saved
  <2>3. ASSUME OnShadow(d) PROVE Saved(d) >= 1
    <3> DEFINE A == {e \in 1..d : OnShadow(e)}
    <3>1. d \in A
      BY <2>1, <2>3
    <3>2. IsFiniteSet(A)
      <4>1. IsFiniteSet(1..d)
        BY <2>1, FS_Interval
      <4> QED
        BY <4>1, FS_Subset
    <3>3. Cardinality(A) \in Nat /\ Cardinality(A) # 0
      BY <3>1, <3>2, FS_CardinalityType, FS_EmptySet
    <3> QED
      BY <3>3 DEF Saved
  <2> QED
    BY <2>2, <2>3
<1> QED
  BY <1>6, <1>7, <1>8, <1>9

\* What does not depend on the instruction.
LEMMA Steady ==
    ASSUME MachineInv, NEW b, b >= 4,
           UNCHANGED frames, stage' = "run",
           Sound(regs', mem', b), Kept(mem, mem', b), regs'["sp"] \in 0..StackSize,
           shadow' \in Seq(Addr),
           pc.part \in {"prologue", "epilogue"}, pc' = [pc EXCEPT !.i = @ + 1],
           pc.i =< 11,
           b = IF pc.part = "prologue" THEN BodySp(Len(frames)) ELSE Current.sp
    PROVE  StillInv' /\ MachineTypes' /\ FrameInv' /\ SavedInv' /\ BodyInv'
<1>1. FrameInv /\ MachineTypes /\ SavedInv
  BY DEF MachineInv
<1>2. /\ pc'.part = pc.part /\ pc'.i = pc.i + 1 /\ pc.i \in 1..11
      /\ pc' \in [part : {"prologue", "body", "epilogue", "lost"}, i : 1..12]
  BY <1>1 DEF MachineTypes
<1>3. StillInv' /\ BodyInv'
  BY <1>2 DEF StillInv, BodyInv
<1>4. MachineTypes'
  BY <1>1, <1>2 DEF MachineTypes, Sound
<1>5. FrameInv'
  BY <1>1, <1>2 DEF FrameInv
<1>6. SavedInv'
  <2> SUFFICES ASSUME NEW d \in 2..Len(frames), frames[d].fn \notin Leaf,
                      d < Len(frames) \/ pc.part \in {"prologue", "body"}
               PROVE  mem'[frames[d].sp - 2] = frames[d].x29
    BY <1>2 DEF SavedInv
  <2>1. mem[frames[d].sp - 2] = frames[d].x29
    BY <1>1 DEF SavedInv
  <2>2. /\ Len(frames) \in Nat /\ Len(frames) >= 2 /\ StackSize \in Nat
        /\ frames[d].sp \in 8..StackSize
    BY <1>1, Place
  <2>3. frames[d].sp - 2 >= b /\ b \in Int
    <3>1. CASE d < Len(frames)
      <4>1. d \in 2..Len(frames) - 1
        BY <2>2, <3>1
      <4>2. frames[d].sp - 2 >= Current.sp /\ Current.sp \in 8..StackSize
        BY <1>1, <2>2, <4>1, Place
      <4>3. b = Current.sp \/ b = Current.sp - 2
        BY <1>1, <2>2, Place
      <4> QED
        BY <2>2, <4>2, <4>3
    <3>2. CASE ~ (d < Len(frames))
      <4>1. d = Len(frames) /\ pc.part = "prologue" /\ Current = frames[d]
        BY <1>1, <2>2, <3>2, Place
      <4>2. b = Current.sp - 2
        BY <1>1, <2>2, <4>1, Place
      <4> QED
        BY <2>2, <4>1, <4>2
    <3> QED
      BY <3>1, <3>2
  <2>4. frames[d].sp - 2 \in Words
    BY <2>2 DEF Words
  <2> QED
    BY <2>1, <2>3, <2>4 DEF Kept
<1> QED
  BY <1>3, <1>4, <1>5, <1>6

\* Where the code stands when an instruction of it is next.
LEMMA Next7 ==
    ASSUME MachineInv, Running, ~ Done
    PROVE  /\ ~ Untouched(Current.fn) /\ pc.i \in 1..11 /\ Len(frames) >= 2
           /\ pc.part = "prologue" => Code[pc.part] = Prologue(Current.fn)
           /\ pc.part = "epilogue" => Code[pc.part] = Epilogue(Current.fn)
<1>1. /\ pc.part = "prologue" => Code[pc.part] = Prologue(Current.fn)
      /\ pc.part = "epilogue" => Code[pc.part] = Epilogue(Current.fn)
  BY DEF Code
<1>2. pc.i =< Len(Code[pc.part]) /\ pc.i \in 1..12
  BY DEF Done, MachineInv, MachineTypes
<1>3. Len(<< >>) = 0
  OBVIOUS
<1>4. ~ Untouched(Current.fn)
  <2> SUFFICES ASSUME Untouched(Current.fn) PROVE FALSE
    OBVIOUS
  <2>1. Prologue(Current.fn) = << >> /\ Epilogue(Current.fn) = << >>
    BY DEF Prologue, Epilogue
  <2> QED
    BY <1>1, <1>2, <1>3, <2>1 DEF Running
<1>5. pc.i \in 1..11
  <2>1. Len(Prologue(Current.fn)) = 11 /\ Len(Epilogue(Current.fn)) = 11
    BY <1>4, Inserted
  <2>2. Len(Code[pc.part]) = 11
    BY <1>1, <2>1 DEF Running
  <2> QED
    BY <1>2, <2>2
<1>6. Len(frames) >= 2
  BY DEF Running, MachineInv, FrameInv
<1> QED
  BY <1>1, <1>4, <1>5, <1>6

LEMMA ShadowPlain ==
    ASSUME ShadowInStep, FrameInv, UNCHANGED << frames, shadow, instrumented, functionNames >>,
           pc.part \in {"prologue", "epilogue"}, pc.i \in 1..11, pc.i # 7,
           pc' = [pc EXCEPT !.i = @ + 1], MachineTypes
    PROVE  ShadowInStep'
<1>1. pc'.part = pc.part /\ pc'.i = pc.i + 1
  BY DEF MachineTypes
<1>2. \A d : OnStack(d)' <=> OnStack(d)
  BY <1>1, Built DEF OnStack
<1>3. \A d : OnShadow(d)' <=> OnShadow(d)
  BY <1>2, SavedAt, SavedAtNext
<1> QED
  BY <1>3, ShadowSame

LEMMA PlainStep ==
    ASSUME MachineInv, Running, ~ Done, stage' = "run",
           UNCHANGED << frames, shadow, instrumented, functionNames >>,
           pc.i # 7, pc' = [pc EXCEPT !.i = @ + 1],
           Effect(Code[pc.part][pc.i], regs, mem, regs', mem')
    PROVE  MachineInv'
<1> DEFINE b == IF pc.part = "prologue" THEN BodySp(Len(frames)) ELSE Current.sp
<1>1. /\ MachineTypes /\ FrameInv /\ PrologueInv /\ EpilogueInv /\ ShadowInStep
  BY DEF MachineInv
<1>2. /\ ~ Untouched(Current.fn) /\ pc.i \in 1..11 /\ Len(frames) >= 2
      /\ pc.part \in {"prologue", "epilogue"}
  BY Next7 DEF Running
<1>3. /\ pc'.part = pc.part /\ pc'.i = pc.i + 1
  BY <1>1 DEF MachineTypes
<1>4. b \in 6..StackSize /\ StackSize \in Nat
  BY <1>1, <1>2, Place
<1>5. Sound(regs, mem, b)
  BY <1>1, <1>4 DEF Sound, MachineTypes
<1>6. /\ Current' = Current /\ BodySp(Len(frames))' = BodySp(Len(frames))
      /\ BodyX29(Current)' = BodyX29(Current) /\ Len(frames') = Len(frames)
      /\ Chosen' = Chosen /\ ~ Untouched(Current.fn)'
  BY <1>2, Built DEF Current, BodySp, BodyX29
<1>7. ShadowInStep'
  BY <1>1, <1>2, ShadowPlain
<1>8. CASE pc.part = "prologue"
  <2> DEFINE x29 == BodyX29(Current)
             x0 == Argument(Len(frames) - 1)
  <2>1. Code[pc.part] = Prologue(Current.fn) /\ b = BodySp(Len(frames))
    BY <1>8, Next7
  <2>2. /\ Sound(regs', mem', b) /\ Kept(mem, mem', b) /\ regs'["sp"] \in {b, b - 4}
        /\ pc'.i =< 7 => Pushed(regs', mem', pc'.i, b, Current.ret, x29, x0)
        /\ pc'.i >= 8 => Restored(regs', mem', pc'.i, b, Current.ret, x29, x0)
    <3>1. CASE pc.i \in 1..6
      <4>1. Pushed(regs, mem, pc.i, b, Current.ret, x29, x0)
        BY <1>1, <1>8, <2>1, <3>1 DEF PrologueInv
      <4>2. Code[pc.part][pc.i] = PushCode(pc.i)
        BY <1>2, <2>1, <3>1, Inserted
      <4>3. /\ Sound(regs', mem', b) /\ Kept(mem, mem', b)
            /\ Pushed(regs', mem', pc.i + 1, b, Current.ret, x29, x0)
        BY <1>5, <3>1, <4>1, <4>2, PushStep
      <4>4. regs'["sp"] \in {b, b - 4}
        BY <4>3 DEF Pushed
      <4> QED
        BY <1>3, <3>1, <4>3, <4>4
    <3>2. CASE pc.i \in 8..11
      <4>1. Restored(regs, mem, pc.i, b, Current.ret, x29, x0)
        BY <1>1, <1>8, <2>1, <3>2 DEF PrologueInv
      <4>2. Code[pc.part][pc.i] = RestoreCode(pc.i)
        BY <1>2, <2>1, <3>2, Inserted
      <4>3. /\ Sound(regs', mem', b) /\ Kept(mem, mem', b)
            /\ Restored(regs', mem', pc.i + 1, b, Current.ret, x29, x0)
        BY <1>5, <3>2, <4>1, <4>2, RestoreStep
      <4>4. regs'["sp"] \in {b, b - 4}
        BY <4>3 DEF Restored
      <4> QED
        BY <1>3, <3>2, <4>3, <4>4
    <3> QED
      BY <1>2, <3>1, <3>2
  <2>3. Current.fn \notin Leaf => mem'[Current.sp - 1] = Current.ret
    <3> SUFFICES ASSUME Current.fn \notin Leaf PROVE mem'[Current.sp - 1] = Current.ret
      OBVIOUS
    <3>1. b = Current.sp - 2 /\ Current.sp \in 8..StackSize
      BY <1>1, <1>2, <2>1, Place
    <3>2. Current.sp - 1 \in Words /\ Current.sp - 1 >= b
      BY <1>4, <3>1 DEF Words
    <3>3. mem[Current.sp - 1] = Current.ret
      BY <1>1, <1>8 DEF PrologueInv
    <3> QED
      BY <2>2, <3>2, <3>3 DEF Kept
  <2>4. PrologueInv'
    <3>1. /\ pc'.i =< 7 => Pushed(regs', mem', pc'.i, BodySp(Len(frames))', Current'.ret,
                                  BodyX29(Current)', Argument(Len(frames') - 1))
          /\ pc'.i >= 8 => Restored(regs', mem', pc'.i, BodySp(Len(frames))', Current'.ret,
                                    BodyX29(Current)', Argument(Len(frames') - 1))
      BY <1>6, <2>1, <2>2
    <3>2. Current'.fn \notin Leaf => mem'[Current'.sp - 1] = Current'.ret
      BY <1>6, <2>3
    <3> QED
      BY <1>6, <3>1, <3>2 DEF PrologueInv
  <2>5. EpilogueInv'
    BY <1>3, <1>8 DEF EpilogueInv
  <2>6. StillInv' /\ MachineTypes' /\ FrameInv' /\ SavedInv' /\ BodyInv'
    <3>1. regs'["sp"] \in 0..StackSize /\ b >= 4
      <4> HIDE DEF b
      <4> QED
        BY <1>4, <2>2
    <3>2. shadow' \in Seq(Addr)
      BY <1>1 DEF MachineTypes
    <3> QED
      BY <1>2, <2>2, <3>1, <3>2, Steady
  <2> QED
    BY <1>7, <2>4, <2>5, <2>6 DEF MachineInv
<1>9. CASE pc.part = "epilogue"
  <2> DEFINE x0 == Result(Len(frames))
             known == Current.fn \in Chosen
  <2>1. Code[pc.part] = Epilogue(Current.fn) /\ b = Current.sp
    BY <1>9, Next7
  <2>2. /\ Sound(regs', mem', b) /\ Kept(mem, mem', b) /\ regs'["sp"] \in {b, b - 4}
        /\ pc'.i =< 7 => Pushed(regs', mem', pc'.i, b, regs'["x30"], Current.x29, x0)
        /\ pc'.i >= 8 => Fetched(regs', mem', pc'.i, b, known, Current.ret, Current.x29, x0)
    <3>1. CASE pc.i \in 1..6
      <4>1. Pushed(regs, mem, pc.i, b, regs["x30"], Current.x29, x0)
        BY <1>1, <1>9, <2>1, <3>1 DEF EpilogueInv
      <4>2. Code[pc.part][pc.i] = PushCode(pc.i)
        BY <1>2, <2>1, <3>1, Inserted
      <4>3. /\ Sound(regs', mem', b) /\ Kept(mem, mem', b)
            /\ Pushed(regs', mem', pc.i + 1, b, regs["x30"], Current.x29, x0)
        BY <1>5, <3>1, <4>1, <4>2, PushStep
      <4>4. regs'["sp"] \in {b, b - 4} /\ regs'["x30"] = regs["x30"]
        BY <4>3 DEF Pushed
      <4> QED
        BY <1>3, <3>1, <4>3, <4>4
    <3>2. CASE pc.i \in 8..11
      <4>1. Fetched(regs, mem, pc.i, b, known, Current.ret, Current.x29, x0)
        BY <1>1, <1>9, <2>1, <3>2 DEF EpilogueInv
      <4>2. Code[pc.part][pc.i] = FetchCode(pc.i)
        BY <1>2, <2>1, <3>2, Inserted
      <4>3. /\ Sound(regs', mem', b) /\ Kept(mem, mem', b)
            /\ Fetched(regs', mem', pc.i + 1, b, known, Current.ret, Current.x29, x0)
        BY <1>5, <3>2, <4>1, <4>2, FetchStep
      <4>4. regs'["sp"] \in {b, b - 4}
        BY <4>3 DEF Fetched
      <4> QED
        BY <1>3, <3>2, <4>3, <4>4
    <3> QED
      BY <1>2, <3>1, <3>2
  <2>3. EpilogueInv'
    BY <1>3, <1>6, <2>1, <2>2 DEF EpilogueInv
  <2>4. PrologueInv'
    BY <1>3, <1>9 DEF PrologueInv
  <2>5. StillInv' /\ MachineTypes' /\ FrameInv' /\ SavedInv' /\ BodyInv'
    <3>1. regs'["sp"] \in 0..StackSize /\ b >= 4
      <4> HIDE DEF b
      <4> QED
        BY <1>4, <2>2
    <3>2. shadow' \in Seq(Addr)
      BY <1>1 DEF MachineTypes
    <3> QED
      BY <1>2, <1>9, <2>2, <3>1, <3>2, Steady
  <2> QED
    BY <1>7, <2>3, <2>4, <2>5 DEF MachineInv
<1> QED
  BY <1>2, <1>8, <1>9

\* The call of the library.
LEMMA CallInstruction ==
    ASSUME MachineInv, Running, ~ Done, stage' = "run",
           UNCHANGED << frames, instrumented, functionNames >>,
           pc.i = 7, pc' = [pc EXCEPT !.i = @ + 1],
           Library(Code[pc.part][pc.i].f)
    PROVE  MachineInv'
<1> DEFINE b == IF pc.part = "prologue" THEN BodySp(Len(frames)) ELSE Current.sp
<1>1. /\ MachineTypes /\ FrameInv /\ PrologueInv /\ EpilogueInv /\ ShadowInStep
  BY DEF MachineInv
<1>0. PICK n : n = Len(frames)
  OBVIOUS
<1>2. /\ ~ Untouched(Current.fn) /\ n \in Nat /\ n >= 2 /\ n \in DOMAIN frames
      /\ DOMAIN frames = 1..n /\ Current = frames[n]
      /\ pc.part \in {"prologue", "epilogue"}
  BY <1>0, <1>1, Next7, Place DEF Running
<1>3. /\ pc'.part = pc.part /\ pc'.i = 8
  BY <1>1 DEF MachineTypes
<1>4. b \in 6..StackSize /\ StackSize \in Nat
  BY <1>0, <1>1, <1>2, Place
<1>5. Sound(regs, mem, b)
  BY <1>1, <1>4 DEF Sound, MachineTypes
<1>6. /\ Current' = Current /\ BodySp(Len(frames))' = BodySp(n)
      /\ BodyX29(Current)' = BodyX29(Current) /\ Len(frames') = n
      /\ Chosen' = Chosen /\ ~ Untouched(Current.fn)'
  BY <1>0, <1>2, Built DEF Current, BodySp, BodyX29
<1>7. mem' = Below(mem, regs["sp"])
  BY DEF Library
<1>8. PICK v \in Addr \cup {Junk} :
         /\ regs' = [regs EXCEPT !["x0"] = v, !["x1"] = Junk, !["x30"] = Junk]
         /\ CASE Code[pc.part][pc.i].f = "shadow_stack_save" ->
                     v = Junk /\ shadow' = Append(shadow, regs["x0"])
              [] Code[pc.part][pc.i].f = "shadow_stack_restore" ->
                     shadow # << >> /\ v = Last(shadow) /\ shadow' = Front(shadow)
              [] Code[pc.part][pc.i].f = "page_shadow_stack_save" ->
                     v = Junk /\ UNCHANGED shadow
              [] Code[pc.part][pc.i].f = "page_shadow_stack_restore" -> UNCHANGED shadow
  BY DEF Library
\* The calls below the last keep their places.
<1>15. LibraryEffect(regs, mem, regs', mem', v)
  BY <1>7, <1>8 DEF LibraryEffect
<1>9. \A d \in 1..n - 1 : (OnShadow(d)' <=> OnShadow(d)) /\ Saved(d)' = Saved(d)
  <2>1. \A d \in 1..n - 1 : OnShadow(d)' <=> OnShadow(d)
    <3> TAKE d \in 1..n - 1
    <3>1. d # Len(frames) /\ d # Len(frames')
      BY <1>0, <1>2, <1>6
    <3> QED
      BY <1>6, <3>1 DEF OnShadow
  <2>2. ASSUME NEW d \in 1..n - 1 PROVE Saved(d)' = Saved(d)
    <3>1. \A e \in 1..d : e \in 1..n - 1
      BY <1>2
    <3> QED
      BY <2>1, <3>1, SavedSame
  <2> QED
    BY <2>1, <2>2
<1>10. Saved(n - 1)' = Saved(n - 1)
  <2>1. n - 1 \in 1..n - 1
    BY <1>2
  <2> QED
    BY <1>9, <2>1
<1>11. /\ Saved(n - 1) \in Nat
       /\ Saved(n) = Saved(n - 1) + (IF OnShadow(n) THEN 1 ELSE 0)
       /\ Saved(n)' = Saved(n - 1)' + (IF OnShadow(n)' THEN 1 ELSE 0)
       /\ \A d \in 1..n - 1 : OnShadow(d) => Saved(d) \in 1..Saved(n - 1)
  <2>1. n - 1 \in Nat /\ (n - 1) + 1 = n
    BY <1>2
  <2>2. \A d \in 1..n - 1 : d \in Nat /\ Saved(d) \in Nat
    BY SavedMore
  <2> QED
    BY <2>1, <2>2, SavedMore
<1>12. /\ shadow \in Seq(Addr) /\ Len(shadow) = Saved(n)
       /\ \A d \in 1..n : OnShadow(d) => shadow[Saved(d)] = frames[d].ret
  BY <1>0, <1>1, <1>2 DEF ShadowInStep, MachineTypes
<1>13. CASE pc.part = "prologue"
  <2> DEFINE x29 == BodyX29(Current)
             x0 == Argument(n - 1)
  <2>1. Code[pc.part][pc.i] = Bl(SaveCall(Current.fn)) /\ b = BodySp(n)
    BY <1>0, <1>2, <1>13, Next7, Inserted
  <2>2. Code[pc.part][pc.i].f = SaveCall(Current.fn)
    BY <2>1 DEF Bl
  <2>3. Pushed(regs, mem, 7, b, Current.ret, x29, x0)
    BY <1>0, <1>1, <1>13, <2>1 DEF PrologueInv
  <2>4. /\ Sound(regs', mem', b) /\ Kept(mem, mem', b)
        /\ Restored(regs', mem', 8, b, Current.ret, x29, x0)
    <3>1. /\ Sound(regs', mem', b) /\ Kept(mem, mem', b) /\ regs'["sp"] = b - 4
          /\ mem'[b - 4] = Current.ret /\ mem'[b - 3] = x29 /\ mem'[b - 2] = x0
      BY <1>5, <1>15, <2>3, LibraryCall
    <3> QED
      BY <3>1 DEF Restored
  <2>5. Current.fn \notin Leaf => mem'[Current.sp - 1] = Current.ret
    <3> SUFFICES ASSUME Current.fn \notin Leaf PROVE mem'[Current.sp - 1] = Current.ret
      OBVIOUS
    <3>1. b = Current.sp - 2 /\ Current.sp \in 8..StackSize
      BY <1>0, <1>1, <1>2, <2>1, Place
    <3>2. Current.sp - 1 \in Words /\ Current.sp - 1 >= b
      BY <1>4, <3>1 DEF Words
    <3>3. mem[Current.sp - 1] = Current.ret
      BY <1>1, <1>13 DEF PrologueInv
    <3> QED
      BY <2>4, <3>2, <3>3 DEF Kept
  <2>6. PrologueInv'
    BY <1>0, <1>3, <1>6, <2>1, <2>4, <2>5 DEF PrologueInv
  <2>7. EpilogueInv'
    BY <1>3, <1>13 DEF EpilogueInv
  <2>8. regs["x0"] = Current.ret /\ Current.ret \in Addr
    BY <1>0, <1>1, <1>2, <2>3, Place DEF Pushed
  <2>9. shadow' = IF Current.fn \in Chosen THEN Append(shadow, Current.ret) ELSE shadow
    BY <1>8, <2>2, <2>8 DEF SaveCall
  <2>10. /\ ~ OnShadow(n)
         /\ OnShadow(n)' <=> Current.fn \in Chosen
    BY <1>0, <1>2, <1>3, <1>6, <1>13, SavedAt, SavedAtNext DEF OnStack
  <2>11. shadow' \in Seq(Addr)
    BY <1>12, <2>8, <2>9
  <2>12. ShadowInStep'
    <3>1. Len(shadow') = Saved(n)'
      BY <1>10, <1>11, <1>12, <2>9, <2>10
    <3>2. ASSUME NEW d \in 1..n, OnShadow(d)' PROVE shadow'[Saved(d)'] = frames[d].ret
      <4>1. CASE d = n
        <5>1. shadow' = Append(shadow, Current.ret) /\ Saved(n)' = Len(shadow) + 1
          BY <1>10, <1>11, <1>12, <2>9, <2>10, <3>2, <4>1
        <5> QED
          BY <1>2, <1>12, <4>1, <5>1
      <4>2. CASE d # n
        <5>1. d \in 1..n - 1
          BY <1>2, <4>2
        <5>2. OnShadow(d) /\ Saved(d)' = Saved(d) /\ Saved(d) \in 1..Len(shadow)
          BY <1>9, <1>11, <1>12, <2>10, <3>2, <5>1
        <5>3. shadow'[Saved(d)] = shadow[Saved(d)]
          BY <1>12, <2>9, <5>2
        <5> QED
          BY <1>12, <5>2, <5>3
      <4> QED
        BY <4>1, <4>2
    <3> QED
      BY <1>0, <1>2, <1>6, <3>1, <3>2 DEF ShadowInStep
  <2>13. StillInv' /\ MachineTypes' /\ FrameInv' /\ SavedInv' /\ BodyInv'
    <3>1. regs'["sp"] \in 0..StackSize /\ b >= 4
      BY <1>4, <2>4 DEF Restored
    <3> QED
      BY <1>13, <2>4, <2>11, <3>1, Steady
  <2> QED
    BY <2>6, <2>7, <2>12, <2>13 DEF MachineInv
<1>14. CASE pc.part = "epilogue"
  <2> DEFINE x0 == Result(n)
             known == Current.fn \in Chosen
  <2>1. Code[pc.part][pc.i] = Bl(RestoreCall(Current.fn)) /\ b = Current.sp
    BY <1>2, <1>14, Next7, Inserted
  <2>2. Code[pc.part][pc.i].f = RestoreCall(Current.fn)
    BY <2>1 DEF Bl
  <2>3. Pushed(regs, mem, 7, b, regs["x30"], Current.x29, x0)
    BY <1>0, <1>1, <1>14, <2>1 DEF EpilogueInv
  <2>4. /\ OnShadow(n) <=> Current.fn \in Chosen
        /\ ~ OnShadow(n)'
    BY <1>0, <1>2, <1>3, <1>6, <1>14, SavedAt, SavedAtNext DEF OnStack
  <2>5. IF Current.fn \in Chosen
        THEN shadow # << >> /\ v = Last(shadow) /\ shadow' = Front(shadow)
        ELSE shadow' = shadow
    BY <1>8, <2>2 DEF RestoreCall
  <2>6. known => v = Current.ret
    <3> SUFFICES ASSUME known PROVE v = Current.ret
      OBVIOUS
    <3>1. v = shadow[Saved(n)] /\ OnShadow(n) /\ n \in 1..n
      BY <1>2, <1>12, <2>4, <2>5 DEF Last
    <3> QED
      BY <1>2, <1>12, <3>1
  <2>7. /\ Sound(regs', mem', b) /\ Kept(mem, mem', b)
        /\ Fetched(regs', mem', 8, b, known, Current.ret, Current.x29, x0)
    <3>1. /\ Sound(regs', mem', b) /\ Kept(mem, mem', b)
          /\ regs'["sp"] = b - 4 /\ regs'["x0"] = v
          /\ mem'[b - 3] = Current.x29 /\ mem'[b - 2] = x0
      BY <1>5, <1>15, <2>3, LibraryCall
    <3> QED
      BY <2>6, <3>1 DEF Fetched
  <2>8. EpilogueInv'
    BY <1>0, <1>3, <1>6, <2>1, <2>7 DEF EpilogueInv
  <2>9. PrologueInv'
    BY <1>3, <1>14 DEF PrologueInv
  <2>10. /\ shadow' \in Seq(Addr) /\ Len(shadow') = Saved(n - 1)
         /\ \A k \in 1..Saved(n - 1) : shadow'[k] = shadow[k]
    <3>1. CASE Current.fn \in Chosen
      <4>1. shadow' = SubSeq(shadow, 1, Len(shadow) - 1) /\ Len(shadow) - 1 = Saved(n - 1)
        BY <1>11, <1>12, <2>4, <2>5, <3>1 DEF Front
      <4> QED
        BY <1>11, <1>12, <4>1, SubSeqProperties
    <3>2. CASE Current.fn \notin Chosen
      BY <1>11, <1>12, <2>4, <2>5, <3>2
    <3> QED
      BY <3>1, <3>2
  <2>11. ShadowInStep'
    <3>1. Len(shadow') = Saved(n)'
      BY <1>10, <1>11, <2>4, <2>10
    <3>2. ASSUME NEW d \in 1..n, OnShadow(d)' PROVE shadow'[Saved(d)'] = frames[d].ret
      <4>1. d \in 1..n - 1
        BY <1>2, <2>4, <3>2
      <4>2. OnShadow(d) /\ Saved(d)' = Saved(d) /\ Saved(d) \in 1..Saved(n - 1)
        BY <1>9, <1>11, <3>2, <4>1
      <4> QED
        BY <1>12, <2>10, <4>2
    <3> QED
      BY <1>0, <1>2, <1>6, <3>1, <3>2 DEF ShadowInStep
  <2>12. StillInv' /\ MachineTypes' /\ FrameInv' /\ SavedInv' /\ BodyInv'
    <3>1. regs'["sp"] \in 0..StackSize /\ b >= 4
      BY <1>4, <2>7 DEF Fetched
    <3> QED
      BY <1>14, <2>7, <2>10, <3>1, Steady
  <2> QED
    BY <2>8, <2>9, <2>11, <2>12 DEF MachineInv
<1> QED
  BY <1>2, <1>13, <1>14

LEMMA InstructionStep ==
    ASSUME MachineInv, Instruction, stage' = "run", UNCHANGED << instrumented, functionNames >>
    PROVE  MachineInv'
<1>1. /\ Running /\ ~ Done /\ UNCHANGED frames /\ pc' = [pc EXCEPT !.i = @ + 1]
  BY DEF Instruction
<1> DEFINE c == Code[pc.part][pc.i]
<1>2. \/ Effect(c, regs, mem, regs', mem') /\ shadow' = shadow /\ c.op # "bl"
      \/ c.op = "bl" /\ Library(c.f)
  BY DEF Instruction, Effect
<1>3. c.op = "bl" <=> pc.i = 7
  <2>1. /\ ~ Untouched(Current.fn) /\ pc.i \in 1..11
        /\ pc.part \in {"prologue", "epilogue"}
    BY <1>1, Next7 DEF Running
  <2>2. CASE pc.part = "prologue"
    <3>0. \A i \in 1..11 : Prologue(Current.fn)[i].op = "bl" <=> i = 7
      <4>1. PICK f : f = Current.fn
        OBVIOUS
      <4>2. \A i \in 1..11 : Prologue(f)[i].op = "bl" <=> i = 7
        BY <2>1, <4>1, Inserted
      <4> QED
        BY <4>1, <4>2
    <3>1. c = Prologue(Current.fn)[pc.i]
      BY <1>1, <2>2, Next7
    <3> QED
      BY <2>1, <3>0, <3>1
  <2>3. CASE pc.part = "epilogue"
    <3>0. \A i \in 1..11 : Epilogue(Current.fn)[i].op = "bl" <=> i = 7
      <4>1. PICK f : f = Current.fn
        OBVIOUS
      <4>2. \A i \in 1..11 : Epilogue(f)[i].op = "bl" <=> i = 7
        BY <2>1, <4>1, Inserted
      <4> QED
        BY <4>1, <4>2
    <3>1. c = Epilogue(Current.fn)[pc.i]
      BY <1>1, <2>3, Next7
    <3> QED
      BY <2>1, <3>0, <3>1
  <2> QED
    BY <2>1, <2>2, <2>3
<1>4. CASE pc.i # 7
  BY <1>1, <1>2, <1>3, <1>4, PlainStep
<1>5. CASE pc.i = 7
  BY <1>1, <1>2, <1>3, <1>5, CallInstruction
<1> QED
  BY <1>4, <1>5

\* At the end of the inserted code.
LEMMA DoneAt ==
    ASSUME MachineInv, Done
    PROVE  /\ pc.i = IF Untouched(Current.fn) THEN 1 ELSE 12
           /\ Len(frames) >= 2 /\ Len(frames) \in Nat
           /\ pc.part = "prologue" =>
                 /\ regs["sp"] = BodySp(Len(frames)) /\ regs["x29"] = BodyX29(Current)
                 /\ regs["x30"] = Current.ret /\ regs["x0"] = Argument(Len(frames) - 1)
           /\ pc.part = "epilogue" =>
                 /\ regs["sp"] = Current.sp /\ regs["x29"] = Current.x29
                 /\ regs["x0"] = Result(Len(frames))
                 /\ Current.fn \in Chosen => regs["x30"] = Current.ret
<1>1. MachineTypes /\ FrameInv /\ PrologueInv /\ EpilogueInv
  BY DEF MachineInv
<1>2. /\ pc.part \in {"prologue", "epilogue"} /\ Len(frames) >= 2 /\ Len(frames) \in Nat
      /\ pc.i \in 1..12
  BY <1>1, Place DEF Done, Running, MachineTypes, FrameInv
<1>3. pc.i = IF Untouched(Current.fn) THEN 1 ELSE 12
  <2>1. CASE Untouched(Current.fn)
    BY <1>1, <1>2, <2>1 DEF PrologueInv, EpilogueInv
  <2>2. CASE ~ Untouched(Current.fn)
    <3>1. Len(Prologue(Current.fn)) = 11 /\ Len(Epilogue(Current.fn)) = 11
      BY <2>2, Inserted
    <3>2. Len(Code[pc.part]) = 11
      BY <1>2, <3>1 DEF Code
    <3> QED
      BY <1>2, <2>2, <3>2 DEF Done
  <2> QED
    BY <2>1, <2>2
<1>4. ASSUME pc.part = "prologue"
      PROVE  /\ regs["sp"] = BodySp(Len(frames)) /\ regs["x29"] = BodyX29(Current)
             /\ regs["x30"] = Current.ret /\ regs["x0"] = Argument(Len(frames) - 1)
  BY <1>1, <1>3, <1>4 DEF PrologueInv, Pushed, Restored
<1>5. ASSUME pc.part = "epilogue"
      PROVE  /\ regs["sp"] = Current.sp /\ regs["x29"] = Current.x29
             /\ regs["x0"] = Result(Len(frames))
             /\ Current.fn \in Chosen => regs["x30"] = Current.ret
  <2>1. Current.fn \in Chosen => ~ Untouched(Current.fn)
    BY DEF Chosen
  <2> QED
    BY <1>1, <1>3, <1>5, <2>1 DEF EpilogueInv, Pushed, Fetched
<1> QED
  BY <1>2, <1>3, <1>4, <1>5

LEMMA BeginStep ==
    ASSUME MachineInv, Begin, stage' = "run", UNCHANGED << instrumented, functionNames >>
    PROVE  MachineInv'
<1>1. /\ Done /\ pc.part = "prologue" /\ pc' = At("body", 1)
      /\ UNCHANGED << regs, mem, shadow, frames >>
  BY DEF Begin
<1>2. MachineTypes /\ FrameInv /\ SavedInv /\ ShadowInStep
  BY DEF MachineInv
<1>3. pc'.part = "body" /\ pc'.i = 1 /\ pc' \in [part : {"prologue", "body", "epilogue", "lost"}, i : 1..12]
  BY <1>1 DEF At
<1>4. /\ pc.i = IF Untouched(Current.fn) THEN 1 ELSE 12
      /\ Len(frames) \in Nat /\ Len(frames) >= 2
      /\ regs["sp"] = BodySp(Len(frames)) /\ regs["x29"] = BodyX29(Current)
  BY <1>1, DoneAt
<1>5. MachineTypes' /\ FrameInv' /\ StillInv'
  BY <1>1, <1>2, <1>3, <1>4 DEF MachineTypes, FrameInv, StillInv
<1>6. SavedInv'
  BY <1>1, <1>2, <1>3 DEF SavedInv
<1>7. PrologueInv' /\ EpilogueInv'
  BY <1>3 DEF PrologueInv, EpilogueInv
<1>8. BodyInv'
  <2>1. BodyX29(Current) \in 0..StackSize
    BY <1>2, <1>4, Place
  <2>2. BodySp(Len(frames))' = BodySp(Len(frames)) /\ Current' = Current
    BY <1>1 DEF BodySp, Current
  <2> QED
    BY <1>1, <1>4, <2>1, <2>2 DEF BodyInv, BodyX29
<1>9. ShadowInStep'
  <2>1. Chosen' = Chosen /\ Current = frames[Len(frames)]
    BY Built DEF Current, Last
  <2>2. \A d : OnStack(d)' <=> OnStack(d)
    BY <1>1, <1>3, <1>4, <2>1 DEF OnStack, Chosen
  <2>3. \A d : OnShadow(d)' <=> OnShadow(d)
    BY <2>2, SavedAt, SavedAtNext
  <2> QED
    BY <1>1, <1>2, <2>3, ShadowSame
<1> QED
  BY <1>5, <1>6, <1>7, <1>8, <1>9 DEF MachineInv

\* The frames of the callers are above the stack pointer.
LEMMA Above ==
    ASSUME MachineInv, NEW d \in 2..Len(frames), frames[d].fn \notin Leaf, pc.part # "lost",
           d < Len(frames) \/ pc.part \in {"prologue", "body"}
    PROVE  frames[d].sp - 2 >= regs["sp"] /\ frames[d].sp - 2 \in Words /\ regs["sp"] \in Int
<1>1. /\ MachineTypes /\ FrameInv /\ PrologueInv /\ EpilogueInv /\ BodyInv
  BY DEF MachineInv
<1>2. /\ Len(frames) \in Nat /\ Len(frames) >= 2 /\ StackSize \in Nat /\ d \in Int
      /\ Current = frames[Len(frames)] /\ Current.sp \in 8..StackSize
      /\ BodySp(Len(frames)) = IF Current.fn \in Leaf THEN Current.sp ELSE Current.sp - 2
      /\ frames[d].sp \in 8..StackSize
  BY <1>1, Place
<1>3. frames[d].sp - 2 \in Words /\ regs["sp"] \in Int
  BY <1>1, <1>2 DEF Words, MachineTypes
<1>4. d < Len(frames) => frames[d].sp - 2 >= Current.sp
  <2> SUFFICES ASSUME d < Len(frames) PROVE frames[d].sp - 2 >= Current.sp
    OBVIOUS
  <2>1. d \in 2..Len(frames) - 1
    BY <1>2
  <2> QED
    BY <1>1, <2>1, Place
<1>5. /\ d >= Len(frames) => d = Len(frames)
  BY <1>2
<1>6. pc.i \in 1..12 /\ pc.part \in {"prologue", "body", "epilogue"}
  BY <1>1 DEF MachineTypes
<1>7. CASE pc.part = "epilogue"
  <2>1. regs["sp"] =< Current.sp
    <3>1. CASE pc.i =< 7
      <4>1. Pushed(regs, mem, pc.i, Current.sp, regs["x30"], Current.x29, Result(Len(frames)))
        BY <1>1, <1>7, <3>1 DEF EpilogueInv
      <4> QED
        BY <1>2, <4>1 DEF Pushed
    <3>2. CASE pc.i >= 8
      <4>1. Fetched(regs, mem, pc.i, Current.sp, Current.fn \in Chosen,
                    Current.ret, Current.x29, Result(Len(frames)))
        BY <1>1, <1>7, <3>2 DEF EpilogueInv
      <4> QED
        BY <1>2, <4>1 DEF Fetched
    <3> QED
      BY <1>6, <3>1, <3>2
  <2>2. d < Len(frames)
    BY <1>7
  <2> QED
    BY <1>2, <1>3, <1>4, <2>1, <2>2
<1>8. CASE pc.part \in {"prologue", "body"}
  <2>1. regs["sp"] =< BodySp(Len(frames))
    <3>1. CASE pc.part = "prologue"
      <4>1. CASE pc.i =< 7
        <5>1. Pushed(regs, mem, pc.i, BodySp(Len(frames)), Current.ret, BodyX29(Current),
                     Argument(Len(frames) - 1))
          BY <1>1, <3>1, <4>1 DEF PrologueInv
        <5> QED
          BY <1>2, <5>1 DEF Pushed
      <4>2. CASE pc.i >= 8
        <5>1. Restored(regs, mem, pc.i, BodySp(Len(frames)), Current.ret, BodyX29(Current),
                       Argument(Len(frames) - 1))
          BY <1>1, <3>1, <4>2 DEF PrologueInv
        <5> QED
          BY <1>2, <5>1 DEF Restored
      <4> QED
        BY <1>6, <4>1, <4>2
    <3>2. CASE pc.part = "body"
      BY <1>1, <1>2, <3>2 DEF BodyInv
    <3> QED
      BY <1>8, <3>1, <3>2
  <2>2. frames[d].sp - 2 >= BodySp(Len(frames))
    <3>1. CASE d < Len(frames)
      BY <1>2, <1>4, <3>1
    <3>2. CASE d = Len(frames)
      BY <1>2, <3>2
    <3> QED
      BY <1>2, <1>5, <3>1, <3>2
  <2> QED
    BY <1>2, <1>3, <2>1, <2>2
<1> QED
  BY <1>6, <1>7, <1>8

LEMMA SignalStep ==
    ASSUME MachineInv, Signal, stage' = "run", UNCHANGED << instrumented, functionNames >>
    PROVE  MachineInv'
<1>1. mem' = Below(mem, regs["sp"]) /\ UNCHANGED << regs, shadow, frames, pc >>
  BY DEF Signal
<1>2. /\ MachineTypes /\ FrameInv /\ SavedInv /\ PrologueInv /\ EpilogueInv /\ BodyInv
      /\ ShadowInStep
  BY DEF MachineInv
<1>3. mem' = [a \in Words |-> IF a < regs["sp"] THEN Junk ELSE mem[a]]
  BY <1>1, <1>2 DEF Below, MachineTypes
<1>4. \A a \in Words : a >= regs["sp"] => mem'[a] = mem[a]
  <2>1. regs["sp"] \in Int
    BY <1>2 DEF MachineTypes
  <2> QED
    BY <1>3, <2>1 DEF Words
<1>5. MachineTypes' /\ FrameInv' /\ StillInv'
  <2>1. mem' \in [Words -> Value]
    BY <1>2, <1>3, Sizes DEF MachineTypes
  <2> QED
    BY <1>1, <1>2, <2>1 DEF MachineTypes, FrameInv, StillInv
<1>6. SavedInv'
  <2> SUFFICES ASSUME NEW d \in 2..Len(frames), frames[d].fn \notin Leaf, pc.part # "lost",
                      d < Len(frames) \/ pc.part \in {"prologue", "body"}
               PROVE  mem'[frames[d].sp - 2] = frames[d].x29
    BY <1>1 DEF SavedInv
  <2>1. mem[frames[d].sp - 2] = frames[d].x29
    BY <1>2 DEF SavedInv
  <2> QED
    BY <1>4, <2>1, Above
<1>7. pc.i \in 1..12
  BY <1>2 DEF MachineTypes
<1>8. /\ Current' = Current /\ BodySp(Len(frames))' = BodySp(Len(frames))
      /\ BodyX29(Current)' = BodyX29(Current) /\ Chosen' = Chosen
      /\ Untouched(Current.fn)' <=> Untouched(Current.fn)
  BY <1>1, Built DEF Current, BodySp, BodyX29
<1>9. PrologueInv'
  <2> SUFFICES ASSUME pc.part = "prologue" PROVE PrologueInv'
    BY <1>1 DEF PrologueInv
  <2> DEFINE b == BodySp(Len(frames))
  <2>1. /\ b \in 6..StackSize /\ StackSize \in Nat /\ Len(frames) >= 2
        /\ Current.sp \in 8..StackSize /\ (Current.fn \notin Leaf => b = Current.sp - 2)
    BY <1>2, Place DEF FrameInv
  <2> HIDE DEF b
  <2>2. b - 4 \in Words /\ b - 3 \in Words /\ b - 2 \in Words
    BY <2>1 DEF Words
  <2>3. pc.i =< 7 => Pushed(regs, mem', pc.i, b, Current.ret,
                            BodyX29(Current), Argument(Len(frames) - 1))
    <3> SUFFICES ASSUME pc.i =< 7
                 PROVE  Pushed(regs, mem', pc.i, b, Current.ret,
                               BodyX29(Current), Argument(Len(frames) - 1))
      OBVIOUS
    <3>1. Pushed(regs, mem, pc.i, b, Current.ret,
                 BodyX29(Current), Argument(Len(frames) - 1))
      BY <1>2 DEF PrologueInv, b
    <3>2. regs["sp"] =< b /\ (pc.i >= 2 => regs["sp"] = b - 4)
      BY <1>7, <2>1, <3>1 DEF Pushed
    <3>3. pc.i >= 2 => /\ mem'[b - 4] = mem[b - 4] /\ mem'[b - 3] = mem[b - 3]
                       /\ mem'[b - 2] = mem[b - 2]
      BY <1>4, <2>1, <2>2, <3>2
    <3> QED
      BY <1>7, <3>1, <3>3 DEF Pushed
  <2>4. pc.i >= 8 => Restored(regs, mem', pc.i, b, Current.ret,
                              BodyX29(Current), Argument(Len(frames) - 1))
    <3> SUFFICES ASSUME pc.i >= 8
                 PROVE  Restored(regs, mem', pc.i, b, Current.ret,
                                 BodyX29(Current), Argument(Len(frames) - 1))
      OBVIOUS
    <3>1. Restored(regs, mem, pc.i, b, Current.ret,
                   BodyX29(Current), Argument(Len(frames) - 1))
      BY <1>2 DEF PrologueInv, b
    <3>2. pc.i =< 11 => regs["sp"] = b - 4
      BY <1>7, <3>1 DEF Restored
    <3>3. pc.i =< 11 => /\ mem'[b - 4] = mem[b - 4] /\ mem'[b - 3] = mem[b - 3]
                        /\ mem'[b - 2] = mem[b - 2]
      BY <1>4, <2>1, <2>2, <3>2
    <3> QED
      BY <3>1, <3>3 DEF Restored
  <2>5. Current.fn \notin Leaf => mem'[Current.sp - 1] = Current.ret
    <3> SUFFICES ASSUME Current.fn \notin Leaf PROVE mem'[Current.sp - 1] = Current.ret
      OBVIOUS
    <3>1. regs["sp"] = b \/ regs["sp"] = b - 4
      BY <1>2, <1>7 DEF PrologueInv, Pushed, Restored, b
    <3>2. Current.sp - 1 \in Words /\ Current.sp - 1 >= regs["sp"]
      BY <2>1, <3>1 DEF Words
    <3>3. mem[Current.sp - 1] = Current.ret
      BY <1>2 DEF PrologueInv
    <3> QED
      BY <1>4, <3>2, <3>3
  <2> QED
    BY <1>1, <1>2, <1>8, <2>3, <2>4, <2>5 DEF PrologueInv, b
<1>10. EpilogueInv'
  <2> SUFFICES ASSUME pc.part = "epilogue" PROVE EpilogueInv'
    BY <1>1 DEF EpilogueInv
  <2>1. Current.sp \in 8..StackSize /\ StackSize \in Nat
    BY <1>2, Place DEF FrameInv
  <2>2. Current.sp - 4 \in Words /\ Current.sp - 3 \in Words /\ Current.sp - 2 \in Words
    BY <2>1 DEF Words
  <2>3. pc.i =< 7 => Pushed(regs, mem', pc.i, Current.sp, regs["x30"],
                            Current.x29, Result(Len(frames)))
    <3> SUFFICES ASSUME pc.i =< 7
                 PROVE  Pushed(regs, mem', pc.i, Current.sp, regs["x30"],
                               Current.x29, Result(Len(frames)))
      OBVIOUS
    <3>1. Pushed(regs, mem, pc.i, Current.sp, regs["x30"],
                 Current.x29, Result(Len(frames)))
      BY <1>2 DEF EpilogueInv
    <3>2. regs["sp"] =< Current.sp /\ (pc.i >= 2 => regs["sp"] = Current.sp - 4)
      BY <1>7, <2>1, <3>1 DEF Pushed
    <3>3. pc.i >= 2 => /\ mem'[Current.sp - 4] = mem[Current.sp - 4]
                       /\ mem'[Current.sp - 3] = mem[Current.sp - 3]
                       /\ mem'[Current.sp - 2] = mem[Current.sp - 2]
      BY <1>4, <2>1, <2>2, <3>2
    <3> QED
      BY <1>7, <3>1, <3>3 DEF Pushed
  <2>4. pc.i >= 8 => Fetched(regs, mem', pc.i, Current.sp, Current.fn \in Chosen,
                             Current.ret, Current.x29, Result(Len(frames)))
    <3> SUFFICES ASSUME pc.i >= 8
                 PROVE  Fetched(regs, mem', pc.i, Current.sp, Current.fn \in Chosen,
                                Current.ret, Current.x29, Result(Len(frames)))
      OBVIOUS
    <3>1. Fetched(regs, mem, pc.i, Current.sp, Current.fn \in Chosen,
                  Current.ret, Current.x29, Result(Len(frames)))
      BY <1>2 DEF EpilogueInv
    <3>2. pc.i =< 11 => regs["sp"] = Current.sp - 4
      BY <1>7, <3>1 DEF Fetched
    <3>3. pc.i =< 11 => /\ mem'[Current.sp - 3] = mem[Current.sp - 3]
                        /\ mem'[Current.sp - 2] = mem[Current.sp - 2]
      BY <1>4, <2>1, <2>2, <3>2
    <3> QED
      BY <3>1, <3>3 DEF Fetched
  <2> QED
    BY <1>1, <1>2, <1>8, <2>3, <2>4 DEF EpilogueInv
<1>11. BodyInv'
  BY <1>1, <1>2, <1>8 DEF BodyInv
<1>12. ShadowInStep'
  <2>1. \A d : OnStack(d)' <=> OnStack(d)
    BY <1>1, <1>8 DEF OnStack
  <2>2. \A d : OnShadow(d)' <=> OnShadow(d)
    BY <2>1, SavedAt, SavedAtNext
  <2>3. CASE pc.part # "lost"
    BY <1>1, <1>2, <2>2, <2>3, ShadowSame
  <2>4. CASE pc.part = "lost"
    BY <1>1, <2>4 DEF ShadowInStep
  <2> QED
    BY <2>3, <2>4
<1> QED
  BY <1>5, <1>6, <1>9, <1>10, <1>11, <1>12 DEF MachineInv

LEMMA OverwriteStep ==
    ASSUME MachineInv, Overwrite, stage' = "run", UNCHANGED << instrumented, functionNames >>
    PROVE  MachineInv'
<1>1. PICK e \in 2..Len(frames), a \in Addr :
         frames[e].fn \notin Leaf /\ mem' = [mem EXCEPT ![frames[e].sp - 1] = a]
  BY DEF Overwrite
<1>2. pc.part = "body" /\ UNCHANGED << regs, shadow, frames, pc >>
  BY DEF Overwrite
<1>3. /\ MachineTypes /\ FrameInv /\ SavedInv /\ BodyInv /\ ShadowInStep
  BY DEF MachineInv
<1>4. MachineTypes' /\ FrameInv' /\ StillInv'
  <2>1. mem' \in [Words -> Value]
    BY <1>1, <1>3, Sizes DEF MachineTypes
  <2> QED
    BY <1>2, <1>3, <2>1 DEF MachineTypes, FrameInv, StillInv
<1>5. SavedInv'
  <2> SUFFICES ASSUME NEW d \in 2..Len(frames), frames[d].fn \notin Leaf
               PROVE  mem'[frames[d].sp - 2] = frames[d].x29
    BY <1>2 DEF SavedInv
  <2>1. mem[frames[d].sp - 2] = frames[d].x29
    BY <1>2, <1>3 DEF SavedInv
  <2>2. /\ frames[d].sp = StackSize - 2 * (d - 2) /\ frames[e].sp = StackSize - 2 * (e - 2)
        /\ StackSize \in Nat /\ d \in Int /\ e \in Int
    BY <1>3, Place DEF FrameInv
  <2>3. frames[d].sp - 2 # frames[e].sp - 1
    BY <2>2
  <2>4. frames[d].sp - 2 \in Words
    BY <1>2, Above
  <2> QED
    BY <1>1, <1>3, <2>1, <2>3, <2>4 DEF MachineTypes
<1>6. PrologueInv' /\ EpilogueInv'
  BY <1>2 DEF PrologueInv, EpilogueInv
<1>7. Chosen' = Chosen /\ Current' = Current /\ BodySp(Len(frames))' = BodySp(Len(frames))
  BY <1>2, Built DEF Current, BodySp
<1>8. BodyInv'
  BY <1>2, <1>3, <1>7 DEF BodyInv
<1>9. ShadowInStep'
  <2>1. \A d : OnStack(d)' <=> OnStack(d)
    BY <1>2, <1>7 DEF OnStack
  <2>2. \A d : OnShadow(d)' <=> OnShadow(d)
    BY <2>1, SavedAt, SavedAtNext
  <2> QED
    BY <1>2, <1>3, <2>2, ShadowSame
<1> QED
  BY <1>4, <1>5, <1>6, <1>8, <1>9 DEF MachineInv

LEMMA FinishStep ==
    ASSUME MachineInv, Finish, stage' = "run", UNCHANGED << instrumented, functionNames >>
    PROVE  MachineInv'
<1> DEFINE F == Current
<1>1. /\ pc.part = "body" /\ Len(frames) > 1 /\ pc' = At("epilogue", 1)
      /\ UNCHANGED << mem, shadow, frames >>
  BY DEF Finish
<1>2. regs' = [regs EXCEPT !["x0"] = Result(Len(frames)),
                           !["x30"] = IF F.fn \in Leaf THEN @ ELSE mem[regs["sp"] + 1],
                           !["x29"] = IF F.fn \in Leaf THEN @ ELSE mem[regs["sp"]],
                           !["sp"] = IF F.fn \in Leaf THEN @ ELSE regs["sp"] + 2]
  BY DEF Finish
<1>3. /\ MachineTypes /\ FrameInv /\ SavedInv /\ BodyInv /\ ShadowInStep
  BY DEF MachineInv
<1>4. pc'.part = "epilogue" /\ pc'.i = 1 /\ pc' \in [part : {"prologue", "body", "epilogue", "lost"}, i : 1..12]
  BY <1>1 DEF At
<1>5. /\ Len(frames) \in 2..Len(frames) /\ Len(frames) \in 1..MaxDepth + 1 /\ F = frames[Len(frames)]
      /\ F.sp \in 8..StackSize /\ StackSize \in Nat /\ F.x29 \in 0..StackSize
      /\ regs["sp"] = IF F.fn \in Leaf THEN F.sp ELSE F.sp - 2
  BY <1>1, <1>3, Place DEF BodyInv
<1>6. F.fn \notin Leaf => mem[F.sp - 2] = F.x29
  BY <1>1, <1>3, <1>5 DEF SavedInv
<1>7. F.fn \in Leaf => regs["x29"] = F.x29
  BY <1>1, <1>3 DEF BodyInv
<1>8. regs \in [Reg -> Value] /\ mem \in [Words -> Value] /\ Reg = {"x0", "x1", "x29", "x30", "sp"}
  BY <1>3 DEF MachineTypes, Reg
<1>9. /\ regs'["x0"] = Result(Len(frames)) /\ regs'["sp"] = F.sp /\ regs'["x29"] = F.x29
      /\ regs' \in [Reg -> Value]
  <2>1. Result(Len(frames)) \in Value /\ F.sp \in Value /\ F.x29 \in Value
    BY <1>5, Sizes
  <2>2. CASE F.fn \in Leaf
    <3>1. regs' = [regs EXCEPT !["x0"] = Result(Len(frames)), !["x30"] = regs["x30"],
                               !["x29"] = F.x29, !["sp"] = F.sp]
      BY <1>2, <1>5, <1>7, <2>2
    <3> QED
      BY <1>8, <2>1, <3>1
  <2>3. CASE F.fn \notin Leaf
    <3>1. regs["sp"] + 1 = F.sp - 1 /\ regs["sp"] = F.sp - 2 /\ regs["sp"] + 2 = F.sp
      BY <1>5, <2>3
    <3>2. mem[F.sp - 1] \in Value
      BY <1>5, <1>8 DEF Words
    <3>3. regs' = [regs EXCEPT !["x0"] = Result(Len(frames)), !["x30"] = mem[F.sp - 1],
                               !["x29"] = F.x29, !["sp"] = F.sp]
      BY <1>2, <1>6, <2>3, <3>1
    <3> QED
      BY <1>8, <2>1, <3>2, <3>3
  <2> QED
    BY <2>2, <2>3
<1>10. MachineTypes' /\ FrameInv' /\ StillInv'
  <2>1. regs'["sp"] \in 0..StackSize
    BY <1>5, <1>9
  <2> QED
    BY <1>1, <1>3, <1>4, <1>9, <2>1 DEF MachineTypes, FrameInv, StillInv
<1>11. SavedInv'
  BY <1>1, <1>3, <1>4 DEF SavedInv
<1>12. PrologueInv' /\ BodyInv'
  BY <1>4 DEF PrologueInv, BodyInv
<1>13. Current' = Current /\ Chosen' = Chosen
  BY <1>1, Built DEF Current
<1>14. EpilogueInv'
  <2>1. Pushed(regs', mem', 1, F.sp, regs'["x30"], F.x29, Result(Len(frames)))
    BY <1>9 DEF Pushed
  <2> QED
    BY <1>1, <1>4, <1>13, <2>1 DEF EpilogueInv
<1>15. ShadowInStep'
  <2>1. \A d : OnStack(d)' <=> OnStack(d)
    BY <1>1, <1>4, <1>13 DEF OnStack
  <2>2. \A d : OnShadow(d)' <=> OnShadow(d)
    BY <2>1, SavedAt, SavedAtNext
  <2> QED
    BY <1>1, <1>3, <2>2, ShadowSame
<1> QED
  BY <1>10, <1>11, <1>12, <1>14, <1>15 DEF MachineInv

LEMMA ReturnStep ==
    ASSUME MachineInv, Return, stage' = "run", UNCHANGED << instrumented, functionNames >>
    PROVE  MachineInv'
<1>1. Done /\ pc.part = "epilogue" /\ UNCHANGED << regs, mem, shadow >>
  BY DEF Return
<1>2. /\ MachineTypes /\ FrameInv /\ SavedInv /\ ShadowInStep
  BY DEF MachineInv
<1>3. PICK n : n = Len(frames)
  OBVIOUS
<1>4. /\ n \in Nat /\ n >= 2 /\ pc.i = IF Untouched(Current.fn) THEN 1 ELSE 12
      /\ regs["sp"] = Current.sp /\ regs["x29"] = Current.x29
      /\ Current = frames[n] /\ Current.x29 \in 0..StackSize /\ StackSize \in Nat
      /\ DOMAIN frames = 1..n /\ n =< MaxDepth + 1
  BY <1>1, <1>2, <1>3, DoneAt, Place
<1>5. CASE regs["x30"] # Current.ret
  <2>1. pc' = At("lost", 1) /\ UNCHANGED frames
    BY <1>5 DEF Return
  <2>2. pc'.part = "lost" /\ pc' \in [part : {"prologue", "body", "epilogue", "lost"}, i : 1..12]
    BY <2>1 DEF At
  <2>3. MachineTypes' /\ FrameInv' /\ StillInv'
    BY <1>1, <1>2, <1>3, <1>4, <2>1, <2>2 DEF MachineTypes, FrameInv, StillInv
  <2> QED
    BY <2>2, <2>3 DEF MachineInv, SavedInv, PrologueInv, EpilogueInv, BodyInv, ShadowInStep
<1>6. CASE regs["x30"] = Current.ret
  <2>1. pc' = At("body", 1) /\ frames' = Front(frames)
    BY <1>6 DEF Return
  <2>2. pc'.part = "body" /\ pc' \in [part : {"prologue", "body", "epilogue", "lost"}, i : 1..12]
    BY <2>1 DEF At
  <2>3. frames \in Seq([fn : Func, ret : Addr \cup {Junk}, x29 : 0..StackSize, sp : 0..StackSize])
    BY <1>2 DEF FrameInv
  <2>4. /\ frames' \in Seq([fn : Func, ret : Addr \cup {Junk}, x29 : 0..StackSize, sp : 0..StackSize])
        /\ Len(frames') = n - 1 /\ \A d \in 1..n - 1 : frames'[d] = frames[d]
        /\ DOMAIN frames' = 1..n - 1
    <3>1. frames' = SubSeq(frames, 1, n - 1)
      BY <1>3, <2>1 DEF Front
    <3>2. \A T : frames \in Seq(T) =>
             /\ frames' \in Seq(T) /\ Len(frames') = n - 1
             /\ \A d \in 1..n - 1 : frames'[d] = frames[d]
      BY <1>3, <1>4, <3>1, SubSeqProperties
    <3>3. /\ frames' \in Seq([fn : Func, ret : Addr \cup {Junk},
                             x29 : 0..StackSize, sp : 0..StackSize])
          /\ Len(frames') = n - 1 /\ \A d \in 1..n - 1 : frames'[d] = frames[d]
      BY <2>3, <3>2
    <3> QED
      BY <1>4, <3>3
  <2>5. MachineTypes' /\ StillInv'
    BY <1>1, <1>2, <2>2 DEF MachineTypes, StillInv
  <2>6. FrameInv'
    <3>1. Len(frames') \in 1..MaxDepth + 1
      BY <1>2, <1>4, <2>4, Sizes
    <3>2. frames'[1] = Frame(Root, Junk, Junk, StackSize)
      BY <1>2, <1>4, <2>4 DEF FrameInv
    <3>3. \A d \in 2..n - 1 : frames'[d] = frames[d] /\ d \in 2..n
      BY <1>4, <2>4
    <3>4. \A d \in 2..Len(frames') :
             /\ frames'[d].fn \notin Filtered /\ frames'[d].ret \in Addr
             /\ frames'[d].sp = StackSize - 2 * (d - 2)
      <4> TAKE d \in 2..Len(frames')
      <4>1. d \in 2..n - 1 /\ d \in 2..Len(frames)
        BY <1>3, <2>4, <3>3
      <4>2. /\ frames[d].fn \notin Filtered /\ frames[d].ret \in Addr
            /\ frames[d].sp = StackSize - 2 * (d - 2)
        BY <1>2, <4>1 DEF FrameInv
      <4>3. frames'[d] = frames[d]
        BY <3>3, <4>1
      <4> QED
        BY <4>2, <4>3
    <3>5. \A d \in 1..n - 2 : frames'[d] = frames[d] /\ d \in 1..n - 1
      BY <1>4, <2>4
    <3>6. \A d \in 1..Len(frames') - 1 : frames'[d].fn \notin Leaf
      <4>1. Len(frames') - 1 = n - 2
        BY <1>4, <2>4
      <4> QED
        BY <1>2, <1>3, <3>5, <4>1 DEF FrameInv
    <3> QED
      BY <2>2, <2>4, <3>1, <3>2, <3>4, <3>6 DEF FrameInv
  <2>7. SavedInv'
    <3>1. \A d \in 2..n - 1 : frames'[d] = frames[d] /\ d \in 2..n /\ d < n
      BY <1>4, <2>4
    <3>2. \A d \in 2..n : frames[d].fn \notin Leaf /\ d < n => mem[frames[d].sp - 2] = frames[d].x29
      BY <1>1, <1>2, <1>3 DEF SavedInv
    <3> QED
      BY <1>1, <2>4, <3>1, <3>2 DEF SavedInv
  <2>8. PrologueInv' /\ EpilogueInv'
    BY <2>2 DEF PrologueInv, EpilogueInv
  <2>9. Current' = frames[n - 1] /\ frames[n - 1].fn \notin Leaf
    BY <1>2, <1>3, <1>4, <2>4 DEF Current, Last, FrameInv
  <2>10. BodyInv'
    <3>1. Current.sp = StackSize - 2 * (n - 2)
      BY <1>2, <1>3, <1>4 DEF FrameInv
    <3>2. BodySp(Len(frames))' = IF n - 1 = 1 THEN frames[n - 1].sp ELSE frames[n - 1].sp - 2
      BY <1>4, <2>4, <2>9 DEF BodySp
    <3>3. CASE n - 1 = 1
      <4>1. frames[n - 1].sp = StackSize
        BY <1>2, <3>3 DEF FrameInv, Frame
      <4>2. BodySp(Len(frames))' = regs["sp"]
        BY <1>4, <3>1, <3>2, <3>3, <4>1
      <4> QED
        BY <1>1, <1>4, <2>9, <4>2 DEF BodyInv
    <3>4. CASE n - 1 # 1
      <4>1. n - 1 \in 2..n
        BY <1>4, <3>4
      <4>2. frames[n - 1].sp = StackSize - 2 * ((n - 1) - 2)
        BY <1>2, <1>3, <4>1 DEF FrameInv
      <4>3. BodySp(Len(frames))' = regs["sp"]
        BY <1>4, <3>1, <3>2, <3>4, <4>2
      <4> QED
        BY <1>1, <1>4, <2>9, <4>3 DEF BodyInv
    <3> QED
      BY <3>3, <3>4
  <2>11. ShadowInStep'
    <3>1. Chosen' = Chosen
      BY Built
    <3>2. ~ OnShadow(n)
      BY <1>1, <1>3, <1>4, SavedAt DEF OnStack, Chosen
    <3>3. \A d \in 1..n - 1 : OnShadow(d)' <=> OnShadow(d)
      <4>1. \A d \in 1..n - 1 : OnStack(d)' <=> OnStack(d)
        BY <1>3, <1>4, <2>2, <2>4, <3>1 DEF OnStack
      <4> QED
        BY <4>1, SavedAt, SavedAtNext
    <3>4. \A d \in 1..n - 1 : Saved(d)' = Saved(d)
      <4> TAKE d \in 1..n - 1
      <4>1. \A e \in 1..d : e \in 1..n - 1
        BY <1>4
      <4> QED
        BY <3>3, <4>1, SavedSame
    <3>5. Saved(n) = Saved(n - 1)
      <4>1. n - 1 \in Nat /\ (n - 1) + 1 = n
        BY <1>4
      <4>2. Saved(n - 1) \in Nat /\ Saved((n - 1) + 1) = Saved(n - 1)
        BY <3>2, <4>1, SavedMore
      <4> QED
        BY <4>1, <4>2
    <3>6. n - 1 \in 1..n - 1
      BY <1>4
    <3>7. PICK k : k = n - 1
      OBVIOUS
    <3>8. Len(shadow') = Saved(Len(frames))'
      <4>1. Saved(Len(frames))' = Saved(k)'
        BY <2>4, <3>7 DEF Saved
      <4>2. Len(shadow) = Saved(n)
        BY <1>1, <1>2, <1>3 DEF ShadowInStep
      <4> QED
        BY <1>1, <3>4, <3>5, <3>6, <3>7, <4>1, <4>2
    <3>9. \A d \in 1..n - 1 : OnShadow(d)' => shadow'[Saved(d)'] = frames'[d].ret
      <4>1. \A d \in 1..n - 1 : OnShadow(d) => shadow[Saved(d)] = frames[d].ret
        BY <1>1, <1>2, <1>4 DEF ShadowInStep
      <4> QED
        BY <1>1, <2>4, <3>3, <3>4, <4>1
    <3> QED
      BY <2>4, <3>8, <3>9 DEF ShadowInStep
  <2> QED
    BY <2>5, <2>6, <2>7, <2>8, <2>10, <2>11 DEF MachineInv
<1> QED
  BY <1>5, <1>6

LEMMA CallStep ==
    ASSUME MachineInv, NEW f \in Func \ Filtered, NEW ret \in Addr, Call(f, ret),
           stage' = "run", UNCHANGED << instrumented, functionNames >>
    PROVE  MachineInv'
<1>1. PICK n, sp : n = Len(frames) /\ sp = regs["sp"]
  OBVIOUS
<1>2. /\ pc.part = "body" /\ Current.fn \notin Leaf /\ n =< MaxDepth
      /\ frames' = Append(frames, Frame(f, ret, regs["x29"], sp))
      /\ pc' = At("prologue", 1) /\ UNCHANGED shadow
  BY <1>1 DEF Call
<1>3. /\ regs' = [regs EXCEPT !["x0"] = Argument(n), !["x1"] = Argument(n), !["x30"] = ret,
                              !["x29"] = IF f \in Leaf THEN @ ELSE sp - 2,
                              !["sp"] = IF f \in Leaf THEN @ ELSE sp - 2]
      /\ mem' = IF f \in Leaf THEN mem
                ELSE [mem EXCEPT ![sp - 1] = ret, ![sp - 2] = regs["x29"]]
  BY <1>1 DEF Call
<1>4. /\ MachineTypes /\ FrameInv /\ SavedInv /\ BodyInv /\ ShadowInStep
  BY DEF MachineInv
<1>5. pc'.part = "prologue" /\ pc'.i = 1 /\ pc' \in [part : {"prologue", "body", "epilogue", "lost"}, i : 1..12]
  BY <1>2 DEF At
<1>6. /\ n \in Nat /\ n >= 1 /\ n =< MaxDepth /\ MaxDepth \in Nat /\ DOMAIN frames = 1..n
      /\ Current = frames[n] /\ StackSize \in Nat /\ StackSize = 2 * MaxDepth + 6
  BY <1>1, <1>2, <1>4, Place, Sizes
<1>7. /\ sp = StackSize - 2 * (n - 1) /\ sp \in 8..StackSize
      /\ regs["x29"] \in 0..StackSize /\ regs["x29"] \in Value
  <2>1. sp = BodySp(n) /\ regs["x29"] \in 0..StackSize
    BY <1>1, <1>2, <1>4 DEF BodyInv
  <2>2. CASE n = 1
    BY <1>1, <1>4, <1>6, <2>1, <2>2, Sizes DEF BodySp, FrameInv, Frame
  <2>3. CASE n # 1
    <3>1. n \in 2..n
      BY <1>6, <2>3
    <3>2. frames[n].sp = StackSize - 2 * (n - 2)
      BY <1>1, <1>4, <3>1 DEF FrameInv
    <3>3. sp = frames[n].sp - 2
      BY <1>2, <1>6, <2>1, <2>3 DEF BodySp
    <3> QED
      BY <1>6, <2>1, <3>2, <3>3, Sizes
  <2> QED
    BY <2>2, <2>3
<1>8. PICK F : F = Frame(f, ret, regs["x29"], sp)
  OBVIOUS
<1>9. /\ F \in [fn : Func, ret : Addr \cup {Junk}, x29 : 0..StackSize, sp : 0..StackSize]
      /\ F.fn = f /\ F.ret = ret /\ F.x29 = regs["x29"] /\ F.sp = sp
  BY <1>6, <1>7, <1>8 DEF Frame
<1>10. /\ frames' \in Seq([fn : Func, ret : Addr \cup {Junk}, x29 : 0..StackSize, sp : 0..StackSize])
       /\ Len(frames') = n + 1 /\ frames'[n + 1] = F
       /\ \A d \in 1..n : frames'[d] = frames[d]
       /\ DOMAIN frames' = 1..n + 1
  <2>1. frames \in Seq([fn : Func, ret : Addr \cup {Junk}, x29 : 0..StackSize, sp : 0..StackSize])
    BY <1>4 DEF FrameInv
  <2>2. \A T : frames \in Seq(T) /\ F \in T =>
           /\ frames' \in Seq(T) /\ Len(frames') = n + 1 /\ frames'[n + 1] = F
           /\ \A d \in 1..n : frames'[d] = frames[d]
    BY <1>1, <1>2, <1>8, AppendProperties
  <2>3. /\ frames' \in Seq([fn : Func, ret : Addr \cup {Junk}, x29 : 0..StackSize, sp : 0..StackSize])
        /\ Len(frames') = n + 1 /\ frames'[n + 1] = F
        /\ \A d \in 1..n : frames'[d] = frames[d]
    BY <1>9, <2>1, <2>2
  <2> QED
    BY <1>6, <2>3
<1>11. Current' = F /\ Chosen' = Chosen
  BY <1>10, Built DEF Current, Last
<1>12. /\ regs \in [Reg -> Value] /\ mem \in [Words -> Value]
       /\ Reg = {"x0", "x1", "x29", "x30", "sp"}
  BY <1>4 DEF MachineTypes, Reg
<1>13. /\ regs' \in [Reg -> Value] /\ regs'["x0"] = Argument(n) /\ regs'["x30"] = ret
       /\ regs'["sp"] = IF f \in Leaf THEN sp ELSE sp - 2
       /\ regs'["x29"] = IF f \in Leaf THEN regs["x29"] ELSE sp - 2
  <2>1. Argument(n) \in Value /\ ret \in Value /\ sp \in Value /\ sp - 2 \in Value
    BY <1>6, <1>7, Sizes
  <2> QED
    BY <1>1, <1>3, <1>7, <1>12, <2>1
<1>14. /\ mem' \in [Words -> Value]
       /\ f \notin Leaf => mem'[sp - 1] = ret /\ mem'[sp - 2] = regs["x29"]
       /\ \A a \in Words : a >= sp => mem'[a] = mem[a]
  <2>1. ret \in Value /\ sp - 1 \in Words /\ sp - 2 \in Words /\ sp \in Int
    BY <1>6, <1>7, Sizes DEF Words
  <2>2. CASE f \in Leaf
    BY <1>3, <1>12, <2>2
  <2>3. CASE f \notin Leaf
    <3>1. mem' = [mem EXCEPT ![sp - 1] = ret, ![sp - 2] = regs["x29"]]
      BY <1>3, <2>3
    <3>2. sp - 1 # sp - 2 /\ \A a \in Words : a >= sp => a # sp - 1 /\ a # sp - 2
      BY <2>1 DEF Words
    <3> QED
      BY <1>7, <1>12, <2>1, <3>1, <3>2
  <2> QED
    BY <2>2, <2>3
<1>15. MachineTypes' /\ StillInv'
  <2>1. regs'["sp"] \in 0..StackSize
    BY <1>6, <1>7, <1>13
  <2> QED
    BY <1>2, <1>4, <1>5, <1>13, <1>14, <2>1 DEF MachineTypes, StillInv
<1>16. FrameInv'
  <2>1. Len(frames') \in 1..MaxDepth + 1 /\ Len(frames') >= 2
    BY <1>6, <1>10
  <2>2. frames'[1] = Frame(Root, Junk, Junk, StackSize)
    BY <1>4, <1>6, <1>10 DEF FrameInv
  <2>3. ASSUME NEW d \in 2..Len(frames')
        PROVE  /\ frames'[d].fn \notin Filtered /\ frames'[d].ret \in Addr
               /\ frames'[d].sp = StackSize - 2 * (d - 2)
    <3>1. CASE d = n + 1
      BY <1>6, <1>7, <1>9, <1>10, <3>1
    <3>2. CASE d # n + 1
      <4>1. d \in 2..n /\ d \in 1..n
        BY <1>6, <1>10, <3>2
      <4> QED
        BY <1>1, <1>4, <1>10, <4>1 DEF FrameInv
    <3> QED
      BY <3>1, <3>2
  <2>4. ASSUME NEW d \in 1..Len(frames') - 1 PROVE frames'[d].fn \notin Leaf
    <3>1. d \in 1..n
      BY <1>6, <1>10
    <3>2. CASE d = n
      BY <1>2, <1>6, <1>10, <3>1, <3>2
    <3>3. CASE d # n
      <4>1. d \in 1..n - 1
        BY <1>6, <3>1, <3>3
      <4> QED
        BY <1>1, <1>4, <1>10, <3>1, <4>1 DEF FrameInv
    <3> QED
      BY <3>2, <3>3
  <2> QED
    BY <1>10, <2>1, <2>2, <2>3, <2>4 DEF FrameInv
<1>17. SavedInv'
  <2> SUFFICES ASSUME NEW d \in 2..n + 1, frames'[d].fn \notin Leaf
               PROVE  mem'[frames'[d].sp - 2] = frames'[d].x29
    BY <1>10 DEF SavedInv
  <2>1. CASE d = n + 1
    BY <1>9, <1>10, <1>14, <2>1
  <2>2. CASE d # n + 1
    <3>1. d \in 2..n /\ d \in 1..n
      BY <1>6, <2>2
    <3>2. frames'[d] = frames[d] /\ frames[d].fn \notin Leaf
      BY <1>10, <3>1
    <3>3. mem[frames[d].sp - 2] = frames[d].x29
      BY <1>1, <1>2, <1>4, <3>1, <3>2 DEF SavedInv
    <3>4. frames[d].sp - 2 >= sp /\ frames[d].sp - 2 \in Words
      BY <1>1, <1>2, <3>1, <3>2, Above
    <3> QED
      BY <1>14, <3>2, <3>3, <3>4
  <2> QED
    BY <2>1, <2>2
<1>18. EpilogueInv' /\ BodyInv'
  BY <1>5 DEF EpilogueInv, BodyInv
<1>19. PrologueInv'
  <2>1. BodySp(Len(frames))' = (IF f \in Leaf THEN sp ELSE sp - 2)
    BY <1>6, <1>9, <1>10 DEF BodySp
  <2>2. BodyX29(Current)' = (IF f \in Leaf THEN regs["x29"] ELSE sp - 2)
    BY <1>9, <1>11 DEF BodyX29
  <2>3. Len(frames') - 1 = n
    BY <1>6, <1>10
  <2>4. Pushed(regs', mem', 1, BodySp(Len(frames))', ret, BodyX29(Current)', Argument(n))
    BY <1>13, <2>1, <2>2 DEF Pushed
  <2> QED
    BY <1>5, <1>9, <1>11, <1>14, <2>3, <2>4 DEF PrologueInv
<1>20. ShadowInStep'
  <2>1. ~ OnShadow(n + 1)'
    <3>1. ~ OnStack(n + 1)'
      BY <1>5, <1>10 DEF OnStack
    <3>2. PICK k : k = n + 1
      OBVIOUS
    <3>3. OnShadow(k)' <=> OnStack(k)'
      BY SavedAtNext
    <3> QED
      BY <3>1, <3>2, <3>3
  <2>2. \A d \in 1..n : OnShadow(d)' <=> OnShadow(d)
    <3>1. \A d \in 1..n : d # n + 1
      BY <1>6
    <3>2. \A d \in 1..n : OnStack(d)' <=> OnStack(d)
      BY <1>1, <1>2, <1>5, <1>10, <1>11, <3>1 DEF OnStack
    <3> QED
      BY <3>2, SavedAt, SavedAtNext
  <2>3. \A d \in 1..n : Saved(d)' = Saved(d)
    <3> TAKE d \in 1..n
    <3>1. \A e \in 1..d : e \in 1..n
      BY <1>6
    <3> QED
      BY <2>2, <3>1, SavedSame
  <2>4. Saved(n + 1)' = Saved(n)' /\ n \in 1..n
    <3>1. Saved(n)' \in Nat /\ Saved(n + 1)' = Saved(n)' + 0
      BY <1>6, <2>1, SavedMore
    <3> QED
      BY <1>6, <3>1
  <2>5. Len(shadow') = Saved(Len(frames))'
    <3>1. Saved(Len(frames))' = Saved(n + 1)'
      BY <1>10 DEF Saved
    <3>2. Len(shadow) = Saved(n)
      BY <1>1, <1>2, <1>4 DEF ShadowInStep
    <3> QED
      BY <1>2, <2>3, <2>4, <3>1, <3>2
  <2>6. ASSUME NEW d \in 1..n + 1, OnShadow(d)' PROVE shadow'[Saved(d)'] = frames'[d].ret
    <3>1. d \in 1..n
      BY <1>6, <2>1, <2>6
    <3>2. shadow[Saved(d)] = frames[d].ret
      BY <1>2, <1>4, <1>6, <2>2, <2>6, <3>1 DEF ShadowInStep
    <3> QED
      BY <1>2, <1>10, <2>3, <3>1, <3>2
  <2> QED
    BY <1>10, <2>5, <2>6 DEF ShadowInStep
<1> QED
  BY <1>15, <1>16, <1>17, <1>18, <1>19, <1>20 DEF MachineInv

\* The machine before the program is linked.
Still ==
    /\ regs = [r \in Reg |-> IF r = "sp" THEN StackSize ELSE Junk]
    /\ mem = [a \in Words |-> Junk] /\ shadow = << >>
    /\ frames = << Frame(Root, Junk, Junk, StackSize) >>
    /\ pc = At("body", 1)

LEMMA StillSound == Still => MachineInv
<1> SUFFICES ASSUME Still PROVE MachineInv
  OBVIOUS
<1>1. /\ Root \in Filtered /\ Root \in Func /\ StackSize \in Nat /\ Junk = 0
      /\ MaxDepth \in Nat /\ Junk \in Value /\ StackSize \in Value
  <2>1. Root \in Filtered /\ Root \in Func
    BY PluginAssumption, CodeAssumption
  <2>2. StackSize \in Nat /\ MaxDepth \in Nat /\ Junk \in Value
    BY Sizes
  <2>3. StackSize \in 0..StackSize
    BY <2>2
  <2>4. StackSize \in Value
    BY <2>3, Sizes
  <2> QED
    BY <2>1, <2>2, <2>4 DEF Junk
<1>2. pc.part = "body" /\ pc.i = 1 /\ pc \in [part : {"prologue", "body", "epilogue", "lost"}, i : 1..12]
  BY DEF At, Still
<1>3. Len(frames) = 1 /\ frames[1] = Frame(Root, Junk, Junk, StackSize) /\ Current = frames[1]
  BY DEF Current, Last, Still
<1>4. /\ frames[1].fn = Root /\ frames[1].sp = StackSize /\ frames[1].x29 = Junk
      /\ frames[1] \in [fn : Func, ret : Addr \cup {Junk}, x29 : 0..StackSize, sp : 0..StackSize]
  BY <1>1, <1>3 DEF Frame
<1>5. StillInv /\ MachineTypes
  BY <1>1, <1>2 DEF StillInv, MachineTypes, Reg, Still
<1>6. FrameInv
  BY <1>1, <1>2, <1>3, <1>4 DEF FrameInv, Still
<1>7. SavedInv /\ PrologueInv /\ EpilogueInv
  BY <1>2, <1>3 DEF SavedInv, PrologueInv, EpilogueInv
<1>8. BodyInv
  <2>1. Root \notin Leaf
    BY CodeAssumption
  <2> QED
    BY <1>1, <1>3, <1>4, <2>1 DEF BodyInv, BodySp, Reg, Still
<1>9. ShadowInStep
  <2>1. ~ OnShadow(1)
    BY <1>1, <1>4 DEF OnShadow, Chosen, Untouched
  <2>2. {e \in 1..1 : OnShadow(e)} = {}
    BY <2>1
  <2>3. Saved(1) = 0
    BY <2>2, FS_EmptySet DEF Saved
  <2> QED
    BY <1>3, <2>1, <2>3 DEF ShadowInStep, Still
<1> QED
  BY <1>5, <1>6, <1>7, <1>8, <1>9 DEF MachineInv

LEMMA BuildStep == MachineInv /\ Build => Still'
<1> SUFFICES ASSUME MachineInv, Build PROVE Still'
  OBVIOUS
<1>1. stage # "run" /\ UNCHANGED << regs, mem, shadow, frames, pc >>
  BY DEF Build, machine, PluginNext, ReadNames, CountCalls, EndOfCount, WriteList,
         CompileWithList, Link
<1> QED
  BY <1>1 DEF MachineInv, StillInv, Still

LEMMA RunStep == MachineInv /\ Run => MachineInv'
<1> SUFFICES ASSUME MachineInv, Run PROVE MachineInv'
  OBVIOUS
<1>1. stage' = "run" /\ UNCHANGED << instrumented, functionNames >>
  BY DEF Run, pluginVars
<1>2. CASE Instruction
  BY <1>1, <1>2, InstructionStep
<1>3. CASE Begin
  BY <1>1, <1>3, BeginStep
<1>4. ASSUME NEW f \in Func \ Filtered, NEW ret \in Addr, Call(f, ret)
      PROVE  MachineInv'
  BY <1>1, <1>4, CallStep
<1>5. CASE Finish
  BY <1>1, <1>5, FinishStep
<1>6. CASE Overwrite
  BY <1>1, <1>6, OverwriteStep
<1>7. CASE Signal
  BY <1>1, <1>7, SignalStep
<1>8. CASE Return
  BY <1>1, <1>8, ReturnStep
<1> QED
  BY <1>2, <1>3, <1>4, <1>5, <1>6, <1>7, <1>8 DEF Run

LEMMA IdleStep == MachineInv /\ UNCHANGED vars => MachineInv'
<1> SUFFICES ASSUME MachineInv, UNCHANGED vars PROVE MachineInv'
  OBVIOUS
<1>1. /\ UNCHANGED << regs, mem, shadow, frames, pc >>
      /\ UNCHANGED << stage, instrumented, functionNames >>
  BY DEF vars, machine, pluginVars
<1>2. /\ StillInv /\ MachineTypes /\ FrameInv /\ SavedInv
      /\ PrologueInv /\ EpilogueInv /\ BodyInv /\ ShadowInStep
  BY DEF MachineInv
<1>3. StillInv' /\ MachineTypes' /\ FrameInv' /\ SavedInv'
  BY <1>1, <1>2 DEF StillInv, MachineTypes, FrameInv, SavedInv
<1>4. /\ Current' = Current /\ BodySp(Len(frames))' = BodySp(Len(frames))
      /\ BodyX29(Current)' = BodyX29(Current) /\ Chosen' = Chosen
      /\ Untouched(Current.fn)' <=> Untouched(Current.fn)
  BY <1>1, Built DEF Current, BodySp, BodyX29
<1>5. PrologueInv' /\ EpilogueInv' /\ BodyInv'
  BY <1>1, <1>2, <1>4 DEF PrologueInv, EpilogueInv, BodyInv
<1>6. ShadowInStep'
  <2>1. \A d : OnStack(d)' <=> OnStack(d)
    BY <1>1, <1>4 DEF OnStack
  <2>2. \A d : OnShadow(d)' <=> OnShadow(d)
    BY <1>1, <2>1, SavedAt, SavedAtNext
  <2>3. CASE pc.part # "lost"
    BY <1>1, <1>2, <2>2, <2>3, ShadowSame
  <2>4. CASE pc.part = "lost"
    BY <1>1, <2>4 DEF ShadowInStep
  <2> QED
    BY <2>3, <2>4
<1> QED
  BY <1>3, <1>5, <1>6 DEF MachineInv

LEMMA MachineKept == Spec => []MachineInv
<1>1. Init => Still
  BY DEF Init, Still, Words
<1>2. MachineInv /\ [Next]_vars => MachineInv' \/ Still'
  BY BuildStep, RunStep, IdleStep DEF Next
<1> QED
  BY <1>1, <1>2, StillSound, PTL DEF Spec

-----------------------------------------------------------------------------

\* Registers, words, frames and shadow stack stay what they are, the stack
\* pointer in the stack and the place in the code in the code.
THEOREM TypeCorrect == Spec => []TypeOK
<1>1. MachineInv => TypeOK
  BY DEF MachineInv, MachineTypes, FrameInv, TypeOK, Words
<1> QED
  BY <1>1, MachineKept, PTL

\* stat_prior.cc 227-348: the inserted prologue leaves the argument, the frame
\* and the return address to the body as the compiler's left them.
THEOREM PrologueIsTransparent == Spec => []PrologueTransparent
<1>1. MachineInv => PrologueTransparent
  <2> SUFFICES ASSUME MachineInv, Done, pc.part = "prologue"
               PROVE  /\ regs["x0"] = Argument(Len(frames) - 1)
                      /\ regs["x30"] = Current.ret
                      /\ Current.fn \in Leaf =>
                            regs["sp"] = Current.sp /\ regs["x29"] = Current.x29
                      /\ Current.fn \notin Leaf =>
                            /\ regs["sp"] = Current.sp - 2 /\ regs["x29"] = Current.sp - 2
                            /\ mem[Current.sp - 1] = Current.ret
                            /\ mem[Current.sp - 2] = Current.x29
    BY DEF PrologueTransparent
  <2>1. /\ regs["sp"] = BodySp(Len(frames)) /\ regs["x29"] = BodyX29(Current)
        /\ regs["x30"] = Current.ret /\ regs["x0"] = Argument(Len(frames) - 1)
        /\ Len(frames) >= 2 /\ Len(frames) \in Nat
    BY DoneAt
  <2>2. /\ BodySp(Len(frames)) = IF Current.fn \in Leaf THEN Current.sp ELSE Current.sp - 2
        /\ Current = frames[Len(frames)]
    BY <2>1, Place DEF MachineInv
  <2>3. Current.fn \notin Leaf => mem[Current.sp - 1] = Current.ret
    BY DEF MachineInv, PrologueInv
  <2>4. Current.fn \notin Leaf => mem[Current.sp - 2] = Current.x29
    <3>1. Len(frames) \in 2..Len(frames)
      BY <2>1
    <3> QED
      BY <2>2, <3>1 DEF MachineInv, SavedInv
  <2> QED
    BY <2>1, <2>2, <2>3, <2>4 DEF BodyX29
<1> QED
  BY <1>1, MachineKept, PTL

\* stat_prior.cc 361-493: a chosen function returns to its caller with its
\* result, whatever has become of the return address in its frame.
THEOREM ChosenReturn == Spec => []ChosenReturnsToCaller
<1>1. MachineInv => ChosenReturnsToCaller
  BY DoneAt DEF ChosenReturnsToCaller
<1> QED
  BY <1>1, MachineKept, PTL

\* stat_prior.cc 330-348, 484-503: a restore for every save, in reverse.
THEOREM SavesMatchRestores == Spec => []ShadowInStep
<1>1. MachineInv => ShadowInStep
  BY DEF MachineInv
<1> QED
  BY <1>1, MachineKept, PTL

=============================================================================
