---------------------------- MODULE ThreadStacks ----------------------------
(***************************************************************************)
(* What the TEEPLC service promises its callers, without a table: every    *)
(* registered thread has a last-in first-out stack of return addresses of  *)
(* its own.  A released thread keeps its stack until it is empty and some  *)
(* other thread registers in its place.                                    *)
(***************************************************************************)
EXTENDS Integers, Sequences, FiniteSets

CONSTANTS Capacity, \* threads registered at a time
          MaxDepth, \* addresses on a stack
          Tid, Addr

VARIABLES stk,      \* a stack for each registered thread
          released, \* the registered threads that have been released
          answer    \* what the last call returned

vars == << stk, released, answer >>

Registered == DOMAIN stk
Idle == {u \in released : stk[u] = << >>}

Answer(call, tid, result, lr) ==
    [call |-> call, tid |-> tid, result |-> result, lr |-> lr]

Init == /\ stk = << >>
        /\ released = {}
        /\ answer = Answer("boot", 0, "ok", 0)

-----------------------------------------------------------------------------

\* A thread takes a place that is free, or that of an idle released thread.
Register(t) ==
    /\ t \notin Registered
    /\ \E gone \in {{}} \cup {{u} : u \in Idle} :
          /\ Cardinality(Registered \ gone) < Capacity
          /\ stk' = [u \in (Registered \ gone) \cup {t} |->
                        IF u = t THEN << >> ELSE stk[u]]
          /\ released' = released \ gone
    /\ answer' = Answer("init", t, "ok", 0)

RefuseRegister(t) ==
    /\ t \notin Registered
    /\ Cardinality(Registered) = Capacity
    /\ Idle = {}
    /\ answer' = Answer("init", t, "full", 0)
    /\ UNCHANGED << stk, released >>

Save(t, lr) ==
    /\ t \in Registered
    /\ Len(stk[t]) < MaxDepth
    /\ stk' = [stk EXCEPT ![t] = Append(@, lr)]
    /\ answer' = Answer("save", t, "ok", 0)
    /\ UNCHANGED released

RefuseSave(t) ==
    /\ answer' = Answer("save", t,
                        IF t \in Registered THEN "full" ELSE "unknown", 0)
    /\ t \in Registered => Len(stk[t]) = MaxDepth
    /\ UNCHANGED << stk, released >>

Restore(t) ==
    /\ t \in Registered
    /\ stk[t] # << >>
    /\ stk' = [stk EXCEPT ![t] = SubSeq(@, 1, Len(@) - 1)]
    /\ answer' = Answer("restore", t, "ok", stk[t][Len(stk[t])])
    /\ UNCHANGED released

RefuseRestore(t) ==
    /\ answer' = Answer("restore", t,
                        IF t \in Registered THEN "empty" ELSE "unknown", 0)
    /\ t \in Registered => stk[t] = << >>
    /\ UNCHANGED << stk, released >>

\* Releasing an id that is no thread's changes nothing; the answer to the
\* id 0 tells whether an unused slot is left, which is not promised.
Release(t) ==
    /\ released' = released \cup ({t} \cap Registered)
    /\ \E r \in {"ok", "unknown"} :
          /\ t # 0 => (r = "ok" <=> t \in Registered)
          /\ answer' = Answer("free", t, r, 0)
    /\ UNCHANGED stk

Reset == /\ stk' = << >>
         /\ released' = {}
         /\ answer' = Answer("reset", 0, "ok", 0)

Other == /\ answer' = Answer("other", 0, "ok", 0)
         /\ UNCHANGED << stk, released >>

Next == \/ \E t \in Tid : Register(t) \/ RefuseRegister(t)
        \/ \E t \in Tid, lr \in Addr : Save(t, lr)
        \/ \E t \in Tid : RefuseSave(t) \/ Restore(t) \/ RefuseRestore(t)
        \/ \E t \in Tid \cup {0, -1} : Release(t)
        \/ Reset
        \/ Other

Spec == Init /\ [][Next]_vars
=============================================================================
