--------------------------- MODULE InstrumentedCode ---------------------------
(***************************************************************************)
(* What stat_prior.cc puts into a function: instructions behind its        *)
(* prologue that save the return address, and instructions before every    *)
(* return that fetch it back.  One thread runs the functions on a machine  *)
(* with the registers these instructions name and a stack of eight-byte    *)
(* words that grows down.                                                  *)
(*                                                                         *)
(* The compiler's own prologue and epilogue, the bodies and the calling    *)
(* convention are external: a call may change x0, x1 and x30 and every     *)
(* word below the stack pointer, and a signal handler those words, between *)
(* any two instructions.  The machine runs what CompilerPlugins built.     *)
(***************************************************************************)
EXTENDS CompilerPlugins

CONSTANTS
    Root,      \* the function the thread starts in
    Addr,      \* return addresses
    MaxDepth   \* bound: nested calls

Junk == 0

ASSUME CodeAssumption ==
    /\ Root \in Filtered \ Leaf
    /\ Addr \subseteq Nat \ {Junk}
    /\ MaxDepth \in Nat

VARIABLES
    regs,    \* the registers
    mem,     \* the words of the stack
    shadow,  \* the thread's shadow stack
    frames,  \* the calls under way: what each function was entered with
    pc       \* the part of the last function that runs, and the next instruction

machine == << regs, mem, shadow, frames, pc >>
vars == << machine, pluginVars >>

Reg == {"x0", "x1", "x29", "x30", "sp"}

\* A frame of the compiler has two words, the code inserted needs four.
StackSize == 2 * (MaxDepth + 1) + 4

\* The pass leaves the code of these as the compiler emits it, and sets
\* tee_flag for the chosen ones of the others.
Untouched(f) == f \in Filtered \/ ~ instrumented
Chosen == {f \in functionNames : ~ Untouched(f)}

\* What a function is given and gives back, told apart by its depth.
Argument(depth) == 100 + depth
Result(depth) == 200 + depth

Current == Last(frames)
At(part, i) == [part |-> part, i |-> i]

-----------------------------------------------------------------------------
\* The instructions; offsets are in words.
AddSp(n) == [op |-> "add", n |-> n]
Str(r, n) == [op |-> "str", r |-> r, n |-> n]
Ldr(r, n) == [op |-> "ldr", r |-> r, n |-> n]
Mov(d, r) == [op |-> "mov", d |-> d, r |-> r]
Bl(f) == [op |-> "bl", f |-> f]

SaveCall(f) ==
    IF f \in Chosen THEN "shadow_stack_save" ELSE "page_shadow_stack_save"

\* Mutant: the epilogue of the page mechanism everywhere.
RestoreCallPage(f) == "page_shadow_stack_restore"

RestoreCall(f) ==
    IF f \in Chosen THEN "shadow_stack_restore" ELSE "page_shadow_stack_restore"

\* Mutant: the stack pointer moves after the words are stored.
PushBelow == << Str("x30", -4), Str("x29", -3), Str("x0", -2), AddSp(-4), Mov("x29", "sp") >>

Push == << AddSp(-4), Str("x30", 0), Str("x29", 1), Mov("x29", "sp"), Str("x0", 2) >>

\* Mutant: x30 is not passed to the library.
PrologueNoArgument(f) ==
    IF Untouched(f) THEN << >>
    ELSE Push \o << Bl(SaveCall(f)),
                    Ldr("x30", 0), Ldr("x29", 1), Ldr("x0", 2), AddSp(4) >>

\* What is inserted behind the note NOTE_INSN_PROLOGUE_END.
Prologue(f) ==
    IF Untouched(f) THEN << >>
    ELSE Push \o << Mov("x0", "x30"), Bl(SaveCall(f)),
                    Ldr("x30", 0), Ldr("x29", 1), Ldr("x0", 2), AddSp(4) >>

\* Mutant: x0 is loaded back before it is moved to x30.
EpilogueSwapped(f) ==
    IF Untouched(f) THEN << >>
    ELSE Push \o << Mov("x0", "x30"), Bl(RestoreCall(f)), Ldr("x0", 2),
                    Mov("x30", "x0"), Ldr("x29", 1), AddSp(4) >>

\* What is inserted before a jump that returns.
Epilogue(f) ==
    IF Untouched(f) THEN << >>
    ELSE Push \o << Mov("x0", "x30"), Bl(RestoreCall(f)), Mov("x30", "x0"),
                    Ldr("x0", 2), Ldr("x29", 1), AddSp(4) >>

Code == [prologue |-> Prologue(Current.fn), epilogue |-> Epilogue(Current.fn)]

Running == pc.part \in {"prologue", "epilogue"}
Done == Running /\ pc.i > Len(Code[pc.part])

-----------------------------------------------------------------------------
Frame(f, ret, x29, sp) == [fn |-> f, ret |-> ret, x29 |-> x29, sp |-> sp]

Init == /\ regs = [r \in Reg |-> IF r = "sp" THEN StackSize ELSE Junk]
        /\ mem = [a \in 0..StackSize - 1 |-> Junk]
        /\ shadow = << >>
        /\ frames = << Frame(Root, Junk, Junk, StackSize) >>
        /\ pc = At("body", 1)
        /\ PluginInit

Below(m, sp) == [a \in DOMAIN m |-> IF a < sp THEN Junk ELSE m[a]]

\* bl to the library: x30 is its link, and x0, x1 and the words below sp are
\* its own.  page_shadow_stack_restore returns a variable nobody has set.
Library(f) ==
    /\ mem' = Below(mem, regs["sp"])
    /\ \E x0 \in Addr \cup {Junk} :
          /\ regs' = [regs EXCEPT !["x0"] = x0, !["x1"] = Junk, !["x30"] = Junk]
          /\ CASE f = "shadow_stack_save" ->
                     /\ x0 = Junk
                     /\ shadow' = Append(shadow, regs["x0"])
               [] f = "shadow_stack_restore" ->
                     /\ shadow # << >>
                     /\ x0 = Last(shadow)
                     /\ shadow' = Front(shadow)
               [] f = "page_shadow_stack_save" -> x0 = Junk /\ UNCHANGED shadow
               [] f = "page_shadow_stack_restore" -> UNCHANGED shadow

\* The next of the instructions that were inserted.
Instruction ==
    /\ Running /\ ~ Done
    /\ LET c  == Code[pc.part][pc.i]
           sp == regs["sp"]
       IN  \/ /\ c.op = "add"
              /\ regs' = [regs EXCEPT !["sp"] = @ + c.n]
              /\ UNCHANGED << mem, shadow >>
           \/ /\ c.op = "str"
              /\ mem' = [mem EXCEPT ![sp + c.n] = regs[c.r]]
              /\ UNCHANGED << regs, shadow >>
           \/ /\ c.op = "ldr"
              /\ regs' = [regs EXCEPT ![c.r] = mem[sp + c.n]]
              /\ UNCHANGED << mem, shadow >>
           \/ /\ c.op = "mov"
              /\ regs' = [regs EXCEPT ![c.d] = regs[c.r]]
              /\ UNCHANGED << mem, shadow >>
           \/ /\ c.op = "bl"
              /\ Library(c.f)
    /\ pc' = [pc EXCEPT !.i = @ + 1]
    /\ UNCHANGED frames

Begin == /\ Done /\ pc.part = "prologue"
         /\ pc' = At("body", 1)
         /\ UNCHANGED << regs, mem, shadow, frames >>

\* A body calls f, and the compiler's prologue of f saves x29 and x30 and
\* points x29 to them, unless f is a leaf.
Call(f, ret) ==
    LET sp == regs["sp"]
    IN  /\ pc.part = "body" /\ Current.fn \notin Leaf
        /\ Len(frames) <= MaxDepth
        /\ frames' = Append(frames, Frame(f, ret, regs["x29"], sp))
        /\ regs' = [regs EXCEPT !["x0"] = Argument(Len(frames)),
                                !["x1"] = Argument(Len(frames)),
                                !["x30"] = ret,
                                !["x29"] = IF f \in Leaf THEN @ ELSE sp - 2,
                                !["sp"] = IF f \in Leaf THEN @ ELSE sp - 2]
        /\ mem' = IF f \in Leaf THEN mem
                  ELSE [mem EXCEPT ![sp - 1] = ret, ![sp - 2] = regs["x29"]]
        /\ pc' = At("prologue", 1)
        /\ UNCHANGED shadow

\* The body ends with its result in x0; the compiler's epilogue loads x29 and
\* x30 back.
Finish ==
    /\ pc.part = "body" /\ Len(frames) > 1
    /\ LET sp   == regs["sp"]
           leaf == Current.fn \in Leaf
       IN  regs' = [regs EXCEPT !["x0"] = Result(Len(frames)),
                                !["x30"] = IF leaf THEN @ ELSE mem[sp + 1],
                                !["x29"] = IF leaf THEN @ ELSE mem[sp],
                                !["sp"] = IF leaf THEN @ ELSE sp + 2]
    /\ pc' = At("epilogue", 1)
    /\ UNCHANGED << mem, shadow, frames >>

\* A body loses a return address it or a caller of it keeps on the stack.
Overwrite ==
    /\ pc.part = "body"
    /\ \E d \in 2..Len(frames), a \in Addr :
          /\ frames[d].fn \notin Leaf
          /\ mem' = [mem EXCEPT ![frames[d].sp - 1] = a]
    /\ UNCHANGED << regs, shadow, frames, pc >>

\* A signal handler runs on the thread's stack.
Signal == /\ mem' = Below(mem, regs["sp"])
          /\ UNCHANGED << regs, shadow, frames, pc >>

\* ret: back to the caller's body, or astray.
Return ==
    /\ Done /\ pc.part = "epilogue"
    /\ IF regs["x30"] = Current.ret
       THEN pc' = At("body", 1) /\ frames' = Front(frames)
       ELSE pc' = At("lost", 1) /\ UNCHANGED frames
    /\ UNCHANGED << regs, mem, shadow >>

Build == PluginNext /\ UNCHANGED machine

Run == /\ stage = "run"
       /\ \/ Instruction
          \/ Begin
          \/ \E f \in Func \ Filtered, ret \in Addr : Call(f, ret)
          \/ Finish
          \/ Overwrite
          \/ Signal
          \/ Return
       /\ UNCHANGED pluginVars

Next == Build \/ Run

Spec == Init /\ [][Next]_vars
-----------------------------------------------------------------------------
(* PROPERTIES *)

Value == Addr \cup 0..StackSize \cup { Argument(d) : d \in 1..MaxDepth }
              \cup { Result(d) : d \in 1..MaxDepth + 1 }

TypeOK == /\ regs \in [Reg -> Value] /\ regs["sp"] \in 0..StackSize
          /\ mem \in [0..StackSize - 1 -> Value]
          /\ shadow \in Seq(Addr)
          /\ frames \in Seq([fn : Func, ret : Addr \cup {Junk},
                             x29 : 0..StackSize, sp : 0..StackSize])
          /\ pc \in [part : {"prologue", "body", "epilogue", "lost"}, i : 1..13]

\* The code behind the prologue (stat_prior.cc 227-348) is transparent: the
\* body finds its first argument, its frame and its return address as the
\* compiler left them, whatever the library and signal handlers do.
PrologueTransparent ==
    Done /\ pc.part = "prologue" =>
        /\ regs["x0"] = Argument(Len(frames) - 1)
        /\ regs["x30"] = Current.ret
        /\ Current.fn \in Leaf =>
              regs["sp"] = Current.sp /\ regs["x29"] = Current.x29
        /\ Current.fn \notin Leaf =>
              /\ regs["sp"] = Current.sp - 2 /\ regs["x29"] = Current.sp - 2
              /\ mem[Current.sp - 1] = Current.ret
              /\ mem[Current.sp - 2] = Current.x29

\* A chosen function returns where it was called from with its result and its
\* caller's frame (stat_prior.cc 361-493), even when the return address in
\* its own frame or a caller's was lost.
ChosenReturnsToCaller ==
    Done /\ pc.part = "epilogue" /\ Current.fn \in Chosen =>
        /\ regs["x30"] = Current.ret
        /\ regs["x0"] = Result(Len(frames))
        /\ regs["x29"] = Current.x29 /\ regs["sp"] = Current.sp

\* Where the inserted call stands in a sequence of instructions.
CallAt(code) == CHOOSE i \in DOMAIN code : code[i].op = "bl"

\* Is the return address of the d-th call on the shadow stack?
OnShadow(d) ==
    /\ frames[d].fn \in Chosen
    /\ d = Len(frames) =>
          /\ pc.part = "prologue" => pc.i > CallAt(Code.prologue)
          /\ pc.part = "epilogue" => pc.i <= CallAt(Code.epilogue)

\* How many of the first d calls are on it.
Saved(d) == Cardinality({e \in 1..d : OnShadow(e)})

\* Saves and restores pair up (stat_prior.cc 330-348, 484-503): the shadow
\* stack has the return addresses of the chosen functions under way, in order.
ShadowInStep ==
    pc.part # "lost" =>
        /\ Len(shadow) = Saved(Len(frames))
        /\ \A d \in DOMAIN frames : OnShadow(d) => shadow[Saved(d)] = frames[d].ret

\* What stat_prior.cc 355 says of every function it instruments, "instrument
\* epilogue to insert shadown stack restoring": each returns to its caller.
\* page_shadow_stack_restore (shadowstack.c 338-357) has no value to return.
EveryFunctionReturns == instrumented => pc.part # "lost"

=============================================================================
