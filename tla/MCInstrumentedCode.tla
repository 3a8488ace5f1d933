-------------------------- MODULE MCInstrumentedCode --------------------------
(* InstrumentedCode with the calls of a small program: main calls f twice  *)
(* and g once, f calls g and h, one g calls h and the other one g.         *)
EXTENDS InstrumentedCode

MCCalls == { << << "main", 1 >>, "f", 1 >>, << << "main", 1 >>, "f", 2 >>,
             << << "main", 1 >>, "g", 1 >>,
             << << "f", 1 >>, "g", 1 >>, << << "f", 1 >>, "h", 1 >>,
             << << "g", 1 >>, "h", 1 >>, << << "g", 2 >>, "g", 1 >> }
=============================================================================
