------------------------------ MODULE MCSeeds ------------------------------
(***************************************************************************)
(* Two entry points, one of which calls the other and itself, two methods  *)
(* that call each other, one that nobody calls, and initializers: that of  *)
(* the library's class calls a method of a class that is reached by it     *)
(* only, whose initializer is not run.                                     *)
(***************************************************************************)
EXTENDS Seeds

MCCallees ==
    [m \in SootMethod |->
       CASE m = "main" -> {"main", "run", "even"}
         [] m = "run" -> {"odd"}
         [] m = "even" -> {"odd"}
         [] m = "odd" -> {"even", "lib"}
         [] m = "libInit" -> {"extra"}
         [] m = "unused" -> {"lib"}
         [] OTHER -> {}]

MCSeedsOf == [m \in SootMethod |-> IF m \in {"run", "lib", "extra", "unused"} THEN {m} ELSE {}]
MCClassOf == [m \in SootMethod |-> IF m \in {"lib", "libInit"} THEN "Lib"
                                ELSE IF m \in {"extra", "extraInit"} THEN "Extra" ELSE "App"]
MCInitializers == [k \in {"App", "Lib", "Extra"} |->
                     CASE k = "Lib" -> {"libInit"} [] k = "Extra" -> {"extraInit"} [] OTHER -> {}]
=============================================================================
