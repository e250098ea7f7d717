---------------------------- MODULE MCModuleInit ----------------------------
(***************************************************************************)
(* Programs for ModuleInit: three modules, of which "main" and "A" call,   *)
(* start and raise in many ways and "B" is the end of the chain, or        *)
(* imports A in its turn.                                                  *)
(***************************************************************************)
EXTENDS ModuleInit

MCModules == {"main", "A", "B"}

call(m) == Step("call", m, FALSE)
try(m) == Step("call", m, TRUE)
start(m) == Step("start", m, FALSE)
wait == Step("wait", "main", FALSE)
raise == Step("raise", "main", FALSE)

MainBodies ==
  {<< call("A"), call("B") >>,
   << try("A"), call("B") >>,
   << start("A"), call("B"), wait >>,
   << start("main"), call("A"), wait >>,
   << start("main"), start("B"), try("A") >>}
MainFns == {<< try("A") >>, << call("B"), call("A") >>}
ABodies ==
  {<< >>, << call("B") >>, << try("B"), call("A") >>, << raise >>, << call("B"), raise >>,
   << start("A") >>, << start("B"), wait >>, << start("main"), call("B") >>}
AFns == {<< call("B") >>}
BBodies == {<< call("A") >>, << raise >>, << start("A"), wait >>}

(* After an error in B the loop of its body runs on into the base of the   *)
(* second thread, where it calls B once more.                              *)
RunsOn ==
  [body |-> [m \in MCModules |-> CASE m = "main" -> << start("main"), call("B") >>
                                   [] m = "A" -> << >> [] OTHER -> << raise >>],
   fn   |-> [m \in MCModules |-> CASE m = "main" -> << try("B") >>
                                   [] m = "A" -> << >> [] OTHER -> << raise >>]]

MCPrograms ==
  {RunsOn} \cup
  {[body |-> [m \in MCModules |-> CASE m = "main" -> mb [] m = "A" -> ab [] OTHER -> bb],
    fn   |-> [m \in MCModules |-> CASE m = "main" -> mf [] m = "A" -> af [] OTHER -> << >>]] :
     mb \in MainBodies, mf \in MainFns, ab \in ABodies, af \in AFns, bb \in BBodies}
=============================================================================
