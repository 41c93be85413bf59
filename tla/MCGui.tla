------------------------------- MODULE MCGui -------------------------------
(***************************************************************************)
(* Containers for the model checking of Gui: the one of gui.c, and others  *)
(* made with the same functions.                                           *)
(***************************************************************************)
EXTENDS Gui

MCContainers == {"main", "sub"}
Header(len) == [kind |-> "header", len |-> len]
Opt(target, len) == [kind |-> "option", target |-> target, len |-> len]
Text(align, len) ==
  [kind |-> "text", align |-> align, len |-> len, color |-> "none", footer |-> FALSE]
White(align, len) == [Text(align, len) EXCEPT !.color = "white"]
Footer(align, len) == [Text(align, len) EXCEPT !.color = "green", !.footer = TRUE]

Scripted(main, sub) == [c \in MCContainers |-> IF c = "main" THEN main ELSE sub]

(* init_main_con                                                           *)
OneContainer ==
  Scripted(<<Header(2), Opt("none", 4), Footer("right", 3)>>, <<Header(2), Opt("none", 1)>>)

(* Submenus; containers that enter themselves and each other; texts above, *)
(* between and below the options; too many components; no option; a label  *)
(* that is wider than the screen, left, centred and as a header.           *)
MCScripts ==
  { OneContainer,
    Scripted(<<Header(4), Opt("none", 2), Opt("sub", 4), Footer("right", 4)>>,
             <<Header(1), Opt("none", 1), Opt("none", 0), Opt("none", 3)>>),
    Scripted(<<Header(0), Text("center", 3), Opt("sub", 2), Opt("main", 1)>>,
             <<Header(3), Opt("main", 4), White("right", 1), Opt("none", 2), Footer("center", 4)>>),
    Scripted(<<Header(1), Opt("sub", 1), Opt("sub", 2), Text("left", 4), Footer("left", 2)>>,
             <<Header(2), Text("right", 2), Footer("right", 1)>>),
    Scripted(<<Header(2), Opt("sub", 3), Opt("none", 1), Text("center", 2), Opt("sub", 2)>>,
             <<Header(2), Opt("none", 1), Text("right", 4), Opt("main", 1), Opt("sub", 1),
               Text("left", 2)>>),
    Scripted(<<Header(2), Opt("sub", 3), Footer("right", 2), Footer("left", 3)>>,
             <<Header(2), Text("center", 5), Opt("none", 1)>>),
    Scripted(<<Header(2), Opt("sub", 3), Text("right", 0)>>, <<Header(6), Opt("none", 5)>>) }
=============================================================================
