-------------------------------- MODULE Gui --------------------------------
(***************************************************************************)
(* The terminal interface of src/gui: gui_loop, the menu, the containers   *)
(* with their selectors and the screen.                                    *)
(*                                                                         *)
(* The menu is a vector (VectorOps) of COPIES of containers.  A copy has a *)
(* selector of its own, but the option components are blocks of the        *)
(* original's vector, which all copies share: so lit, the selc_on flags,   *)
(* is kept by container and the number of the selected option by copy.     *)
(* The containers are built, component by component (todo), before the     *)
(* loop starts.  A label is its length; a cell of the screen shows a blank *)
(* or a character of a label, and the colour of a line is that of what was *)
(* last written to it.                                                     *)
(***************************************************************************)
EXTENDS VectorOps, FiniteSetsExt, SequencesExt

CONSTANTS
  Containers, Main,  \* the containers, and gui.main_con
  NoTarget,          \* the target of an option whose handler changes no menu
  Scripts,           \* what is added to each container, in order: a set of
                     \* functions from containers to sequences of components
  Width, Height,     \* of the screen
  Keys,              \* the keys the user may press
  MaxDepth           \* how many containers may be on the menu (bound)

Alignments == {"left", "center", "right"}

(* What is added to a container: ui_head_component_t, ui_opt_component_t   *)
(* and ui_text_component_t with their flags.  A header is always among it: *)
(* the label of one that was never set is not memory to be drawn.          *)
Component ==
  [kind : {"header"}, len : Nat]
    \cup [kind : {"option"}, len : Nat, target : Containers \cup {NoTarget}]
    \cup [kind : {"text"}, len : Nat, align : Alignments, color : STRING, footer : BOOLEAN]

ASSUME GuiAssumption ==
  /\ Main \in Containers /\ NoTarget \notin Containers /\ "none" \notin Keys
  /\ Width \in Nat \ {0} /\ Height \in Nat \ {0} /\ MaxDepth \in Nat \ {0}
  /\ Scripts \subseteq [Containers -> Seq(Component)]
  /\ \A s \in Scripts : \A c \in Containers :
       \E p \in DOMAIN s[c] : s[c][p].kind = "header"

VARIABLES
  todo,    \* what is still to be added to each container
  con,     \* the containers as built so far
  lit,     \* for each container, the options whose selc_on is set
  menu,    \* gui.menu
  copies,  \* the containers on the menu: the allocated blocks are its domain
  key,     \* kbio_ch
  cur,     \* current_con of gui_loop: a block
  dirty,   \* gui.should_update
  screen,  \* what each line shows: its colour and its cells
  visits,  \* how often a container has been put on the menu, up to 2
  pc       \* of gui_loop; or how the program has ended

heapVars == <<todo, con, menu, copies, lit, visits>>
vars == <<todo, con, lit, menu, copies, key, cur, dirty, screen, visits, pc>>

Option == [line : Nat, len : Nat, target : Containers \cup {NoTarget}]
TextComponent ==
  [line : Nat, len : Nat, align : Alignments, color : STRING, footer : BOOLEAN]
Container ==
  [count : Nat, header : Nat, options : Seq(Option), texts : Seq(TextComponent)]
Copy == [con : Containers, on : Nat]

TypeOK ==
  /\ todo \in [Containers -> Seq(Component)] /\ con \in [Containers -> Container]
  /\ DOMAIN lit = Containers
  /\ \A c \in Containers : lit[c] \subseteq 1..Len(con[c].options)
  /\ menu \in [size : Nat, slots : Seq(Slots)]
  /\ DOMAIN copies \subseteq 1..MaxDepth /\ copies \in [DOMAIN copies -> Copy]
  /\ key \in Keys \cup {"none"} /\ visits \in [Containers -> 0..2]
  /\ cur \in 0..MaxDepth /\ DOMAIN screen = 0..(Height - 1)
  /\ dirty \in BOOLEAN
  /\ pc \in {"build", "top", "wait", "handle", "stopped", "exited", "fault"}

-----------------------------------------------------------------------------
(* container.c                                                             *)

ContainerMade == [count |-> 1, header |-> 0, options |-> <<>>, texts |-> <<>>]

SetHeader(c, comp) == [c EXCEPT !.header = comp.len]

AddOpt(c, comp) ==
  [c EXCEPT !.options = Append(@, [line |-> c.count, len |-> comp.len,
                                   target |-> comp.target]),
            !.count = @ + 1]

(* The line of a footer is the last one of the screen (resolve_text_pos).  *)
TextAt(comp, line) ==
  [line |-> line, len |-> comp.len, align |-> comp.align, color |-> comp.color,
   footer |-> comp.footer]

(* Mutant of AddText: the next component gets the line of the text.        *)
AddTextOver(c, comp) ==
  [c EXCEPT !.texts = Append(@, TextAt(comp, IF comp.footer THEN Height - 1 ELSE c.count))]

AddText(c, comp) ==
  IF comp.footer
  THEN [c EXCEPT !.texts = Append(@, TextAt(comp, Height - 1))]
  ELSE [c EXCEPT !.texts = Append(@, TextAt(comp, c.count)), !.count = @ + 1]

Add(c, comp) ==
  CASE comp.kind = "header" -> SetHeader(c, comp)
    [] comp.kind = "option" -> AddOpt(c, comp)
    [] comp.kind = "text" -> AddText(c, comp)

-----------------------------------------------------------------------------
(* renderer.c                                                              *)

(* Mutant of Column: one too far to the right.                             *)
ColumnOff(align, len) ==
  CASE align = "center" -> (Width - len) \div 2
    [] align = "right" -> Width - len + 1
    [] align = "left" -> 0

(* Where a label starts (resolve_text_pos, calc_center_align_x_pos).  The  *)
(* column is a u16: one below zero is a large one, behind the line.        *)
Column(align, len) ==
  CASE align = "center" -> (Width - len) \div 2
    [] align = "right" -> Width - len
    [] align = "left" -> 0

(* The calls of edit_line_buf that ui_render_container makes.              *)
Write(name, line, x, len, color) ==
  [name |-> name, line |-> line, x |-> x, len |-> len, color |-> color]
Writes(c) ==
  LET options == con[c].options
      texts == con[c].texts
  IN  << Write(<<c, "header">>, 0, Column("center", con[c].header), con[c].header, "blue") >>
      \o [p \in DOMAIN options |->
            Write(<<c, "option", p>>, options[p].line, 0, options[p].len,
                  IF p \in lit[c] THEN "white" ELSE "none")]
      \o [t \in DOMAIN texts |->
            Write(<<c, "text", t>>, texts[t].line, Column(texts[t].align, texts[t].len),
                  texts[t].len, texts[t].color)]

(* get_line_buf has no check: a line behind the last one is not memory of  *)
(* the screen.  fix_string_set_i asserts that a character is in the line.  *)
OffScreen(w) == w.line >= Height
OffLine(w) == w.len > 0 /\ (w.x < 0 \/ w.x + w.len > Width)

(* The first write that is not one to the screen ends the program.         *)
Bad(writes) == {n \in DOMAIN writes : OffScreen(writes[n]) \/ OffLine(writes[n])}

(* make_line_buf, ui_renderer_clear                                        *)
BlankScreen ==
  [l \in 0..(Height - 1) |-> [color |-> "none", cells |-> [i \in 0..(Width - 1) |-> <<>>]]]

(* What edit_line_buf makes of a cleared screen: a line has the colour of  *)
(* the last write to it, and a cell shows the last write that covers it.   *)
OnLine(writes, l) == {n \in DOMAIN writes : writes[n].line = l}
Covering(writes, l, i) ==
  {n \in OnLine(writes, l) : i - writes[n].x \in 0..(writes[n].len - 1)}
Shown(writes) ==
  [l \in 0..(Height - 1) |->
    [color |-> IF OnLine(writes, l) = {} THEN "none" ELSE writes[Max(OnLine(writes, l))].color,
     cells |-> [i \in 0..(Width - 1) |->
                 LET over == Covering(writes, l, i)
                 IN  IF over = {} THEN <<>>
                     ELSE <<writes[Max(over)].name, i - writes[Max(over)].x>>]]]
Drawn(c) == Shown(Writes(c))

(* render_container of the copy in block b.                                *)
Render(b, cs) ==
  \E writes \in {Writes(cs[b].con)} :
    \/ Bad(writes) = {} /\ screen' = Shown(writes) /\ pc' = "wait"
    \/ \E n \in Bad(writes) :
         /\ \A m \in Bad(writes) : n <= m
         /\ pc' = IF OffScreen(writes[n]) THEN "fault" ELSE "exited"
         /\ UNCHANGED screen

-----------------------------------------------------------------------------
(* menu.h: the copy of a container in block b                              *)

(* malloc                                                                  *)
Fresh == CHOOSE b \in 1..MaxDepth : b \notin DOMAIN copies
WithCopy(d) == [b \in DOMAIN copies \cup {Fresh} |-> IF b = Fresh THEN d ELSE copies[b]]

(* Mutant of SetCurrent: the selector is not the new container's own.      *)
SetCurrentKeepsOn(c) ==
  /\ menu' = Pushed(menu, Fresh)
  /\ copies' = WithCopy([con |-> c, on |-> IF copies = <<>> THEN 0 ELSE copies[cur].on])
  /\ visits' = [visits EXCEPT ![c] = IF @ = 0 THEN 1 ELSE 2]

SetCurrent(c) ==
  /\ menu' = Pushed(menu, Fresh)
  /\ copies' = WithCopy([con |-> c, on |-> 0])
  /\ visits' = [visits EXCEPT ![c] = IF @ = 0 THEN 1 ELSE 2]

MenuReturn ==
  \/ /\ menu.size > 1
     /\ menu' = Popped(menu)
     /\ copies' = [b \in DOMAIN copies \ {Back(menu)} |-> copies[b]]
  \/ menu.size = 1 /\ UNCHANGED <<menu, copies>>

-----------------------------------------------------------------------------
(* gui_init                                                                *)
Init ==
  /\ todo \in Scripts
  /\ con = [c \in Containers |-> ContainerMade] /\ lit = [c \in Containers |-> {}]
  /\ menu = Made /\ copies = <<>> /\ visits = [c \in Containers |-> 0]
  /\ key = "none" /\ cur = Null /\ dirty = FALSE /\ screen = BlankScreen
  /\ pc = "build"

(* The next component is added to container c; the first option is lit.    *)
Build(c) ==
  /\ pc = "build" /\ todo[c] # <<>>
  /\ con' = [con EXCEPT ![c] = Add(@, Head(todo[c]))]
  /\ lit' = [lit EXCEPT ![c] =
               IF Head(todo[c]).kind = "option" /\ con[c].options = <<>> THEN {1} ELSE @]
  /\ todo' = [todo EXCEPT ![c] = Tail(@)]
  /\ UNCHANGED <<menu, copies, visits, key, cur, dirty, screen, pc>>

(* The rest of gui_init, once all containers are built.                    *)
Open ==
  /\ pc = "build" /\ \A c \in Containers : todo[c] = <<>>
  /\ SetCurrent(Main) /\ dirty' = TRUE /\ pc' = "top"
  /\ UNCHANGED <<todo, con, lit, key, cur, screen>>

-----------------------------------------------------------------------------
(* gui_loop up to kbio_check_input_block                                   *)

Quit ==
  /\ pc = "top" /\ key = "q"
  /\ pc' = "stopped"
  /\ UNCHANGED <<heapVars, key, cur, dirty, screen>>

(* Mutants of Return: the screen is not drawn again, or the current        *)
(* container is looked up before the menu returns.                         *)
ReturnUnseen ==
  /\ pc = "top" /\ key = "r"
  /\ MenuReturn
  /\ cur' = Back(menu') /\ pc' = "wait"
  /\ UNCHANGED <<todo, con, lit, key, dirty, screen, visits>>
ReturnStale ==
  /\ pc = "top" /\ key = "r"
  /\ MenuReturn
  /\ cur' = Back(menu) /\ dirty' = TRUE
  /\ Render(Back(menu), copies)
  /\ UNCHANGED <<todo, con, lit, key, visits>>

Return ==
  /\ pc = "top" /\ key = "r"
  /\ MenuReturn
  /\ cur' = Back(menu') /\ dirty' = TRUE
  /\ Render(cur', copies')
  /\ UNCHANGED <<todo, con, lit, key, visits>>

(* Mutant of Stay: the loop does not wait for another key.                 *)
StayAgain ==
  /\ pc = "top" /\ key \notin {"q", "r"}
  /\ cur' = Back(menu) /\ pc' = (IF key = "none" THEN "wait" ELSE "handle")
  /\ screen' = Drawn(copies[cur'].con)
  /\ UNCHANGED <<heapVars, key, dirty>>

Stay ==
  /\ pc = "top" /\ key \notin {"q", "r"}
  /\ cur' = Back(menu)
  /\ \/ dirty /\ Render(cur', copies)
     \/ ~dirty /\ pc' = "wait" /\ UNCHANGED screen
  /\ UNCHANGED <<heapVars, key, dirty>>

(* The user presses a key (within the bound MaxDepth).                     *)
Press(k) ==
  /\ pc = "wait" /\ (k = "e" => DOMAIN copies # 1..MaxDepth)
  /\ key' = k /\ pc' = "handle"
  /\ UNCHANGED <<heapVars, cur, dirty, screen>>

-----------------------------------------------------------------------------
(* ui_selector_loop of the current container                               *)

Options(c) == con[c].options
Selc == copies[cur]

(* Mutant of MoveTo: the flag is not taken from the option left.           *)
MoveToBoth(n) ==
  /\ lit' = [lit EXCEPT ![Selc.con] = @ \cup {n + 1}]
  /\ copies' = [copies EXCEPT ![cur].on = n]

(* The selector moves to option n: the flags and the number.               *)
MoveTo(n) ==
  /\ lit' = [lit EXCEPT ![Selc.con] = (@ \ {Selc.on + 1}) \cup {n + 1}]
  /\ copies' = [copies EXCEPT ![cur].on = n]

Handling(k) == pc = "handle" /\ key = k /\ cur \in DOMAIN copies

Up ==
  /\ Handling("w")
  /\ \/ Selc.on # 0 /\ MoveTo(Selc.on - 1)
     \/ Selc.on = 0 /\ UNCHANGED <<lit, copies>>
  /\ dirty' = TRUE /\ pc' = "top"
  /\ UNCHANGED <<todo, con, menu, visits, key, cur, screen>>

(* Mutants of Down: the selector does not move, or stops one option too    *)
(* late.                                                                   *)
DownNowhere ==
  /\ Handling("s") /\ Options(Selc.con) # <<>>
  /\ dirty' = TRUE /\ pc' = "top"
  /\ UNCHANGED <<heapVars, key, cur, screen>>
DownTooFar ==
  /\ Handling("s") /\ Options(Selc.con) # <<>>
  /\ \/ Selc.on < Len(Options(Selc.con)) /\ MoveTo(Selc.on + 1)
     \/ Selc.on >= Len(Options(Selc.con)) /\ UNCHANGED <<lit, copies>>
  /\ dirty' = TRUE /\ pc' = "top"
  /\ UNCHANGED <<todo, con, menu, visits, key, cur, screen>>

Down ==
  /\ Handling("s") /\ Options(Selc.con) # <<>>
  /\ \/ Selc.on + 1 < Len(Options(Selc.con)) /\ MoveTo(Selc.on + 1)
     \/ Selc.on + 1 >= Len(Options(Selc.con)) /\ UNCHANGED <<lit, copies>>
  /\ dirty' = TRUE /\ pc' = "top"
  /\ UNCHANGED <<todo, con, menu, visits, key, cur, screen>>

(* handle_selc: the handler is change_menu, or one that does not touch the *)
(* menu (handle_get_student_id).                                           *)
Select ==
  /\ Handling("e") /\ Selc.on < Len(Options(Selc.con))
  /\ LET target == Options(Selc.con)[Selc.on + 1].target
     IN  \/ target # NoTarget /\ SetCurrent(target)
         \/ target = NoTarget /\ UNCHANGED <<menu, copies, visits>>
  /\ dirty' = TRUE /\ pc' = "top"
  /\ UNCHANGED <<todo, con, lit, key, cur, screen>>

(* There is no option: size - 1 wraps around, and an ASSERT of vec_get     *)
(* ends the program.                                                       *)
NoOption ==
  /\ Handling("s") \/ Handling("e")
  /\ Options(Selc.con) = <<>>
  /\ pc' = "exited"
  /\ UNCHANGED <<heapVars, key, cur, dirty, screen>>

(* Mutant of Ignore: the key is forgotten.                                 *)
IgnoreForgets ==
  /\ pc = "handle" /\ key \notin {"w", "s", "e"}
  /\ dirty' = FALSE /\ pc' = "top" /\ key' = "none"
  /\ UNCHANGED <<heapVars, cur, screen>>

(* The selector has no use for the key.                                    *)
Ignore ==
  /\ pc = "handle" /\ key \notin {"w", "s", "e"}
  /\ dirty' = FALSE /\ pc' = "top"
  /\ UNCHANGED <<heapVars, key, cur, screen>>

Halted == pc \in {"stopped", "exited", "fault"} /\ UNCHANGED vars

LoopStep == Quit \/ Return \/ Stay \/ Up \/ Down \/ Select \/ NoOption \/ Ignore
Next ==
  \/ (\E c \in Containers : Build(c)) \/ Open
  \/ LoopStep \/ (\E k \in Keys : Press(k)) \/ Halted

Spec == Init /\ [][Next]_vars

(* The loop runs on; nobody has to press a key.                            *)
FairSpec == Spec /\ WF_vars(LoopStep)

-----------------------------------------------------------------------------
(* Properties                                                              *)

(* current_con is the container on top of the menu, and its block is not   *)
(* freed, from the moment gui_loop looks it up until the key is handled.   *)
CurrentValid ==
  pc \in {"wait", "handle"} => cur = Back(menu) /\ cur \in DOMAIN copies

Labels(c) ==
  {<<<<c, "header">>, con[c].header>>}
    \cup {<<<<c, "option", p>>, con[c].options[p].len>> : p \in DOMAIN con[c].options}
    \cup {<<<<c, "text", t>>, con[c].texts[t].len>> : t \in DOMAIN con[c].texts}

(* The program ends only because of q, or of a container that nobody       *)
(* should have built: one without options, with more lines than there are  *)
(* on the screen, or with a label that is wider than the screen.           *)
EndsOnlyOnBadContainer ==
  LET c == copies[Back(menu)].con
  IN  /\ pc = "exited" => Options(c) = <<>> \/ \E label \in Labels(c) : label[2] > Width
      /\ pc = "fault" => con[c].count > Height

(* While the program waits for a key, the screen shows the container on    *)
(* top of the menu as it is now: no change goes without an update.         *)
ScreenCurrent == pc = "wait" => screen = Drawn(copies[Back(menu)].con)

(* The components of a container, header and footer included, have a line  *)
(* each on the screen.                                                     *)
Footers(c) == {t \in DOMAIN con[c].texts : con[c].texts[t].footer}
Fits(c) == Cardinality(Footers(c)) <= 1 /\ con[c].count + Cardinality(Footers(c)) <= Height

(* In a container that fits, no component hides another: every label can   *)
(* be read on the screen as a whole, wherever it is aligned.               *)
LabelsReadable ==
  LET c == copies[Back(menu)].con
  IN  pc = "wait" /\ Fits(c) =>
        \A label \in Labels(c) : \E l \in DOMAIN screen, x \in 0..(Width - label[2]) :
          \A i \in 0..(label[2] - 1) : screen[l].cells[x + i] = <<label[1], i>>

(* What is lit is what is selected: in a container that fits and has been  *)
(* entered once, and has no text in the colour of a selected option, the   *)
(* one line that is lit is that of the option which the select key takes.  *)
(* (Entered again, a container has a selector that starts at the first     *)
(* option, and the flags of the visit before.)                             *)
NoneWhite(c) == \A t \in DOMAIN con[c].texts : con[c].texts[t].color # "white"
WhatIsLitIsSelected ==
  LET c == copies[Back(menu)]
  IN  pc = "wait" /\ visits[c.con] = 1 /\ Fits(c.con) /\ NoneWhite(c.con) =>
        {l \in DOMAIN screen : screen[l].color = "white"} =
          {Options(c.con)[p].line : p \in {c.on + 1} \cap DOMAIN Options(c.con)}

(* A key that returns or quits is noticed: it is still there when gui_loop *)
(* comes back to the top.                                                  *)
KeysNoticed ==
  /\ (pc = "handle" /\ key = "q") ~> pc = "stopped"
  /\ \A d \in 2..MaxDepth :
       (pc = "handle" /\ key = "r" /\ menu.size = d) ~> menu.size = d - 1

(* The menu is a stack of containers and selected options: the options are *)
(* those that were added, in order, and each key does to the stack what    *)
(* the operation of Menu does that it stands for, once.  A key waits from  *)
(* the moment it is pressed until the selector has handled it, or, if it   *)
(* is one of those that gui_loop handles, until the next turn of the loop; *)
(* from then on kbio_ch still has it, and nothing may act on it again.     *)
Targets == [c \in Containers |-> [p \in DOMAIN Options(c) |-> Options(c)[p].target]]
Stack == [p \in 1..menu.size |-> copies[menu.slots[p]]]
ForLoop == {"r", "q"}
Waiting == IF pc = "handle" \/ (pc = "top" /\ key \in ForLoop) THEN key ELSE "none"
M == INSTANCE Menu WITH stack <- Stack, targets <- Targets, input <- Waiting
OperationsAgree ==
  /\ \A c \in Containers :
       Build(c) => IF Head(todo[c]).kind = "option"
                   THEN M!AddOption(c, Head(todo[c]).target) ELSE UNCHANGED M!vars
  /\ (Open => M!Open(Main))
  /\ \A k \in Keys : Press(k) => M!Press(k)
  /\ (Up => M!Up) /\ (Down => M!Down) /\ (Select => M!Enter) /\ (Return => M!Return)
  /\ (NoOption => M!Drop) /\ (Quit => M!Drop)
  /\ (Ignore => IF key \in ForLoop THEN UNCHANGED M!vars ELSE M!Drop)
  /\ (Stay => UNCHANGED M!vars)
ImplementsMenu == M!Init /\ [][[M!Next]_M!vars /\ OperationsAgree]_vars
=============================================================================
