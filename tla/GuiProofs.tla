------------------------------ MODULE GuiProofs ------------------------------
(***************************************************************************)
(* The terminal interface, for every set of containers, every script of    *)
(* components, every screen and every depth of the menu.                   *)
(***************************************************************************)
EXTENDS Gui, VectorOpsProofs, FiniteSetTheorems

-----------------------------------------------------------------------------
(* The inductive invariant                                                 *)

(* A component added in its turn has a line of its own, below the header   *)
(* and above the line of the next one; a footer is on the last line.       *)
Numbered(r) ==
  /\ r.count >= 1
  /\ \A p \in DOMAIN r.options : r.options[p].line \in 1..(r.count - 1)
  /\ \A p, q \in DOMAIN r.options : r.options[p].line = r.options[q].line => p = q
  /\ \A t \in DOMAIN r.texts :
       r.texts[t].line \in IF r.texts[t].footer THEN {Height - 1} ELSE 1..(r.count - 1)
  /\ \A t, s \in DOMAIN r.texts :
       ~r.texts[t].footer /\ ~r.texts[s].footer /\ r.texts[t].line = r.texts[s].line => t = s
  /\ \A t \in DOMAIN r.texts, p \in DOMAIN r.options :
       ~r.texts[t].footer => r.texts[t].line # r.options[p].line
LinesOK == \A c \in Containers : Numbered(con[c])

(* The slots of the menu hold the allocated blocks, each one once.         *)
Stacked(v, cs) ==
  /\ Room(v) /\ Tight(v)
  /\ \A p \in 1..v.size : v.slots[p] \in DOMAIN cs
  /\ \A p, q \in 1..v.size : v.slots[p] = v.slots[q] => p = q
  /\ \A b \in DOMAIN cs : \E p \in 1..v.size : v.slots[p] = b
MenuOK == Stacked(menu, copies) /\ (pc = "build" <=> menu.size = 0)

(* The key that is handled was pressed; there is a block for the container *)
(* that the select key may enter.                                          *)
KeyOK ==
  /\ pc = "build" => key = "none"
  /\ pc = "handle" => key \in Keys /\ (key = "e" => DOMAIN copies # 1..MaxDepth)

(* A selector stands on an option, or at the start.                        *)
SelectorsOK ==
  \A b \in DOMAIN copies : copies[b].on = 0 \/ copies[b].on < Len(Options(copies[b].con))

(* Of a container never entered the first option is lit; of one entered    *)
(* once, the option that its one selector stands on.                       *)
LitOK ==
  \A c \in Containers :
    /\ visits[c] = 0 => lit[c] = {1} \cap 1..Len(Options(c))
    /\ visits[c] = 0 => \A b \in DOMAIN copies : copies[b].con # c
    /\ visits[c] = 1 => \A b, d \in DOMAIN copies :
                          copies[b].con = c /\ copies[d].con = c => b = d
    /\ visits[c] = 1 => \A b \in DOMAIN copies :
                          copies[b].con = c => lit[c] = {copies[b].on + 1} \cap 1..Len(Options(c))

(* The screen is as the container on top of the menu was last rendered,    *)
(* unless an update is due; rendering it ended the program otherwise.      *)
TopCon == copies[Back(menu)].con
UpToDate == pc \in {"wait", "handle"} \/ (pc = "top" /\ ~dirty)
ShownOK == UpToDate => Bad(Writes(TopCon)) = {} /\ screen = Drawn(TopCon)

GuiInv ==
  /\ TypeOK /\ LinesOK /\ MenuOK /\ KeyOK /\ SelectorsOK /\ LitOK
  /\ CurrentValid /\ ShownOK /\ EndsOnlyOnBadContainer

-----------------------------------------------------------------------------
(* Containers under construction                                           *)

LEMMA ComponentKinds ==
  ASSUME NEW comp \in Component
  PROVE  /\ comp.kind \in {"header", "option", "text"} /\ comp.len \in Nat
         /\ comp.kind = "option" => comp.target \in Containers \cup {NoTarget}
         /\ comp.kind = "text" =>
              comp.align \in Alignments /\ comp.color \in STRING /\ comp.footer \in BOOLEAN
  BY DEF Component

(* A new option: it has the next line, and the others keep theirs.         *)
LEMMA AddOptFacts ==
  ASSUME NEW r \in Container, NEW comp \in Component, comp.kind = "option", Numbered(r)
  PROVE  /\ AddOpt(r, comp) \in Container /\ Numbered(AddOpt(r, comp))
         /\ \E o \in Option : o.target = comp.target
                           /\ AddOpt(r, comp).options = Append(r.options, o)
  <1> DEFINE o == [line |-> r.count, len |-> comp.len, target |-> comp.target]
             s == Append(r.options, o)
             n == r.count + 1
             q == [count |-> n, header |-> r.header, options |-> s, texts |-> r.texts]
  <1>1. r.count \in Nat /\ r.header \in Nat /\ r.options \in Seq(Option)
        /\ r.texts \in Seq(TextComponent)
    BY DEF Container
  <1>2. o \in Option /\ o.target = comp.target /\ o.line = r.count
    BY <1>1, ComponentKinds DEF Option
  <1>3. AddOpt(r, comp) = [r EXCEPT !.options = s, !.count = @ + 1]
    BY DEF AddOpt
  <1> HIDE DEF o
  <1>4. /\ s \in Seq(Option) /\ Len(s) = Len(r.options) + 1 /\ s[Len(r.options) + 1] = o
        /\ \A p \in 1..Len(r.options) : s[p] = r.options[p]
    BY <1>1, <1>2, AppendProperties
  <1> HIDE DEF s
  <1>5. AddOpt(r, comp) = q
    BY <1>3 DEF Container
  <1>6. q \in Container
    BY <1>1, <1>4 DEF Container
  <1>7. DOMAIN r.options = 1..Len(r.options) /\ DOMAIN s = 1..(Len(r.options) + 1)
        /\ Len(r.options) \in Nat
    BY <1>1, <1>4
  <1>8. Numbered(q)
    <2>0. /\ q.count = n /\ q.options = s /\ q.texts = r.texts
          /\ r.count >= 1
      BY DEF Numbered
    <2>1. \A p \in DOMAIN s :
            p = Len(r.options) + 1 \/ (p \in DOMAIN r.options /\ s[p] = r.options[p])
      BY <1>4, <1>7
    <2>2. r.count \in 1..(n - 1)
      BY <1>1, <2>0
    <2>10. n >= 1
      BY <1>1, <2>0
    <2>3. \A p \in DOMAIN r.options :
            r.options[p].line \in 1..(n - 1) /\ r.options[p].line # r.count
      BY <1>1 DEF Numbered
    <2>4. \A t \in DOMAIN r.texts :
            r.texts[t].line \in IF r.texts[t].footer THEN {Height - 1} ELSE 1..(n - 1)
      BY <1>1 DEF Numbered
    <2>9. \A t \in DOMAIN r.texts : ~r.texts[t].footer => r.texts[t].line # r.count
      BY <1>1 DEF Numbered
    <2> HIDE DEF n
    <2>5. \A p \in DOMAIN s : s[p].line \in 1..(n - 1)
      BY <1>2, <1>4, <2>1, <2>2, <2>3
    <2>6. \A p, w \in DOMAIN s : s[p].line = s[w].line => p = w
      BY <1>2, <1>4, <2>1, <2>3 DEF Numbered
    <2>7. \A t \in DOMAIN r.texts, p \in DOMAIN s :
            ~r.texts[t].footer => r.texts[t].line # s[p].line
      BY <1>2, <1>4, <2>1, <2>9 DEF Numbered
    <2>8. \A t, w \in DOMAIN r.texts :
            ~r.texts[t].footer /\ ~r.texts[w].footer /\ r.texts[t].line = r.texts[w].line => t = w
      BY DEF Numbered
    <2> HIDE DEF q
    <2> QED BY <2>0, <2>10, <2>4, <2>5, <2>6, <2>7, <2>8 DEF Numbered
  <1>9. q.options = s
    OBVIOUS
  <1> HIDE DEF q
  <1> QED BY <1>2, <1>5, <1>6, <1>8, <1>9 DEF s

(* A new text: likewise, unless it is a footer.                            *)
LEMMA AddTextFacts ==
  ASSUME NEW r \in Container, NEW comp \in Component, comp.kind = "text", Numbered(r)
  PROVE  /\ AddText(r, comp) \in Container /\ Numbered(AddText(r, comp))
         /\ AddText(r, comp).options = r.options
  <1> DEFINE n == IF comp.footer THEN r.count ELSE r.count + 1
             l == IF comp.footer THEN Height - 1 ELSE r.count
             o == TextAt(comp, l)
             s == Append(r.texts, o)
             q == [count |-> n, header |-> r.header, options |-> r.options, texts |-> s]
  <1>1. r.count \in Nat /\ r.header \in Nat /\ r.options \in Seq(Option)
        /\ r.texts \in Seq(TextComponent) /\ comp.footer \in BOOLEAN
    BY ComponentKinds DEF Container
  <1>2. l \in Nat /\ n \in Nat
    BY <1>1, GuiAssumption
  <1>3. o \in TextComponent /\ o.line = l /\ o.footer = comp.footer
    BY <1>2, ComponentKinds DEF TextComponent, TextAt
  <1>4. AddText(r, comp) = [r EXCEPT !.texts = s, !.count = n]
    <2>1. CASE comp.footer
      BY <1>1, <2>1 DEF AddText, Container
    <2>2. CASE ~comp.footer
      BY <1>1, <2>2 DEF AddText, Container
    <2> QED BY <2>1, <2>2
  <1> HIDE DEF o
  <1>5. /\ s \in Seq(TextComponent) /\ Len(s) = Len(r.texts) + 1 /\ s[Len(r.texts) + 1] = o
        /\ \A p \in 1..Len(r.texts) : s[p] = r.texts[p]
    BY <1>1, <1>3, AppendProperties
  <1> HIDE DEF s, n
  <1>6. AddText(r, comp) = q
    BY <1>4 DEF Container
  <1>7. q \in Container
    BY <1>1, <1>2, <1>5 DEF Container
  <1>8. DOMAIN r.texts = 1..Len(r.texts) /\ DOMAIN s = 1..(Len(r.texts) + 1)
        /\ Len(r.texts) \in Nat
    BY <1>1, <1>5
  <1>9. Numbered(q)
    <2>0. q.count = n /\ q.options = r.options /\ q.texts = s /\ r.count >= 1
      BY DEF Numbered
    <2>1. \A t \in DOMAIN s : t = Len(r.texts) + 1 \/ (t \in DOMAIN r.texts /\ s[t] = r.texts[t])
      BY <1>5, <1>8
    <2>2. n \in {r.count, r.count + 1} /\ r.count - 1 <= n - 1 /\ n >= 1
      BY <1>1, <2>0 DEF n
    <2>3. \A p \in DOMAIN r.options :
            r.options[p].line \in 1..(n - 1) /\ r.options[p].line \in 1..(r.count - 1)
      BY <1>1, <1>2, <2>2 DEF Numbered
    <2>4. ~comp.footer => l = r.count /\ r.count \in 1..(n - 1) /\ r.count \notin 1..(r.count - 1)
      BY <1>1, <2>0 DEF n
    <2>5. \A t \in DOMAIN r.texts : ~r.texts[t].footer =>
            r.texts[t].line \in 1..(n - 1) /\ r.texts[t].line \in 1..(r.count - 1)
      BY <1>1, <1>2, <2>2 DEF Numbered
    <2>6. \A t \in DOMAIN r.texts : r.texts[t].footer => r.texts[t].line = Height - 1
      BY DEF Numbered
    <2>7. comp.footer => l = Height - 1
      OBVIOUS
    <2> HIDE DEF l
    <2>8. \A t \in DOMAIN s : s[t].line \in IF s[t].footer THEN {Height - 1} ELSE 1..(n - 1)
      BY <1>3, <1>5, <2>1, <2>4, <2>5, <2>6, <2>7
    <2>9. \A t, w \in DOMAIN s :
            ~s[t].footer /\ ~s[w].footer /\ s[t].line = s[w].line => t = w
      BY <1>3, <1>5, <2>1, <2>4, <2>5 DEF Numbered
    <2>10. \A t \in DOMAIN s, p \in DOMAIN r.options :
             ~s[t].footer => s[t].line # r.options[p].line
      BY <1>3, <1>5, <2>1, <2>3, <2>4 DEF Numbered
    <2>11. \A p, w \in DOMAIN r.options : r.options[p].line = r.options[w].line => p = w
      BY DEF Numbered
    <2> HIDE DEF q
    <2> QED BY <2>0, <2>2, <2>3, <2>8, <2>9, <2>10, <2>11 DEF Numbered
  <1> QED BY <1>6, <1>7, <1>9

(* Every component that is added keeps the lines apart.                    *)
LEMMA AddFacts ==
  ASSUME NEW r \in Container, NEW comp \in Component, Numbered(r)
  PROVE  /\ Add(r, comp) \in Container /\ Numbered(Add(r, comp))
         /\ comp.kind # "option" => Add(r, comp).options = r.options
         /\ comp.kind = "option" => \E o \in Option : o.target = comp.target
                                      /\ Add(r, comp).options = Append(r.options, o)
  <1>1. CASE comp.kind = "option"
    BY <1>1, AddOptFacts DEF Add
  <1>2. CASE comp.kind = "text"
    BY <1>2, AddTextFacts DEF Add
  <1>3. CASE comp.kind = "header"
    <2>1. Add(r, comp) = [count |-> r.count, header |-> comp.len, options |-> r.options,
                          texts |-> r.texts]
      BY <1>3 DEF Add, SetHeader, Container
    <2>2. Add(r, comp) \in Container
      BY <2>1, ComponentKinds DEF Container
    <2>3. Numbered(Add(r, comp))
      BY <2>1 DEF Numbered
    <2> QED BY <1>3, <2>1, <2>2, <2>3
  <1> QED BY <1>1, <1>2, <1>3, ComponentKinds

-----------------------------------------------------------------------------
(* What a container writes to the screen                                   *)

HeaderWrite(c, r) ==
  Write(<<c, "header">>, 0, Column("center", r.header), r.header, "blue")
OptionWrite(c, r, on, p) ==
  Write(<<c, "option", p>>, r.options[p].line, 0, r.options[p].len,
        IF p \in on THEN "white" ELSE "none")
TextWrite(c, r, t) ==
  Write(<<c, "text", t>>, r.texts[t].line, Column(r.texts[t].align, r.texts[t].len),
        r.texts[t].len, r.texts[t].color)
WritesOf(c, r, on) ==
  << HeaderWrite(c, r) >>
  \o [p \in DOMAIN r.options |-> OptionWrite(c, r, on, p)]
  \o [t \in DOMAIN r.texts |-> TextWrite(c, r, t)]

LEMMA WritesAre == \A c : Writes(c) = WritesOf(c, con[c], lit[c])
  BY DEF Writes, WritesOf, HeaderWrite, OptionWrite, TextWrite

(* A label that is not wider than the screen is not off its line, however  *)
(* it is aligned.                                                          *)
LEMMA ColumnFacts ==
  ASSUME NEW align \in Alignments, NEW len \in Nat
  PROVE  /\ Column(align, len) \in Int
         /\ len <= Width => Column(align, len) >= 0 /\ Column(align, len) + len <= Width
  <1>1. Width \in Nat
    BY GuiAssumption
  <1>2. (Width - len) \div 2 \in Int
    BY <1>1
  <1>3. len <= Width => (Width - len) \div 2 >= 0 /\ (Width - len) \div 2 + len <= Width
    <2> SUFFICES ASSUME len <= Width
                 PROVE  (Width - len) \div 2 >= 0 /\ (Width - len) \div 2 + len <= Width
      OBVIOUS
    <2>1. Width - len \in Nat
      BY <1>1
    <2>2. (Width - len) \div 2 >= 0 /\ (Width - len) \div 2 <= Width - len
      BY <2>1
    <2> QED BY <1>1, <1>2, <2>2
  <1>4. CASE align = "center"
    BY <1>2, <1>3, <1>4 DEF Column
  <1>5. CASE align = "right"
    BY <1>1, <1>5 DEF Column
  <1>6. CASE align = "left"
    BY <1>1, <1>6 DEF Column
  <1> QED BY <1>4, <1>5, <1>6 DEF Alignments

(* The writes are those of the header, of the options and of the texts.    *)
LEMMA WritesFacts ==
  ASSUME NEW c, NEW r \in Container, NEW on
  PROVE  LET W == WritesOf(c, r, on)
             no == Len(r.options)
             nt == Len(r.texts)
         IN  /\ no \in Nat /\ nt \in Nat /\ DOMAIN W = 1..(1 + no + nt)
             /\ W[1] = HeaderWrite(c, r)
             /\ \A p \in 1..no : W[1 + p] = OptionWrite(c, r, on, p)
             /\ \A t \in 1..nt : W[1 + no + t] = TextWrite(c, r, t)
  <1> DEFINE no == Len(r.options)
             nt == Len(r.texts)
             h == << HeaderWrite(c, r) >>
             o == [p \in DOMAIN r.options |-> OptionWrite(c, r, on, p)]
             t == [q \in DOMAIN r.texts |-> TextWrite(c, r, q)]
             S == {HeaderWrite(c, r)} \cup {o[p] : p \in 1..no} \cup {t[q] : q \in 1..nt}
  <1>1. no \in Nat /\ nt \in Nat /\ DOMAIN r.options = 1..no /\ DOMAIN r.texts = 1..nt
    BY DEF Container
  <1>2. h \in Seq(S) /\ Len(h) = 1 /\ h[1] = HeaderWrite(c, r)
    OBVIOUS
  <1>3. o \in [1..no -> S] /\ t \in [1..nt -> S]
    BY <1>1
  <1>4. o \in Seq(S) /\ Len(o) = no /\ t \in Seq(S) /\ Len(t) = nt
    <2> HIDE DEF o, t, S
    <2> QED BY <1>1, <1>3, SeqDef
  <1>5. /\ \A p \in 1..no : o[p] = OptionWrite(c, r, on, p)
        /\ \A q \in 1..nt : t[q] = TextWrite(c, r, q)
    BY <1>1
  <1>6. WritesOf(c, r, on) = (h \o o) \o t
    BY DEF WritesOf
  <1> HIDE DEF h, o, t, S, no, nt
  <1>7. \A U : \A a, b \in Seq(U) :
          /\ a \o b \in Seq(U) /\ Len(a \o b) = Len(a) + Len(b)
          /\ \A i \in 1..(Len(a) + Len(b)) :
               (a \o b)[i] = IF i <= Len(a) THEN a[i] ELSE b[i - Len(a)]
    BY ConcatProperties
  <1>8. /\ h \o o \in Seq(S) /\ Len(h \o o) = 1 + no
        /\ \A i \in 1..(1 + no) : (h \o o)[i] = IF i <= 1 THEN h[i] ELSE o[i - 1]
    <2>1. h \in Seq(S) /\ o \in Seq(S)
      BY <1>2, <1>4
    <2>2. /\ h \o o \in Seq(S) /\ Len(h \o o) = Len(h) + Len(o)
          /\ \A i \in 1..(Len(h) + Len(o)) :
               (h \o o)[i] = IF i <= Len(h) THEN h[i] ELSE o[i - Len(h)]
      BY <2>1, <1>7
    <2>3. Len(h) = 1 /\ Len(o) = no
      BY <1>2, <1>4
    <2> QED BY <2>2, <2>3
  <1> DEFINE ho == h \o o
             W == ho \o t
  <1> HIDE DEF ho
  <1>9. /\ W \in Seq(S) /\ Len(W) = 1 + no + nt
        /\ \A i \in 1..(1 + no + nt) : W[i] = IF i <= 1 + no THEN ho[i] ELSE t[i - (1 + no)]
    <2>1. ho \in Seq(S) /\ t \in Seq(S)
      BY <1>4, <1>8 DEF ho
    <2>2. /\ ho \o t \in Seq(S) /\ Len(ho \o t) = Len(ho) + Len(t)
          /\ \A i \in 1..(Len(ho) + Len(t)) :
               (ho \o t)[i] = IF i <= Len(ho) THEN ho[i] ELSE t[i - Len(ho)]
      BY <2>1, <1>7
    <2>3. Len(ho) = 1 + no /\ Len(t) = nt
      BY <1>4, <1>8 DEF ho
    <2> QED BY <2>2, <2>3
  <1>10. DOMAIN W = 1..(1 + no + nt)
    BY <1>9, LenProperties
  <1> HIDE DEF W
  <1>11. ho[1] = HeaderWrite(c, r) /\ \A p \in 1..no : ho[1 + p] = o[p]
    BY <1>1, <1>2, <1>8 DEF ho
  <1>12. W[1] = HeaderWrite(c, r)
    BY <1>1, <1>9, <1>11
  <1>13. ASSUME NEW p \in 1..no PROVE W[1 + p] = OptionWrite(c, r, on, p)
    <2>1. 1 + p \in 1..(1 + no + nt) /\ 1 + p <= 1 + no
      BY <1>1
    <2> QED BY <1>5, <1>9, <1>11, <2>1
  <1>14. ASSUME NEW q \in 1..nt PROVE W[1 + no + q] = TextWrite(c, r, q)
    <2>1. /\ 1 + no + q \in 1..(1 + no + nt) /\ ~(1 + no + q <= 1 + no)
          /\ (1 + no + q) - (1 + no) = q
      BY <1>1
    <2> QED BY <1>5, <1>9, <2>1
  <1>15. WritesOf(c, r, on) = W
    BY <1>6 DEF W, ho
  <1> QED BY <1>1, <1>10, <1>12, <1>13, <1>14, <1>15 DEF no, nt

(* Each of them is the write of one component.                             *)
LEMMA WriteKinds ==
  ASSUME NEW c, NEW r \in Container, NEW on, NEW n \in DOMAIN WritesOf(c, r, on)
  PROVE  LET w == WritesOf(c, r, on)[n]
         IN  \/ n = 1 /\ w = HeaderWrite(c, r)
             \/ \E p \in DOMAIN r.options : n = 1 + p /\ w = OptionWrite(c, r, on, p)
             \/ \E t \in DOMAIN r.texts :
                  n = 1 + Len(r.options) + t /\ w = TextWrite(c, r, t)
  <1> DEFINE no == Len(r.options)
             nt == Len(r.texts)
             W == WritesOf(c, r, on)
  <1>1. DOMAIN r.options = 1..no /\ DOMAIN r.texts = 1..nt
    BY DEF Container
  <1>2. /\ no \in Nat /\ nt \in Nat /\ n \in 1..(1 + no + nt)
        /\ W[1] = HeaderWrite(c, r)
        /\ \A p \in 1..no : W[1 + p] = OptionWrite(c, r, on, p)
        /\ \A t \in 1..nt : W[1 + no + t] = TextWrite(c, r, t)
    BY WritesFacts
  <1> HIDE DEF no, nt, W
  <1>3. CASE n = 1
    BY <1>2, <1>3 DEF W
  <1>4. CASE n > 1 /\ n <= 1 + no
    <2>1. n - 1 \in 1..no /\ n = 1 + (n - 1)
      BY <1>2, <1>4
    <2>2. W[n] = OptionWrite(c, r, on, n - 1)
      BY <1>2, <2>1
    <2> QED BY <1>1, <2>1, <2>2 DEF W
  <1>5. CASE n > 1 + no
    <2>1. n - (1 + no) \in 1..nt /\ n = 1 + no + (n - (1 + no))
      BY <1>2, <1>5
    <2>2. W[n] = TextWrite(c, r, n - (1 + no))
      BY <1>2, <2>1
    <2> QED BY <1>1, <2>1, <2>2 DEF W, no
  <1> QED BY <1>2, <1>3, <1>4, <1>5

(* The fields of a write: it is off its line only if it is too wide.       *)
LEMMA WriteFields ==
  ASSUME NEW c, NEW r \in Container, NEW on, NEW n \in DOMAIN WritesOf(c, r, on)
  PROVE  LET w == WritesOf(c, r, on)[n]
         IN  /\ w.line \in Nat /\ w.x \in Int /\ w.len \in Nat
             /\ OffLine(w) => w.len > Width
  <1> DEFINE w == WritesOf(c, r, on)[n]
  <1>1. /\ r.header \in Nat
        /\ \A p \in DOMAIN r.options : r.options[p] \in Option
        /\ \A t \in DOMAIN r.texts : r.texts[t] \in TextComponent
    BY ElementOfSeq DEF Container
  <1>2. Width \in Nat
    BY GuiAssumption
  <1>3. ASSUME w = HeaderWrite(c, r)
        PROVE  w.line \in Nat /\ w.x \in Int /\ w.len \in Nat /\ (OffLine(w) => w.len > Width)
    <2>1. "center" \in Alignments
      BY DEF Alignments
    <2>2. w.line = 0 /\ w.x = Column("center", r.header) /\ w.len = r.header
      BY <1>3 DEF HeaderWrite, Write
    <2> HIDE DEF w
    <2>3. /\ r.header \in Nat /\ Column("center", r.header) \in Int
          /\ r.header <= Width => Column("center", r.header) >= 0
                                /\ Column("center", r.header) + r.header <= Width
      BY <1>1, <2>1, ColumnFacts
    <2> QED BY <1>2, <2>2, <2>3 DEF OffLine
  <1>4. ASSUME NEW p \in DOMAIN r.options, w = OptionWrite(c, r, on, p)
        PROVE  w.line \in Nat /\ w.x \in Int /\ w.len \in Nat /\ (OffLine(w) => w.len > Width)
    <2>1. w.line = r.options[p].line /\ w.x = 0 /\ w.len = r.options[p].len
      BY <1>4 DEF OptionWrite, Write
    <2>2. r.options[p].line \in Nat /\ r.options[p].len \in Nat
      BY <1>1 DEF Option
    <2> HIDE DEF w
    <2> QED BY <1>2, <2>1, <2>2 DEF OffLine
  <1>5. ASSUME NEW t \in DOMAIN r.texts, w = TextWrite(c, r, t)
        PROVE  w.line \in Nat /\ w.x \in Int /\ w.len \in Nat /\ (OffLine(w) => w.len > Width)
    <2>1. /\ w.line = r.texts[t].line /\ w.x = Column(r.texts[t].align, r.texts[t].len)
          /\ w.len = r.texts[t].len
      BY <1>5 DEF TextWrite, Write
    <2>2. /\ r.texts[t].line \in Nat /\ r.texts[t].len \in Nat
          /\ r.texts[t].align \in Alignments
      BY <1>1 DEF TextComponent
    <2> HIDE DEF w
    <2> QED BY <1>2, <2>1, <2>2, ColumnFacts DEF OffLine
  <1> QED BY <1>3, <1>4, <1>5, WriteKinds

-----------------------------------------------------------------------------
(* What a screen shows                                                     *)

(* A line that one write alone went to has the colour of this write, and   *)
(* shows its label where it is on the line.                                *)
LEMMA ShownLine ==
  ASSUME NEW W, DOMAIN W \subseteq Nat, NEW n \in DOMAIN W,
         NEW l \in 0..(Height - 1), W[n].line = l,
         \A m \in DOMAIN W : W[m].line = l => m = n
  PROVE  /\ Shown(W)[l].color = W[n].color
         /\ \A j \in 0..(Width - 1) : j - W[n].x \in 0..(W[n].len - 1) =>
              Shown(W)[l].cells[j] = <<W[n].name, j - W[n].x>>
  <1>1. OnLine(W, l) = {n}
    BY DEF OnLine
  <1>2. Max({n}) = n
    BY DEF Max
  <1>3. /\ Shown(W)[l].color = IF OnLine(W, l) = {} THEN "none" ELSE W[Max(OnLine(W, l))].color
        /\ \A j \in 0..(Width - 1) : Shown(W)[l].cells[j] =
             LET over == Covering(W, l, j)
             IN  IF over = {} THEN <<>> ELSE <<W[Max(over)].name, j - W[Max(over)].x>>
    BY DEF Shown
  <1>4. ASSUME NEW j \in 0..(Width - 1), j - W[n].x \in 0..(W[n].len - 1)
        PROVE  Shown(W)[l].cells[j] = <<W[n].name, j - W[n].x>>
    <2>1. Covering(W, l, j) = {n}
      BY <1>1, <1>4 DEF Covering
    <2> QED BY <1>2, <1>3, <2>1
  <1> QED BY <1>1, <1>2, <1>3, <1>4

(* A line that nothing was written to has no colour.                       *)
LEMMA ShownBlank ==
  ASSUME NEW W, NEW l \in 0..(Height - 1), \A m \in DOMAIN W : W[m].line # l
  PROVE  Shown(W)[l].color = "none"
  <1>1. OnLine(W, l) = {}
    BY DEF OnLine
  <1> QED BY <1>1 DEF Shown

(* A container that fits has one footer at most, and its line is behind    *)
(* those of the other components.                                          *)
LEMMA FooterFacts ==
  ASSUME TypeOK, NEW c \in Containers, Fits(c)
  PROVE  /\ con[c].count <= Height
         /\ \A t, s \in Footers(c) : t = s
         /\ Footers(c) # {} => con[c].count < Height
  <1>1. con[c].count \in Nat /\ con[c].texts \in Seq(TextComponent) /\ Height \in Nat
    BY GuiAssumption DEF TypeOK, Container
  <1>2. Footers(c) \subseteq 1..Len(con[c].texts) /\ Len(con[c].texts) \in Nat
    BY <1>1 DEF Footers
  <1>3. IsFiniteSet(1..Len(con[c].texts))
    BY <1>2, FS_Interval
  <1>4. IsFiniteSet(Footers(c))
    BY <1>2, <1>3, FS_Subset
  <1>5. Cardinality(Footers(c)) \in Nat
    BY <1>4, FS_CardinalityType
  <1>6. Cardinality(Footers(c)) <= 1 /\ con[c].count + Cardinality(Footers(c)) <= Height
    BY DEF Fits
  <1>7. CASE Cardinality(Footers(c)) = 0
    BY <1>1, <1>4, <1>6, <1>7, FS_EmptySet
  <1>8. CASE Cardinality(Footers(c)) = 1
    <2>1. PICK x : Footers(c) = {x}
      BY <1>4, <1>8, FS_Singleton
    <2> QED BY <1>1, <1>6, <1>8, <2>1
  <1> QED BY <1>5, <1>6, <1>7, <1>8

(* In a container that fits, every write has a line of its own.            *)
LEMMA LinesApart ==
  ASSUME TypeOK, LinesOK, NEW c \in Containers, Fits(c),
         NEW n \in DOMAIN Writes(c), NEW m \in DOMAIN Writes(c),
         Writes(c)[n].line = Writes(c)[m].line
  PROVE  n = m
  <1> DEFINE r == con[c]
             on == lit[c]
             no == Len(r.options)
             W == WritesOf(c, r, on)
  <1>1. Writes(c) = W /\ r \in Container
    BY WritesAre DEF TypeOK
  <1>2. /\ \A p \in DOMAIN r.options : r.options[p].line \in 1..(r.count - 1)
        /\ \A p, q \in DOMAIN r.options : r.options[p].line = r.options[q].line => p = q
        /\ \A t \in DOMAIN r.texts :
             r.texts[t].line \in IF r.texts[t].footer THEN {Height - 1} ELSE 1..(r.count - 1)
        /\ \A t, s \in DOMAIN r.texts :
             ~r.texts[t].footer /\ ~r.texts[s].footer /\ r.texts[t].line = r.texts[s].line => t = s
        /\ \A t \in DOMAIN r.texts, p \in DOMAIN r.options :
             ~r.texts[t].footer => r.texts[t].line # r.options[p].line
        /\ r.count >= 1
    BY DEF LinesOK, Numbered
  <1>3. /\ r.count <= Height
        /\ \A t, s \in DOMAIN r.texts : r.texts[t].footer /\ r.texts[s].footer => t = s
        /\ \A t \in DOMAIN r.texts : r.texts[t].footer => r.count < Height
    BY FooterFacts DEF Footers
  <1>4. r.count \in Nat /\ Height \in Nat
    BY <1>1, GuiAssumption DEF Container
  <1> HIDE DEF r, on
  <1>5. \A p \in DOMAIN r.options : r.options[p].line \in Nat \ {0}
                                 /\ r.options[p].line <= r.count - 1
    BY <1>2, <1>4
  <1>6. \A t \in DOMAIN r.texts : r.texts[t].line \in Nat \ {0}
    BY <1>2, <1>3, <1>4
  <1>7. \A t \in DOMAIN r.texts, p \in DOMAIN r.options : r.texts[t].line # r.options[p].line
    <2> TAKE t \in DOMAIN r.texts, p \in DOMAIN r.options
    <2>1. CASE ~r.texts[t].footer
      BY <1>2, <2>1
    <2>2. CASE r.texts[t].footer
      <3>1. r.texts[t].line = Height - 1 /\ r.count < Height
        BY <1>2, <1>3, <2>2
      <3> QED BY <1>4, <1>5, <3>1
    <2> QED BY <2>1, <2>2
  <1>8. \A t, s \in DOMAIN r.texts : r.texts[t].line = r.texts[s].line => t = s
    <2> SUFFICES ASSUME NEW t \in DOMAIN r.texts, NEW s \in DOMAIN r.texts,
                        r.texts[t].line = r.texts[s].line
                 PROVE  t = s
      OBVIOUS
    <2>1. \A a, b \in DOMAIN r.texts :
            r.texts[a].footer /\ ~r.texts[b].footer => r.texts[a].line # r.texts[b].line
      <3> SUFFICES ASSUME NEW a \in DOMAIN r.texts, NEW b \in DOMAIN r.texts,
                          r.texts[a].footer, ~r.texts[b].footer
                   PROVE  r.texts[a].line # r.texts[b].line
        OBVIOUS
      <3>1. r.texts[a].line = Height - 1 /\ r.count < Height
        BY <1>2, <1>3
      <3>2. r.texts[b].line \in 1..(r.count - 1)
        BY <1>2
      <3> QED BY <1>4, <3>1, <3>2
    <2> QED BY <1>2, <1>3, <2>1
  <1>9. n \in DOMAIN W /\ m \in DOMAIN W /\ W[n].line = W[m].line
    BY <1>1
  <1> DEFINE Kind(k) ==
        \/ k = 1 /\ W[k].line = 0
        \/ \E p \in DOMAIN r.options : k = 1 + p /\ W[k].line = r.options[p].line
        \/ \E t \in DOMAIN r.texts : k = 1 + no + t /\ W[k].line = r.texts[t].line
  <1>10. ASSUME NEW k \in DOMAIN W PROVE Kind(k)
    <2>1. CASE k = 1 /\ W[k] = HeaderWrite(c, r)
      BY <2>1 DEF HeaderWrite, Write
    <2>2. ASSUME NEW p \in DOMAIN r.options, k = 1 + p, W[k] = OptionWrite(c, r, on, p)
          PROVE  Kind(k)
      BY <2>2 DEF OptionWrite, Write
    <2>3. ASSUME NEW t \in DOMAIN r.texts, k = 1 + no + t, W[k] = TextWrite(c, r, t)
          PROVE  Kind(k)
      BY <2>3 DEF TextWrite, Write
    <2> QED BY <1>1, <2>1, <2>2, <2>3, WriteKinds
  <1>11. Kind(n) /\ Kind(m)
    BY <1>9, <1>10
  <1> DEFINE v == W[n].line
  <1>12. W[m].line = v
    BY <1>9
  <1> HIDE DEF W, v, no
  <1>13. CASE n = 1 /\ v = 0
    BY <1>5, <1>6, <1>11, <1>12, <1>13
  <1>14. ASSUME NEW p \in DOMAIN r.options, n = 1 + p, v = r.options[p].line
         PROVE  n = m
    BY <1>2, <1>5, <1>7, <1>11, <1>12, <1>14
  <1>15. ASSUME NEW t \in DOMAIN r.texts, n = 1 + no + t, v = r.texts[t].line
         PROVE  n = m
    BY <1>6, <1>7, <1>8, <1>11, <1>12, <1>15
  <1> QED BY <1>11, <1>13, <1>14, <1>15 DEF v

-----------------------------------------------------------------------------
(* What the invariant says of the screen                                   *)

(* The container on top of the menu is one of the allocated copies.        *)
LEMMA StackedTop ==
  ASSUME NEW v \in Vectors, NEW cs, Stacked(v, cs), v.size # 0
  PROVE  v.size >= 1 /\ Back(v) = v.slots[v.size] /\ Back(v) \in DOMAIN cs
  <1>1. v.size \in Nat
    BY DEF Vectors
  <1>2. v.size >= 1 /\ v.size \in 1..v.size /\ Back(v) = v.slots[v.size]
    BY <1>1 DEF Back
  <1> QED BY <1>2 DEF Stacked

LEMMA TopFacts ==
  ASSUME TypeOK, MenuOK, pc # "build"
  PROVE  /\ menu \in Vectors /\ menu.size \in Nat /\ menu.size >= 1
         /\ Back(menu) = menu.slots[menu.size] /\ Back(menu) \in DOMAIN copies
         /\ TopCon \in Containers
  <1>1. menu \in Vectors /\ menu.size \in Nat /\ menu.size # 0
    BY DEF TypeOK, MenuOK, Vectors
  <1>2. /\ menu.size >= 1 /\ Back(menu) = menu.slots[menu.size]
        /\ Back(menu) \in DOMAIN copies
    BY <1>1, StackedTop DEF MenuOK
  <1>3. copies[Back(menu)] \in Copy
    BY <1>2 DEF TypeOK
  <1> QED BY <1>1, <1>2, <1>3 DEF TopCon, Copy

(* Every label is written, and everything written is a label.              *)
LEMMA LabelWrites ==
  ASSUME TypeOK, NEW c \in Containers
  PROVE  /\ \A label \in Labels(c) : \E n \in DOMAIN Writes(c) :
              Writes(c)[n].name = label[1] /\ Writes(c)[n].len = label[2]
         /\ \A n \in DOMAIN Writes(c) : \E label \in Labels(c) :
              label[2] = Writes(c)[n].len
  <1> DEFINE r == con[c]
             on == lit[c]
             no == Len(r.options)
             nt == Len(r.texts)
             W == WritesOf(c, r, on)
  <1>1. Writes(c) = W /\ r \in Container
    BY WritesAre DEF TypeOK
  <1>2. /\ no \in Nat /\ nt \in Nat /\ DOMAIN W = 1..(1 + no + nt)
        /\ W[1] = HeaderWrite(c, r)
        /\ \A p \in 1..no : W[1 + p] = OptionWrite(c, r, on, p)
        /\ \A t \in 1..nt : W[1 + no + t] = TextWrite(c, r, t)
    BY <1>1, WritesFacts
  <1>3. DOMAIN r.options = 1..no /\ DOMAIN r.texts = 1..nt
    BY <1>1 DEF Container
  <1>4. Labels(c) = {<<<<c, "header">>, r.header>>}
                      \cup {<<<<c, "option", p>>, r.options[p].len>> : p \in DOMAIN r.options}
                      \cup {<<<<c, "text", t>>, r.texts[t].len>> : t \in DOMAIN r.texts}
    BY DEF Labels
  <1>5. ASSUME NEW n \in DOMAIN W
        PROVE  \/ W[n] = HeaderWrite(c, r)
               \/ \E p \in DOMAIN r.options : W[n] = OptionWrite(c, r, on, p)
               \/ \E t \in DOMAIN r.texts : W[n] = TextWrite(c, r, t)
    BY <1>1, <1>5, WriteKinds
  <1> HIDE DEF r, on, no, nt, W
  <1>6. ASSUME NEW label \in Labels(c)
        PROVE  \E n \in DOMAIN W : W[n].name = label[1] /\ W[n].len = label[2]
    <2>1. CASE label = <<<<c, "header">>, r.header>>
      <3>1. 1 \in DOMAIN W
        BY <1>2
      <3> QED BY <1>2, <2>1, <3>1 DEF HeaderWrite, Write
    <2>2. ASSUME NEW p \in 1..no, label = <<<<c, "option", p>>, r.options[p].len>>
          PROVE  \E n \in DOMAIN W : W[n].name = label[1] /\ W[n].len = label[2]
      <3>1. 1 + p \in DOMAIN W
        BY <1>2
      <3>2. W[1 + p].name = <<c, "option", p>> /\ W[1 + p].len = r.options[p].len
        <4>1. W[1 + p] = OptionWrite(c, r, on, p)
          BY <1>2
        <4>2. OptionWrite(c, r, on, p).name = <<c, "option", p>> /\ OptionWrite(c, r, on, p).len = r.options[p].len
          BY DEF OptionWrite, Write
        <4> QED BY <4>1, <4>2
      <3>3. label[1] = <<c, "option", p>> /\ label[2] = r.options[p].len
        BY <2>2
      <3> QED BY <3>1, <3>2, <3>3
    <2>3. ASSUME NEW t \in 1..nt, label = <<<<c, "text", t>>, r.texts[t].len>>
          PROVE  \E n \in DOMAIN W : W[n].name = label[1] /\ W[n].len = label[2]
      <3>1. 1 + no + t \in DOMAIN W
        BY <1>2
      <3>2. W[1 + no + t].name = <<c, "text", t>> /\ W[1 + no + t].len = r.texts[t].len
        <4>1. W[1 + no + t] = TextWrite(c, r, t)
          BY <1>2
        <4>2. TextWrite(c, r, t).name = <<c, "text", t>> /\ TextWrite(c, r, t).len = r.texts[t].len
          BY DEF TextWrite, Write
        <4> QED BY <4>1, <4>2
      <3>3. label[1] = <<c, "text", t>> /\ label[2] = r.texts[t].len
        BY <2>3
      <3> QED BY <3>1, <3>2, <3>3
    <2> QED BY <1>3, <1>4, <2>1, <2>2, <2>3
  <1>7. ASSUME NEW n \in DOMAIN W
        PROVE  \E label \in Labels(c) : label[2] = W[n].len
    <2>1. CASE W[n] = HeaderWrite(c, r)
      <3>1. W[n].len = r.header
        BY <2>1 DEF HeaderWrite, Write
      <3>2. <<<<c, "header">>, r.header>> \in Labels(c)
        BY <1>4
      <3>3. <<<<c, "header">>, r.header>>[2] = r.header
        OBVIOUS
      <3> QED BY <3>1, <3>2, <3>3
    <2>2. ASSUME NEW p \in DOMAIN r.options, W[n] = OptionWrite(c, r, on, p)
          PROVE  \E label \in Labels(c) : label[2] = W[n].len
      <3>1. W[n].len = r.options[p].len
        BY <2>2 DEF OptionWrite, Write
      <3>2. <<<<c, "option", p>>, r.options[p].len>> \in Labels(c)
        BY <1>4
      <3>3. <<<<c, "option", p>>, r.options[p].len>>[2] = r.options[p].len
        OBVIOUS
      <3> QED BY <3>1, <3>2, <3>3
    <2>3. ASSUME NEW t \in DOMAIN r.texts, W[n] = TextWrite(c, r, t)
          PROVE  \E label \in Labels(c) : label[2] = W[n].len
      <3>1. W[n].len = r.texts[t].len
        BY <2>3 DEF TextWrite, Write
      <3>2. <<<<c, "text", t>>, r.texts[t].len>> \in Labels(c)
        BY <1>4
      <3>3. <<<<c, "text", t>>, r.texts[t].len>>[2] = r.texts[t].len
        OBVIOUS
      <3> QED BY <3>1, <3>2, <3>3
    <2> QED BY <1>5, <2>1, <2>2, <2>3
  <1> QED BY <1>1, <1>6, <1>7

(* The types of what is written (WriteFields), of a container as it is.    *)
LEMMA WriteTypes ==
  ASSUME TypeOK, NEW c \in Containers
  PROVE  /\ DOMAIN Writes(c) \subseteq Nat
         /\ \A n \in DOMAIN Writes(c) :
              /\ Writes(c)[n].line \in Nat /\ Writes(c)[n].x \in Int
              /\ Writes(c)[n].len \in Nat
              /\ OffLine(Writes(c)[n]) => Writes(c)[n].len > Width
  <1>1. Writes(c) = WritesOf(c, con[c], lit[c]) /\ con[c] \in Container
    BY WritesAre DEF TypeOK
  <1>2. DOMAIN WritesOf(c, con[c], lit[c]) \subseteq Nat
    BY <1>1, WritesFacts
  <1> QED BY <1>1, <1>2, WriteFields

(* A write that ends the program is one of a container that nobody should  *)
(* have built.                                                             *)
LEMMA BadFacts ==
  ASSUME TypeOK, LinesOK, NEW c \in Containers, NEW n \in Bad(Writes(c))
  PROVE  /\ OffScreen(Writes(c)[n]) => con[c].count > Height
         /\ ~OffScreen(Writes(c)[n]) => \E label \in Labels(c) : label[2] > Width
  <1> DEFINE r == con[c]
             w == Writes(c)[n]
  <1>1. n \in DOMAIN Writes(c) /\ (OffScreen(w) \/ OffLine(w))
    BY DEF Bad
  <1>2. ~OffScreen(w) => \E label \in Labels(c) : label[2] > Width
    BY <1>1, LabelWrites, WriteTypes
  <1>3. r \in Container /\ r.count \in Nat /\ r.count >= 1 /\ Height \in Nat /\ Height >= 1
    BY GuiAssumption DEF TypeOK, Container, LinesOK, Numbered
  <1>4. w.line \in {0, Height - 1} \cup 1..(r.count - 1)
    <2>1. w = WritesOf(c, r, lit[c])[n] /\ n \in DOMAIN WritesOf(c, r, lit[c])
      BY <1>1, WritesAre
    <2>2. CASE w = HeaderWrite(c, r)
      BY <2>2 DEF HeaderWrite, Write
    <2>3. ASSUME NEW p \in DOMAIN r.options, w = OptionWrite(c, r, lit[c], p)
          PROVE  w.line \in 1..(r.count - 1)
      <3>1. w.line = r.options[p].line
        BY <2>3 DEF OptionWrite, Write
      <3> QED BY <3>1 DEF LinesOK, Numbered
    <2>4. ASSUME NEW t \in DOMAIN r.texts, w = TextWrite(c, r, t)
          PROVE  w.line \in {Height - 1} \cup 1..(r.count - 1)
      <3>1. w.line = r.texts[t].line
        BY <2>4 DEF TextWrite, Write
      <3> QED BY <3>1 DEF LinesOK, Numbered
    <2> QED BY <1>3, <2>1, <2>2, <2>3, <2>4, WriteKinds
  <1>5. OffScreen(w) => r.count > Height
    <2> HIDE DEF w, r
    <2> QED BY <1>3, <1>4 DEF OffScreen
  <1> QED BY <1>2, <1>5

(* In a container that fits, no component hides another.                   *)
LEMMA Readable ==
  ASSUME TypeOK, LinesOK, MenuOK, ShownOK
  PROVE  LabelsReadable
  <1> DEFINE c == TopCon
  <1> SUFFICES ASSUME pc = "wait", Fits(c), NEW label \in Labels(c)
               PROVE  \E l \in DOMAIN screen, x \in 0..(Width - label[2]) :
                        \A i \in 0..(label[2] - 1) : screen[l].cells[x + i] = <<label[1], i>>
    BY DEF LabelsReadable, TopCon
  <1>1. c \in Containers
    BY TopFacts
  <1> DEFINE W == Writes(c)
  <1>2. Bad(W) = {} /\ screen = Shown(W) /\ DOMAIN screen = 0..(Height - 1)
    BY DEF ShownOK, UpToDate, Drawn, TypeOK
  <1>3. PICK n \in DOMAIN W : W[n].name = label[1] /\ W[n].len = label[2]
    BY <1>1, LabelWrites
  <1>4. DOMAIN W \subseteq Nat /\ W[n].line \in Nat /\ W[n].x \in Int /\ W[n].len \in Nat
    BY <1>1, WriteTypes
  <1>5. \A m \in DOMAIN W : W[m].line = W[n].line => m = n
    BY <1>1, LinesApart
  <1> HIDE DEF c, W
  <1>6. ~OffScreen(W[n]) /\ ~OffLine(W[n])
    BY <1>2 DEF Bad
  <1>7. Height \in Nat /\ Width \in Nat
    BY GuiAssumption
  <1>8. W[n].line \in 0..(Height - 1)
    BY <1>4, <1>6, <1>7 DEF OffScreen
  <1>9. \A j \in 0..(Width - 1) : j - W[n].x \in 0..(W[n].len - 1) =>
          screen[W[n].line].cells[j] = <<W[n].name, j - W[n].x>>
    BY <1>2, <1>4, <1>5, <1>8, ShownLine
  <1> DEFINE l == W[n].line
             x == W[n].x
             len == W[n].len
  <1> HIDE DEF l, x, len
  <1>10. l \in DOMAIN screen /\ len = label[2] /\ len \in Nat /\ x \in Int
    BY <1>2, <1>3, <1>4, <1>8 DEF l, x, len
  <1>11. CASE len = 0
    <2>1. 0 \in 0..(Width - label[2]) /\ 0..(label[2] - 1) = {}
      BY <1>7, <1>10, <1>11
    <2> QED BY <1>10, <2>1
  <1>12. CASE len > 0
    <2>1. x >= 0 /\ x + len <= Width
      BY <1>6, <1>10, <1>12, <1>7 DEF OffLine, x, len
    <2>2. x \in 0..(Width - label[2])
      BY <1>7, <1>10, <2>1
    <2>3. ASSUME NEW i \in 0..(label[2] - 1)
          PROVE  screen[l].cells[x + i] = <<label[1], i>>
      <3>1. x + i \in 0..(Width - 1) /\ (x + i) - x = i /\ i \in 0..(len - 1)
        BY <1>7, <1>10, <2>1
      <3>2. \A j \in 0..(Width - 1) : j - x \in 0..(len - 1) =>
              screen[l].cells[j] = <<label[1], j - x>>
        BY <1>3, <1>9 DEF l, x, len
      <3> HIDE DEF x
      <3> QED BY <3>1, <3>2
    <2> QED BY <1>10, <2>2, <2>3
  <1> QED BY <1>10, <1>11, <1>12

(* What is lit is what is selected.                                        *)
LEMMA LitShown ==
  ASSUME TypeOK, LinesOK, MenuOK, LitOK, ShownOK
  PROVE  WhatIsLitIsSelected
  <1> DEFINE b == Back(menu)
             k == copies[b].con
             on == copies[b].on
  <1> SUFFICES ASSUME pc = "wait", visits[k] = 1, Fits(k), NoneWhite(k)
               PROVE  {l \in DOMAIN screen : screen[l].color = "white"} =
                        {Options(k)[p].line : p \in {on + 1} \cap DOMAIN Options(k)}
    BY DEF WhatIsLitIsSelected
  <1>1. k \in Containers /\ b \in DOMAIN copies
    BY TopFacts DEF TopCon
  <1> DEFINE r == con[k]
             W == Writes(k)
             no == Len(r.options)
  <1>2. r \in Container /\ Options(k) = r.options /\ DOMAIN r.options = 1..no
    BY <1>1 DEF TypeOK, Options, Container
  <1>3. lit[k] = {on + 1} \cap DOMAIN r.options
    BY <1>1, <1>2 DEF LitOK
  <1>4. Bad(W) = {} /\ screen = Shown(W) /\ DOMAIN screen = 0..(Height - 1)
    BY DEF ShownOK, UpToDate, Drawn, TypeOK, TopCon
  <1>5. W = WritesOf(k, r, lit[k])
    BY WritesAre
  <1>6. /\ DOMAIN W \subseteq Nat
        /\ \A n \in DOMAIN W : W[n].line \in Nat
    BY <1>1, WriteTypes
  <1>7. Height \in Nat
    BY GuiAssumption
  <1>8. ASSUME NEW n \in DOMAIN W PROVE W[n].line \in 0..(Height - 1)
    <2>1. ~OffScreen(W[n])
      BY <1>4 DEF Bad
    <2>2. W[n].line \in Nat
      BY <1>6
    <2> HIDE DEF W
    <2> QED BY <1>7, <2>1, <2>2 DEF OffScreen
  <1>9. ASSUME NEW n \in DOMAIN W PROVE screen[W[n].line].color = W[n].color
    <2>1. \A m \in DOMAIN W : W[m].line = W[n].line => m = n
      BY <1>1, LinesApart
    <2>2. W[n].line \in 0..(Height - 1)
      BY <1>8
    <2> HIDE DEF W
    <2> QED BY <1>4, <1>6, <2>1, <2>2, ShownLine
  <1>10. ASSUME NEW l \in DOMAIN screen, screen[l].color = "white"
         PROVE  l \in {r.options[p].line : p \in lit[k]}
    <2>1. l \in 0..(Height - 1)
      BY <1>4
    <2>2. PICK n \in DOMAIN W : W[n].line = l
      <3> HIDE DEF W
      <3> QED BY <1>4, <1>10, <2>1, ShownBlank
    <2>3. W[n].color = "white"
      BY <1>9, <1>10, <2>2
    <2>4. CASE W[n] = HeaderWrite(k, r)
      BY <2>3, <2>4 DEF HeaderWrite, Write
    <2>5. ASSUME NEW p \in DOMAIN r.options, W[n] = OptionWrite(k, r, lit[k], p)
          PROVE  l \in {r.options[q].line : q \in lit[k]}
      <3>1. W[n].line = r.options[p].line /\ W[n].color = IF p \in lit[k] THEN "white" ELSE "none"
        BY <2>5 DEF OptionWrite, Write
      <3>2. p \in lit[k]
        BY <2>3, <3>1
      <3> QED BY <2>2, <3>1, <3>2
    <2>6. ASSUME NEW t \in DOMAIN r.texts, W[n] = TextWrite(k, r, t)
          PROVE  FALSE
      <3>1. W[n].color = r.texts[t].color
        BY <2>6 DEF TextWrite, Write
      <3>2. r.texts[t].color # "white"
        BY DEF NoneWhite
      <3> QED BY <2>3, <3>1, <3>2
    <2>7. n \in DOMAIN WritesOf(k, r, lit[k])
      BY <1>5
    <2> QED BY <1>2, <1>5, <2>4, <2>5, <2>6, <2>7, WriteKinds
  <1>11. ASSUME NEW p \in lit[k]
         PROVE  r.options[p].line \in DOMAIN screen /\ screen[r.options[p].line].color = "white"
    <2>1. p \in 1..no /\ no \in Nat
      BY <1>2, <1>3 DEF Container
    <2>2. 1 + p \in DOMAIN W /\ W[1 + p] = OptionWrite(k, r, lit[k], p)
      <3> DEFINE V == WritesOf(k, r, lit[k])
                 nt == Len(r.texts)
      <3> HIDE DEF r, k, on
      <3>1. /\ no \in Nat /\ nt \in Nat /\ DOMAIN V = 1..(1 + no + nt)
            /\ V[1] = HeaderWrite(k, r)
            /\ \A q \in 1..no : V[1 + q] = OptionWrite(k, r, lit[k], q)
            /\ \A t \in 1..nt : V[1 + no + t] = TextWrite(k, r, t)
        BY <1>2, WritesFacts
      <3>2. W = V
        BY <1>5
      <3> HIDE DEF W, V, no, nt
      <3>3. 1 + p \in 1..(1 + no + nt)
        BY <2>1, <3>1
      <3> QED BY <2>1, <3>1, <3>2, <3>3
    <2>3. OptionWrite(k, r, lit[k], p).line = r.options[p].line
          /\ OptionWrite(k, r, lit[k], p).color = "white"
      BY DEF OptionWrite, Write
    <2> QED BY <1>4, <1>8, <1>9, <2>2, <2>3
  <1> HIDE DEF r
  <1> QED BY <1>2, <1>3, <1>10, <1>11

-----------------------------------------------------------------------------
(* The stack of containers                                                 *)

(* A container is put on the menu in a block of its own.                   *)
LEMMA PushStacked ==
  ASSUME NEW v \in Vectors, NEW cs, Stacked(v, cs), NEW b \in Nat, b \notin DOMAIN cs,
         NEW ds, DOMAIN ds = DOMAIN cs \cup {b}
  PROVE  /\ Pushed(v, b) \in Vectors /\ Pushed(v, b).size = v.size + 1
         /\ Stacked(Pushed(v, b), ds)
         /\ Pushed(v, b).slots[v.size + 1] = b /\ Agree(v, Pushed(v, b), v.size)
  <1> DEFINE w == Pushed(v, b)
             n == v.size
  <1>1. n \in Nat /\ b \in Slots /\ Room(v) /\ Tight(v)
    BY DEF Vectors, Slots, Stacked
  <1>2. /\ w \in Vectors /\ w.size = n + 1 /\ w.slots[n + 1] = b
        /\ Agree(v, w, n) /\ Room(w) /\ Tight(w)
    BY <1>1, PushedFacts
  <1> HIDE DEF w, n
  <1>3. \A p \in 1..n : w.slots[p] = v.slots[p]
    BY <1>2 DEF Agree
  <1>4. /\ \A p \in 1..n : v.slots[p] \in DOMAIN cs
        /\ \A p, q \in 1..n : v.slots[p] = v.slots[q] => p = q
        /\ \A d \in DOMAIN cs : \E p \in 1..n : v.slots[p] = d
    BY DEF Stacked, n
  <1>5. \A p \in 1..(n + 1) : p \in 1..n \/ p = n + 1
    BY <1>1
  <1>6. \A p \in 1..(n + 1) : w.slots[p] \in DOMAIN ds
    BY <1>2, <1>3, <1>4, <1>5
  <1>7. \A p, q \in 1..(n + 1) : w.slots[p] = w.slots[q] => p = q
    BY <1>2, <1>3, <1>4, <1>5
  <1>8. \A d \in DOMAIN ds : \E p \in 1..(n + 1) : w.slots[p] = d
    <2>1. n + 1 \in 1..(n + 1) /\ \A p \in 1..n : p \in 1..(n + 1)
      BY <1>1
    <2> QED BY <1>2, <1>3, <1>4, <2>1
  <1>9. Stacked(w, ds)
    BY <1>2, <1>6, <1>7, <1>8 DEF Stacked
  <1> QED BY <1>2, <1>9 DEF w, n

(* The container on top leaves the menu, and its block with it.            *)
LEMMA PopStacked ==
  ASSUME NEW v \in Vectors, NEW cs, Stacked(v, cs), v.size > 1,
         NEW ds, DOMAIN ds = DOMAIN cs \ {Back(v)}
  PROVE  /\ Popped(v) \in Vectors /\ Popped(v).size = v.size - 1
         /\ Stacked(Popped(v), ds) /\ Agree(v, Popped(v), v.size - 1)
  <1> DEFINE w == Popped(v)
             n == v.size
  <1>1. n \in Nat /\ n # 0 /\ Room(v) /\ Tight(v)
    BY DEF Vectors, Stacked
  <1>2. w \in Vectors /\ w.size = n - 1 /\ Agree(v, w, n - 1) /\ Room(w) /\ Tight(w)
    BY <1>1, RemovedFacts
  <1>3. Back(v) = v.slots[n] /\ n > 1
    BY <1>1 DEF Back
  <1> HIDE DEF w, n
  <1>4. \A p \in 1..(n - 1) : w.slots[p] = v.slots[p]
    BY <1>2 DEF Agree
  <1>5. /\ \A p \in 1..n : v.slots[p] \in DOMAIN cs
        /\ \A p, q \in 1..n : v.slots[p] = v.slots[q] => p = q
        /\ \A d \in DOMAIN cs : \E p \in 1..n : v.slots[p] = d
    BY DEF Stacked, n
  <1>6. /\ \A p \in 1..n : p \in 1..(n - 1) \/ p = n
        /\ \A p \in 1..(n - 1) : p \in 1..n /\ p # n
        /\ n \in 1..n
    BY <1>1, <1>3
  <1>7. \A p \in 1..(n - 1) : w.slots[p] \in DOMAIN ds
    BY <1>3, <1>4, <1>5, <1>6
  <1>8. \A p, q \in 1..(n - 1) : w.slots[p] = w.slots[q] => p = q
    BY <1>4, <1>5, <1>6
  <1>9. \A d \in DOMAIN ds : \E p \in 1..(n - 1) : w.slots[p] = d
    BY <1>3, <1>4, <1>5, <1>6
  <1>10. Stacked(w, ds)
    BY <1>2, <1>7, <1>8, <1>9 DEF Stacked
  <1> QED BY <1>2, <1>10 DEF w, n

(* While not all blocks are allocated, malloc finds one that is free.      *)
LEMMA FreshFacts ==
  ASSUME TypeOK, DOMAIN copies # 1..MaxDepth
  PROVE  Fresh \in 1..MaxDepth /\ Fresh \in Nat /\ Fresh \notin DOMAIN copies
  <1>1. \E b \in 1..MaxDepth : b \notin DOMAIN copies
    BY DEF TypeOK
  <1>2. Fresh \in 1..MaxDepth /\ Fresh \notin DOMAIN copies
    BY <1>1 DEF Fresh
  <1>3. MaxDepth \in Nat
    BY GuiAssumption
  <1> QED BY <1>2, <1>3

(* What SetCurrent does to the menu and the copies.                        *)
LEMMA SetCurrentFacts ==
  ASSUME TypeOK, MenuOK, DOMAIN copies # 1..MaxDepth, NEW c \in Containers, SetCurrent(c)
  PROVE  /\ menu' \in Vectors /\ menu'.size = menu.size + 1 /\ Stacked(menu', copies')
         /\ menu'.slots[menu.size + 1] = Fresh /\ Agree(menu, menu', menu.size)
         /\ Fresh \in 1..MaxDepth /\ Fresh \notin DOMAIN copies
         /\ DOMAIN copies' = DOMAIN copies \cup {Fresh}
         /\ copies'[Fresh] = [con |-> c, on |-> 0]
         /\ \A b \in DOMAIN copies : copies'[b] = copies[b]
         /\ copies' \in [DOMAIN copies' -> Copy] /\ DOMAIN copies' \subseteq 1..MaxDepth
         /\ visits' \in [Containers -> 0..2]
         /\ \A d \in Containers : d # c => visits'[d] = visits[d]
         /\ visits'[c] = IF visits[c] = 0 THEN 1 ELSE 2
  <1>1. Fresh \in 1..MaxDepth /\ Fresh \in Nat /\ Fresh \notin DOMAIN copies
    BY FreshFacts
  <1>2. /\ menu' = Pushed(menu, Fresh)
        /\ copies' = [b \in DOMAIN copies \cup {Fresh} |->
                        IF b = Fresh THEN [con |-> c, on |-> 0] ELSE copies[b]]
        /\ visits' = [visits EXCEPT ![c] = IF visits[c] = 0 THEN 1 ELSE 2]
    BY DEF SetCurrent, WithCopy
  <1>3. /\ DOMAIN copies' = DOMAIN copies \cup {Fresh}
        /\ copies'[Fresh] = [con |-> c, on |-> 0]
        /\ \A b \in DOMAIN copies : copies'[b] = copies[b]
    BY <1>1, <1>2
  <1>4. [con |-> c, on |-> 0] \in Copy /\ \A b \in DOMAIN copies : copies[b] \in Copy
    BY DEF TypeOK, Copy
  <1>5. copies' \in [DOMAIN copies' -> Copy]
    BY <1>2, <1>4
  <1>6. menu \in Vectors /\ Stacked(menu, copies)
    BY DEF TypeOK, MenuOK, Vectors
  <1>7. /\ visits' \in [Containers -> 0..2]
        /\ \A d \in Containers : d # c => visits'[d] = visits[d]
        /\ visits'[c] = IF visits[c] = 0 THEN 1 ELSE 2
    BY <1>2 DEF TypeOK
  <1>8. /\ menu' \in Vectors /\ menu'.size = menu.size + 1 /\ Stacked(menu', copies')
        /\ menu'.slots[menu.size + 1] = Fresh /\ Agree(menu, menu', menu.size)
    <2> DEFINE w == Pushed(menu, Fresh)
    <2>1. /\ w \in Vectors /\ w.size = menu.size + 1 /\ Stacked(w, copies')
          /\ w.slots[menu.size + 1] = Fresh /\ Agree(menu, w, menu.size)
      <3>1. \A v, cs, b, ds :
              /\ v \in Vectors /\ Stacked(v, cs) /\ b \in Nat /\ b \notin DOMAIN cs
              /\ DOMAIN ds = DOMAIN cs \cup {b}
              => /\ Pushed(v, b) \in Vectors /\ Pushed(v, b).size = v.size + 1
                 /\ Stacked(Pushed(v, b), ds)
                 /\ Pushed(v, b).slots[v.size + 1] = b /\ Agree(v, Pushed(v, b), v.size)
        BY PushStacked
      <3>2. Fresh \in Nat /\ Fresh \notin DOMAIN copies /\ DOMAIN copies' = DOMAIN copies \cup {Fresh}
        BY <1>1, <1>3
      <3> QED BY <1>6, <3>1, <3>2
    <2>2. menu' = w
      BY <1>2
    <2> HIDE DEF w
    <2> QED BY <2>1, <2>2
  <1> QED BY <1>1, <1>3, <1>5, <1>7, <1>8 DEF TypeOK

(* What MenuReturn does to them.                                           *)
LEMMA MenuReturnFacts ==
  ASSUME TypeOK, MenuOK, pc # "build", MenuReturn
  PROVE  /\ menu' \in Vectors /\ Stacked(menu', copies')
         /\ menu'.size = IF menu.size = 1 THEN 1 ELSE menu.size - 1
         /\ Agree(menu, menu', menu'.size) /\ menu'.size \in Nat \ {0}
         /\ DOMAIN copies' \subseteq DOMAIN copies
         /\ \A b \in DOMAIN copies' : copies'[b] = copies[b]
         /\ copies' \in [DOMAIN copies' -> Copy]
  <1>1. menu \in Vectors /\ Stacked(menu, copies) /\ menu.size \in Nat /\ menu.size >= 1
    BY TopFacts DEF MenuOK
  <1>2. CASE menu.size = 1 /\ UNCHANGED <<menu, copies>>
    BY <1>1, <1>2 DEF Agree, TypeOK
  <1>3. CASE /\ menu.size > 1 /\ menu' = Popped(menu)
             /\ copies' = [b \in DOMAIN copies \ {Back(menu)} |-> copies[b]]
    <2>1. DOMAIN copies' = DOMAIN copies \ {Back(menu)}
      BY <1>3
    <2>2. /\ menu' \in Vectors /\ menu'.size = menu.size - 1 /\ Stacked(menu', copies')
          /\ Agree(menu, menu', menu.size - 1)
      BY <1>1, <1>3, <2>1, PopStacked
    <2>3. menu.size # 1 /\ menu.size - 1 \in Nat \ {0}
      BY <1>1, <1>3
    <2>4. \A b \in DOMAIN copies' : copies'[b] = copies[b] /\ copies[b] \in Copy
      BY <1>3, <2>1 DEF TypeOK
    <2>5. copies' \in [DOMAIN copies' -> Copy]
      BY <1>3, <2>1, <2>4
    <2> QED BY <2>1, <2>2, <2>3, <2>4, <2>5
  <1> QED BY <1>2, <1>3 DEF MenuReturn

(* Entering a container keeps what the invariant says of menu and flags.   *)
LEMMA EnterInv ==
  ASSUME TypeOK, MenuOK, SelectorsOK, LitOK, DOMAIN copies # 1..MaxDepth,
         NEW c \in Containers, SetCurrent(c), UNCHANGED <<con, lit>>, pc' # "build"
  PROVE  MenuOK' /\ SelectorsOK' /\ LitOK'
  <1>1. /\ menu'.size = menu.size + 1 /\ Stacked(menu', copies')
        /\ DOMAIN copies' = DOMAIN copies \cup {Fresh} /\ Fresh \notin DOMAIN copies
        /\ copies'[Fresh].con = c /\ copies'[Fresh].on = 0
        /\ \A b \in DOMAIN copies : copies'[b] = copies[b]
        /\ \A d \in Containers : d # c => visits'[d] = visits[d]
        /\ visits'[c] = IF visits[c] = 0 THEN 1 ELSE 2
    <2>1. /\ menu'.size = menu.size + 1 /\ Stacked(menu', copies')
          /\ DOMAIN copies' = DOMAIN copies \cup {Fresh} /\ Fresh \notin DOMAIN copies
          /\ copies'[Fresh] = [con |-> c, on |-> 0]
          /\ \A b \in DOMAIN copies : copies'[b] = copies[b]
          /\ \A d \in Containers : d # c => visits'[d] = visits[d]
          /\ visits'[c] = IF visits[c] = 0 THEN 1 ELSE 2
      BY SetCurrentFacts
    <2> QED BY <2>1
  <1>2. MenuOK'
    <2>1. menu.size \in Nat /\ menu'.size # 0
      BY <1>1 DEF TypeOK
    <2> QED BY <1>1, <2>1 DEF MenuOK
  <1>3. SelectorsOK'
    BY <1>1 DEF SelectorsOK, Options
  <1>4. LitOK'
    <2> SUFFICES ASSUME NEW d \in Containers
                 PROVE
         /\ visits'[d] = 0 => lit[d] = {1} \cap 1..Len(con[d].options)
         /\ visits'[d] = 0 => \A b \in DOMAIN copies' : copies'[b].con # d
         /\ visits'[d] = 1 => \A a, b \in DOMAIN copies' :
                               copies'[a].con = d /\ copies'[b].con = d => a = b
         /\ visits'[d] = 1 => \A b \in DOMAIN copies' : copies'[b].con = d =>
                               lit[d] = {copies'[b].on + 1} \cap 1..Len(con[d].options)
      BY DEF LitOK, Options
    <2>1. /\ visits[d] = 0 => lit[d] = {1} \cap 1..Len(con[d].options)
          /\ visits[d] = 0 => \A b \in DOMAIN copies : copies[b].con # d
          /\ visits[d] = 1 => \A a, b \in DOMAIN copies :
                                copies[a].con = d /\ copies[b].con = d => a = b
          /\ visits[d] = 1 => \A b \in DOMAIN copies : copies[b].con = d =>
                                lit[d] = {copies[b].on + 1} \cap 1..Len(con[d].options)
      BY DEF LitOK, Options
    <2>2. CASE d # c
      BY <1>1, <2>1, <2>2
    <2>3. CASE d = c /\ visits[c] = 0
      <3>1. visits'[d] = 1 /\ \A b \in DOMAIN copies' : copies'[b].con = d => b = Fresh
        BY <1>1, <2>1, <2>3
      <3> QED BY <1>1, <2>1, <2>3, <3>1
    <2>4. CASE d = c /\ visits[c] # 0
      BY <1>1, <2>4
    <2> QED BY <2>2, <2>3, <2>4
  <1> QED BY <1>2, <1>3, <1>4

(* So does leaving one.                                                    *)
LEMMA LeaveInv ==
  ASSUME TypeOK, MenuOK, SelectorsOK, LitOK, pc # "build", MenuReturn,
         UNCHANGED <<con, lit, visits>>, pc' # "build"
  PROVE  MenuOK' /\ SelectorsOK' /\ LitOK'
  <1>1. /\ Stacked(menu', copies') /\ menu'.size \in Nat \ {0}
        /\ DOMAIN copies' \subseteq DOMAIN copies
        /\ \A b \in DOMAIN copies' : copies'[b] = copies[b]
    BY MenuReturnFacts
  <1>2. MenuOK'
    BY <1>1 DEF MenuOK
  <1>3. SelectorsOK'
    BY <1>1 DEF SelectorsOK, Options
  <1>4. LitOK'
    BY <1>1 DEF LitOK, Options
  <1> QED BY <1>2, <1>3, <1>4

(* A rendered container is on the screen; one that is not ends the program. *)
LEMMA RenderFacts ==
  ASSUME TypeOK, LinesOK, NEW b, NEW cs, cs[b].con \in Containers, Render(b, cs)
  PROVE  LET k == cs[b].con
         IN  /\ pc' \in {"wait", "exited", "fault"} /\ DOMAIN screen' = 0..(Height - 1)
             /\ pc' = "wait" => Bad(Writes(k)) = {} /\ screen' = Drawn(k)
             /\ pc' = "exited" => \E label \in Labels(k) : label[2] > Width
             /\ pc' = "fault" => con[k].count > Height
  <1> DEFINE k == cs[b].con
             W == Writes(k)
  <1>1. \/ Bad(W) = {} /\ screen' = Shown(W) /\ pc' = "wait"
        \/ \E n \in Bad(W) :
             /\ pc' = IF OffScreen(W[n]) THEN "fault" ELSE "exited"
             /\ UNCHANGED screen
    BY DEF Render
  <1>2. CASE Bad(W) = {} /\ screen' = Shown(W) /\ pc' = "wait"
    <2>1. DOMAIN Shown(W) = 0..(Height - 1)
      BY DEF Shown
    <2> QED BY <1>2, <2>1 DEF Drawn
  <1>3. ASSUME NEW n \in Bad(W), pc' = IF OffScreen(W[n]) THEN "fault" ELSE "exited",
               UNCHANGED screen
        PROVE  /\ pc' \in {"exited", "fault"} /\ DOMAIN screen' = 0..(Height - 1)
               /\ pc' = "exited" => \E label \in Labels(k) : label[2] > Width
               /\ pc' = "fault" => con[k].count > Height
    <2>1. DOMAIN screen' = 0..(Height - 1)
      BY <1>3 DEF TypeOK
    <2>2. /\ OffScreen(W[n]) => con[k].count > Height
          /\ ~OffScreen(W[n]) => \E label \in Labels(k) : label[2] > Width
      BY BadFacts
    <2> QED BY <1>3, <2>1, <2>2
  <1> QED BY <1>1, <1>2, <1>3

(* After a step of gui_loop that renders the container on top, the screen  *)
(* is as it should be.                                                     *)
LEMMA RenderInv ==
  ASSUME TypeOK, LinesOK, UNCHANGED <<con, lit>>,
         NEW b, NEW cs, cs[b].con \in Containers, Render(b, cs),
         copies' = cs, Back(menu') = b
  PROVE  /\ pc' \in {"wait", "exited", "fault"} /\ DOMAIN screen' = 0..(Height - 1)
         /\ ShownOK' /\ EndsOnlyOnBadContainer'
  <1> DEFINE k == cs[b].con
  <1>1. /\ pc' \in {"wait", "exited", "fault"} /\ DOMAIN screen' = 0..(Height - 1)
        /\ pc' = "wait" => Bad(Writes(k)) = {} /\ screen' = Drawn(k)
        /\ pc' = "exited" => \E label \in Labels(k) : label[2] > Width
        /\ pc' = "fault" => con[k].count > Height
    BY RenderFacts
  <1>2. copies'[Back(menu')].con = k
    OBVIOUS
  <1> HIDE DEF k
  <1>3. Writes(TopCon)' = Writes(k) /\ Labels(TopCon)' = Labels(k)
    BY <1>2 DEF TopCon, Writes, Labels
  <1>4. ShownOK'
    BY <1>1, <1>3 DEF ShownOK, UpToDate, Drawn
  <1>5. EndsOnlyOnBadContainer'
    BY <1>1, <1>2, <1>3 DEF EndsOnlyOnBadContainer, TopCon
  <1> QED BY <1>1, <1>4, <1>5

-----------------------------------------------------------------------------
(* Every step keeps the invariant                                          *)

LEMMA InitInv == Init => GuiInv
  <1> SUFFICES ASSUME Init PROVE GuiInv
    OBVIOUS
  <1>1. /\ con = [c \in Containers |-> ContainerMade] /\ lit = [c \in Containers |-> {}]
        /\ menu = Made /\ copies = <<>> /\ visits = [c \in Containers |-> 0]
        /\ pc = "build" /\ key = "none" /\ cur = 0 /\ dirty = FALSE
    BY DEF Init, Null
  <1>2. DOMAIN copies = {}
    BY <1>1
  <1>3. ContainerMade \in Container /\ Numbered(ContainerMade)
    BY DEF ContainerMade, Container, Numbered
  <1>4. menu \in Vectors /\ menu.size = 0 /\ Room(menu) /\ Tight(menu)
    BY <1>1, EmptyFacts
  <1>5. TypeOK
    <2>1. todo \in [Containers -> Seq(Component)]
      BY GuiAssumption DEF Init
    <2>2. con \in [Containers -> Container] /\ DOMAIN lit = Containers
          /\ \A c \in Containers : lit[c] \subseteq 1..Len(con[c].options)
      BY <1>1, <1>3
    <2>3. copies \in [DOMAIN copies -> Copy] /\ DOMAIN copies \subseteq 1..MaxDepth
      <3>1. copies \in Seq(Copy) /\ Len(copies) = 0
        BY <1>1, EmptySeq
      <3>2. copies \in [1..0 -> Copy]
        BY <3>1, LenProperties
      <3> QED BY <1>2, <3>2
    <2>4. visits \in [Containers -> 0..2] /\ cur \in 0..MaxDepth /\ dirty \in BOOLEAN
      <3>1. MaxDepth \in Nat /\ 0 \in 0..MaxDepth /\ 0 \in 0..2
        BY GuiAssumption
      <3> QED BY <1>1, <3>1
    <2>5. DOMAIN screen = 0..(Height - 1)
      BY DEF Init, BlankScreen
    <2> QED BY <1>1, <1>4, <2>1, <2>2, <2>3, <2>4, <2>5 DEF TypeOK, Vectors
  <1>6. LinesOK
    BY <1>1, <1>3 DEF LinesOK
  <1>7. MenuOK
    BY <1>1, <1>2, <1>4 DEF MenuOK, Stacked
  <1>8. KeyOK /\ SelectorsOK /\ CurrentValid /\ ShownOK /\ EndsOnlyOnBadContainer
    BY <1>1, <1>2 DEF KeyOK, SelectorsOK, CurrentValid, ShownOK, UpToDate,
                      EndsOnlyOnBadContainer
  <1>9. LitOK
    <2>1. \A c \in Containers : lit[c] = {} /\ Len(Options(c)) = 0
      BY <1>1 DEF Options, ContainerMade
    <2> QED BY <1>2, <2>1 DEF LitOK
  <1> QED BY <1>5, <1>6, <1>7, <1>8, <1>9 DEF GuiInv

LEMMA BuildInv == ASSUME GuiInv, NEW c \in Containers, Build(c) PROVE GuiInv'
  <1> DEFINE comp == Head(todo[c])
             r == Add(con[c], comp)
  <1>1. /\ pc = "build" /\ todo[c] # <<>> /\ pc' = pc
        /\ con' = [con EXCEPT ![c] = r]
        /\ lit' = [lit EXCEPT ![c] =
                     IF comp.kind = "option" /\ con[c].options = <<>> THEN {1} ELSE lit[c]]
        /\ todo' = [todo EXCEPT ![c] = Tail(todo[c])]
        /\ UNCHANGED <<menu, copies, visits, key, cur, dirty, screen>>
    BY DEF Build
  <1>2. TypeOK /\ LinesOK /\ MenuOK /\ LitOK
    BY DEF GuiInv
  <1>3. comp \in Component /\ Tail(todo[c]) \in Seq(Component)
    BY <1>1, <1>2, HeadTailProperties DEF TypeOK
  <1>4. con[c] \in Container /\ con[c].options \in Seq(Option) /\ Numbered(con[c])
    BY <1>2 DEF TypeOK, LinesOK, Container
  <1> HIDE DEF comp
  <1>5. r \in Container /\ Numbered(r)
    BY <1>3, <1>4, AddFacts
  <1>6. DOMAIN copies = {} /\ menu.size = 0
    <2>1. menu.size = 0 /\ \A b \in DOMAIN copies : \E p \in 1..menu.size : menu.slots[p] = b
      BY <1>1, <1>2 DEF MenuOK, Stacked
    <2>2. \A p : p \notin 1..0
      OBVIOUS
    <2>3. \A b : b \notin DOMAIN copies
      BY <2>1, <2>2, Zenon
    <2> QED BY <2>1, <2>3
  <1>7. \/ comp.kind # "option" /\ r.options = con[c].options
        \/ comp.kind = "option" /\ Len(r.options) = Len(con[c].options) + 1
    <2>1. CASE comp.kind = "option"
      <3>1. PICK o \in Option : r.options = Append(con[c].options, o)
        BY <1>3, <1>4, <2>1, AddFacts
      <3> QED BY <1>4, <2>1, <3>1, AppendProperties
    <2>2. CASE comp.kind # "option"
      BY <1>3, <1>4, <2>2, AddFacts
    <2> QED BY <2>1, <2>2
  <1> HIDE DEF r
  <1>8. /\ Len(con[c].options) \in Nat
        /\ con[c].options = <<>> => Len(con[c].options) = 0
        /\ con[c].options # <<>> => Len(con[c].options) >= 1
    BY <1>4, EmptySeq
  <1>9. con'[c] = r /\ \A d \in Containers : d # c => con'[d] = con[d] /\ lit'[d] = lit[d]
    BY <1>1, <1>2 DEF TypeOK
  <1>10. lit'[c] = IF comp.kind = "option" /\ con[c].options = <<>> THEN {1} ELSE lit[c]
    BY <1>1, <1>2 DEF TypeOK
  <1>11. lit'[c] \subseteq 1..Len(con'[c].options)
    <2>1. lit[c] \subseteq 1..Len(con[c].options)
      BY <1>2 DEF TypeOK
    <2> QED BY <1>7, <1>8, <1>9, <1>10, <2>1
  <1>12. TypeOK'
    <2>1. con' \in [Containers -> Container] /\ todo' \in [Containers -> Seq(Component)]
          /\ DOMAIN lit' = Containers
      BY <1>1, <1>2, <1>3, <1>5 DEF TypeOK
    <2>2. \A d \in Containers : lit'[d] \subseteq 1..Len(con'[d].options)
      BY <1>2, <1>9, <1>11 DEF TypeOK
    <2> QED BY <1>1, <1>2, <2>1, <2>2 DEF TypeOK
  <1>13. LinesOK'
    BY <1>2, <1>5, <1>9 DEF LinesOK
  <1>14. MenuOK'
    BY <1>1, <1>2 DEF MenuOK
  <1>15. KeyOK'
    BY <1>1 DEF GuiInv, KeyOK
  <1>16. SelectorsOK' /\ CurrentValid' /\ ShownOK' /\ EndsOnlyOnBadContainer'
    BY <1>1, <1>6 DEF SelectorsOK, CurrentValid, ShownOK, UpToDate,
                      EndsOnlyOnBadContainer
  <1>17. LitOK'
    <2> SUFFICES ASSUME NEW d \in Containers, visits'[d] = 0
                 PROVE  lit'[d] = {1} \cap 1..Len(con'[d].options)
      BY <1>1, <1>6 DEF LitOK, Options
    <2>1. lit[d] = {1} \cap 1..Len(con[d].options)
      BY <1>1, <1>2 DEF LitOK, Options
    <2>2. CASE d # c
      BY <1>9, <2>1, <2>2
    <2>3. CASE d = c
      <3>1. CASE comp.kind # "option"
        BY <1>7, <1>9, <1>10, <2>1, <2>3, <3>1
      <3>2. CASE comp.kind = "option" /\ con[c].options = <<>>
        <4>1. Len(r.options) = 1
          BY <1>7, <1>8, <3>2
        <4>2. lit'[c] = {1} /\ con'[c] = r
          BY <1>9, <1>10, <3>2
        <4>3. {1} = {1} \cap 1..1
          OBVIOUS
        <4> QED BY <2>3, <4>1, <4>2, <4>3
      <3>3. CASE comp.kind = "option" /\ con[c].options # <<>>
        <4>1. /\ Len(con[c].options) >= 1 /\ Len(con[c].options) \in Nat
              /\ Len(r.options) = Len(con[c].options) + 1
          BY <1>7, <1>8, <3>3
        <4>2. 1 \in 1..Len(con[c].options) /\ 1 \in 1..Len(r.options)
          BY <4>1
        <4> QED BY <1>9, <1>10, <2>1, <2>3, <3>3, <4>2
      <3> QED BY <3>1, <3>2, <3>3
    <2> QED BY <2>2, <2>3
  <1> QED BY <1>12, <1>13, <1>14, <1>15, <1>16, <1>17 DEF GuiInv

LEMMA OpenInv == ASSUME GuiInv, Open PROVE GuiInv'
  <1>1. /\ pc = "build" /\ SetCurrent(Main) /\ dirty' = TRUE /\ pc' = "top"
        /\ UNCHANGED <<todo, con, lit, key, cur, screen>>
    BY DEF Open
  <1>2. TypeOK /\ LinesOK /\ MenuOK /\ SelectorsOK /\ LitOK
    BY DEF GuiInv
  <1>3. DOMAIN copies # 1..MaxDepth
    <2>1. menu.size = 0 /\ \A b \in DOMAIN copies : \E p \in 1..menu.size : menu.slots[p] = b
      BY <1>1, <1>2 DEF MenuOK, Stacked
    <2>2. \A p : p \notin 1..0
      OBVIOUS
    <2>3. \A b : b \notin DOMAIN copies
      BY <2>1, <2>2, Zenon
    <2>4. 1 \in 1..MaxDepth
      BY GuiAssumption
    <2> QED BY <2>3, <2>4
  <1>4. Main \in Containers
    BY GuiAssumption
  <1>5. /\ menu' \in Vectors /\ copies' \in [DOMAIN copies' -> Copy]
        /\ DOMAIN copies' \subseteq 1..MaxDepth /\ visits' \in [Containers -> 0..2]
    BY <1>1, <1>2, <1>3, <1>4, SetCurrentFacts
  <1>6. TypeOK'
    BY <1>1, <1>2, <1>5 DEF TypeOK, Vectors
  <1>7. MenuOK' /\ SelectorsOK' /\ LitOK'
    BY <1>1, <1>2, <1>3, <1>4, EnterInv
  <1>8. LinesOK'
    BY <1>1, <1>2 DEF LinesOK
  <1>9. KeyOK' /\ CurrentValid' /\ ShownOK' /\ EndsOnlyOnBadContainer'
    BY <1>1 DEF KeyOK, CurrentValid, ShownOK, UpToDate, EndsOnlyOnBadContainer
  <1> QED BY <1>6, <1>7, <1>8, <1>9 DEF GuiInv

(* The steps that leave containers, menu and selectors as they are.        *)
LEMMA SameHeap ==
  ASSUME GuiInv, UNCHANGED heapVars, pc # "build", pc' # "build"
  PROVE  /\ LinesOK' /\ MenuOK' /\ SelectorsOK' /\ LitOK'
         /\ copies'[Back(menu')].con = TopCon
         /\ Writes(TopCon)' = Writes(TopCon) /\ Drawn(TopCon)' = Drawn(TopCon)
         /\ Labels(TopCon)' = Labels(TopCon) /\ Options(TopCon)' = Options(TopCon)
  <1>1. UNCHANGED <<con, menu, copies, lit, visits>>
    BY DEF heapVars
  <1>2. LinesOK' /\ SelectorsOK' /\ LitOK' /\ MenuOK'
    BY <1>1 DEF GuiInv, LinesOK, SelectorsOK, LitOK, MenuOK, Options
  <1>3. copies'[Back(menu')].con = TopCon
    BY <1>1 DEF TopCon
  <1>4. /\ Writes(TopCon)' = Writes(TopCon) /\ Drawn(TopCon)' = Drawn(TopCon)
        /\ Labels(TopCon)' = Labels(TopCon) /\ Options(TopCon)' = Options(TopCon)
    BY <1>1 DEF TopCon, Drawn, Writes, Labels, Options
  <1> QED BY <1>2, <1>3, <1>4

LEMMA QuitInv == ASSUME GuiInv, Quit PROVE GuiInv'
  <1>1. /\ pc = "top" /\ pc' = "stopped"
        /\ UNCHANGED <<heapVars, key, cur, dirty, screen>>
    BY DEF Quit
  <1>2. LinesOK' /\ MenuOK' /\ SelectorsOK' /\ LitOK'
    BY <1>1, SameHeap
  <1>3. TypeOK'
    BY <1>1 DEF GuiInv, TypeOK, heapVars
  <1>4. KeyOK' /\ CurrentValid' /\ ShownOK' /\ EndsOnlyOnBadContainer'
    BY <1>1 DEF KeyOK, CurrentValid, ShownOK, UpToDate, EndsOnlyOnBadContainer
  <1> QED BY <1>2, <1>3, <1>4 DEF GuiInv

LEMMA ReturnInv == ASSUME GuiInv, Return PROVE GuiInv'
  <1>1. /\ pc = "top" /\ MenuReturn /\ cur' = Back(menu') /\ dirty' = TRUE
        /\ Render(Back(menu'), copies')
        /\ UNCHANGED <<todo, con, lit, key, visits>>
    BY DEF Return, Render
  <1>2. TypeOK /\ LinesOK /\ MenuOK /\ SelectorsOK /\ LitOK
    BY DEF GuiInv
  <1>3. /\ menu' \in Vectors /\ Stacked(menu', copies') /\ menu'.size \in Nat \ {0}
        /\ DOMAIN copies' \subseteq DOMAIN copies /\ copies' \in [DOMAIN copies' -> Copy]
    BY <1>1, <1>2, MenuReturnFacts
  <1>4. Back(menu') \in DOMAIN copies'
    BY <1>3, StackedTop
  <1>5. copies'[Back(menu')].con \in Containers
    BY <1>3, <1>4 DEF Copy
  <1>6. /\ pc' \in {"wait", "exited", "fault"} /\ DOMAIN screen' = 0..(Height - 1)
        /\ ShownOK' /\ EndsOnlyOnBadContainer'
    BY <1>1, <1>2, <1>5, RenderInv
  <1>7. TypeOK'
    <2>1. DOMAIN copies' \subseteq 1..MaxDepth /\ cur' \in 0..MaxDepth
      BY <1>1, <1>2, <1>3, <1>4, GuiAssumption DEF TypeOK
    <2> QED BY <1>1, <1>2, <1>3, <1>6, <2>1 DEF TypeOK, Vectors
  <1>8. MenuOK' /\ SelectorsOK' /\ LitOK'
    BY <1>1, <1>2, <1>6, LeaveInv
  <1>9. LinesOK' /\ KeyOK' /\ CurrentValid'
    BY <1>1, <1>2, <1>4, <1>6 DEF LinesOK, KeyOK, CurrentValid
  <1> QED BY <1>6, <1>7, <1>8, <1>9 DEF GuiInv

LEMMA StayInv == ASSUME GuiInv, Stay PROVE GuiInv'
  <1>1. /\ pc = "top" /\ cur' = Back(menu)
        /\ UNCHANGED <<heapVars, key, dirty>>
        /\ \/ dirty /\ Render(Back(menu), copies)
           \/ ~dirty /\ pc' = "wait" /\ UNCHANGED screen
    BY DEF Stay, Render
  <1>2. TypeOK /\ LinesOK /\ MenuOK /\ UNCHANGED <<todo, con, lit, menu, copies, visits>>
    BY <1>1 DEF GuiInv, heapVars
  <1>3. Back(menu) \in DOMAIN copies /\ copies[Back(menu)].con \in Containers
    BY <1>1, <1>2, TopFacts DEF TopCon
  <1>4. /\ pc' \in {"wait", "exited", "fault"} /\ DOMAIN screen' = 0..(Height - 1)
        /\ ShownOK' /\ EndsOnlyOnBadContainer'
    <2>1. CASE dirty /\ Render(Back(menu), copies)
      BY <1>2, <1>3, <2>1, RenderInv
    <2>2. CASE ~dirty /\ pc' = "wait" /\ UNCHANGED screen
      <3>1. Bad(Writes(TopCon)) = {} /\ screen = Drawn(TopCon)
        BY <1>1, <2>2 DEF GuiInv, ShownOK, UpToDate
      <3>2. Writes(TopCon)' = Writes(TopCon) /\ Drawn(TopCon)' = Drawn(TopCon)
        BY <1>1, <2>2, SameHeap
      <3>3. ShownOK'
        BY <2>2, <3>1, <3>2 DEF ShownOK
      <3>4. EndsOnlyOnBadContainer'
        BY <2>2 DEF EndsOnlyOnBadContainer
      <3> QED BY <1>2, <2>2, <3>3, <3>4 DEF TypeOK
    <2> QED BY <1>1, <2>1, <2>2
  <1>5. LinesOK' /\ MenuOK' /\ SelectorsOK' /\ LitOK'
    BY <1>1, <1>4, SameHeap
  <1>6. TypeOK'
    <2>1. cur' \in 0..MaxDepth
      BY <1>1, <1>2, <1>3, GuiAssumption DEF TypeOK
    <2> QED BY <1>1, <1>2, <1>4, <2>1 DEF TypeOK
  <1>7. KeyOK' /\ CurrentValid'
    BY <1>1, <1>2, <1>3, <1>4 DEF KeyOK, CurrentValid
  <1> QED BY <1>4, <1>5, <1>6, <1>7 DEF GuiInv

LEMMA PressInv == ASSUME GuiInv, NEW k \in Keys, Press(k) PROVE GuiInv'
  <1>1. /\ pc = "wait" /\ (k = "e" => DOMAIN copies # 1..MaxDepth)
        /\ key' = k /\ pc' = "handle" /\ UNCHANGED <<heapVars, cur, dirty, screen>>
    BY DEF Press
  <1>2. /\ LinesOK' /\ MenuOK' /\ SelectorsOK' /\ LitOK'
        /\ Writes(TopCon)' = Writes(TopCon) /\ Drawn(TopCon)' = Drawn(TopCon)
    BY <1>1, SameHeap
  <1>3. TypeOK'
    BY <1>1 DEF GuiInv, TypeOK, heapVars
  <1>4. ShownOK'
    BY <1>1, <1>2 DEF GuiInv, ShownOK, UpToDate
  <1>5. KeyOK' /\ CurrentValid' /\ EndsOnlyOnBadContainer'
    BY <1>1 DEF GuiInv, KeyOK, CurrentValid, EndsOnlyOnBadContainer, heapVars
  <1> QED BY <1>2, <1>3, <1>4, <1>5 DEF GuiInv

LEMMA IgnoreInv == ASSUME GuiInv, Ignore PROVE GuiInv'
  <1>1. /\ pc = "handle" /\ dirty' = FALSE /\ pc' = "top"
        /\ UNCHANGED <<heapVars, key, cur, screen>>
    BY DEF Ignore
  <1>2. /\ LinesOK' /\ MenuOK' /\ SelectorsOK' /\ LitOK'
        /\ Writes(TopCon)' = Writes(TopCon) /\ Drawn(TopCon)' = Drawn(TopCon)
    BY <1>1, SameHeap
  <1>3. TypeOK'
    BY <1>1 DEF GuiInv, TypeOK, heapVars
  <1>4. ShownOK'
    BY <1>1, <1>2 DEF GuiInv, ShownOK, UpToDate
  <1>5. KeyOK' /\ CurrentValid' /\ EndsOnlyOnBadContainer'
    BY <1>1 DEF KeyOK, CurrentValid, EndsOnlyOnBadContainer
  <1> QED BY <1>2, <1>3, <1>4, <1>5 DEF GuiInv

LEMMA NoOptionInv == ASSUME GuiInv, NoOption PROVE GuiInv'
  <1>1. /\ pc = "handle" /\ pc' = "exited" /\ Options(Selc.con) = <<>>
        /\ UNCHANGED <<heapVars, key, cur, dirty, screen>>
    BY DEF NoOption, Handling
  <1>2. /\ LinesOK' /\ MenuOK' /\ SelectorsOK' /\ LitOK'
        /\ copies'[Back(menu')].con = TopCon
        /\ Options(TopCon)' = Options(TopCon)
    BY <1>1, SameHeap
  <1>3. TypeOK'
    BY <1>1 DEF GuiInv, TypeOK, heapVars
  <1>4. EndsOnlyOnBadContainer'
    <2>1. Selc.con = TopCon
      BY <1>1 DEF GuiInv, CurrentValid, Selc, TopCon
    <2>2. Options(TopCon)' = <<>>
      BY <1>1, <1>2, <2>1
    <2> QED BY <1>1, <2>2 DEF EndsOnlyOnBadContainer, TopCon
  <1>5. KeyOK' /\ CurrentValid' /\ ShownOK'
    BY <1>1 DEF KeyOK, CurrentValid, ShownOK, UpToDate
  <1> QED BY <1>2, <1>3, <1>4, <1>5 DEF GuiInv

(* The selector of the current container moves to an option.               *)
LEMMA MoveFacts ==
  ASSUME GuiInv, pc = "handle", cur \in DOMAIN copies, NEW n \in Nat,
         n < Len(Options(Selc.con)),
         Selc.on < Len(Options(Selc.con)), MoveTo(n),
         UNCHANGED <<todo, con, menu, visits, key, cur, screen>>, dirty' = TRUE, pc' = "top"
  PROVE  GuiInv'
  <1> DEFINE k == Selc.con
             m == Len(Options(k))
  <1>1. TypeOK /\ LinesOK /\ MenuOK /\ SelectorsOK /\ LitOK
    BY DEF GuiInv
  <1>2. copies[cur] \in Copy /\ k \in Containers /\ Selc = copies[cur] /\ Selc.on \in Nat
    BY <1>1 DEF TypeOK, Copy, Selc
  <1>3. con[k] \in Container /\ m = Len(con[k].options) /\ m \in Nat /\ lit[k] \subseteq 1..m
    BY <1>1, <1>2 DEF TypeOK, Options, Container
  <1>4. /\ lit' = [lit EXCEPT ![k] = (lit[k] \ {Selc.on + 1}) \cup {n + 1}]
        /\ copies' = [copies EXCEPT ![cur].on = n]
    BY DEF MoveTo
  <1>5. /\ DOMAIN lit' = Containers /\ lit'[k] = (lit[k] \ {Selc.on + 1}) \cup {n + 1}
        /\ \A c \in Containers : c # k => lit'[c] = lit[c]
    BY <1>1, <1>2, <1>4 DEF TypeOK
  <1>6. /\ DOMAIN copies' = DOMAIN copies
        /\ copies'[cur] = [copies[cur] EXCEPT !.on = n]
        /\ \A b \in DOMAIN copies : b # cur => copies'[b] = copies[b]
    BY <1>4
  <1>7. /\ copies'[cur] = [con |-> k, on |-> n]
        /\ \A b \in DOMAIN copies : copies'[b] \in Copy /\ copies'[b].con = copies[b].con
    <2>1. copies'[cur] = [con |-> k, on |-> n]
      BY <1>2, <1>6 DEF Copy
    <2> HIDE DEF k
    <2>2. copies'[cur] \in Copy /\ copies'[cur].con = copies[cur].con
      BY <1>2, <2>1 DEF Copy, k
    <2>3. \A b \in DOMAIN copies : copies[b] \in Copy
      BY <1>1 DEF TypeOK
    <2> QED BY <1>6, <2>1, <2>2, <2>3 DEF k
  <1>8. n + 1 \in 1..m /\ m >= 1
    BY <1>3
  <1> HIDE DEF k, m
  <1>9. TypeOK'
    <2>1. \A c \in Containers : lit'[c] \subseteq 1..Len(con[c].options)
      BY <1>1, <1>3, <1>5, <1>8 DEF TypeOK
    <2>2. copies' \in [DOMAIN copies' -> Copy]
      BY <1>4, <1>6, <1>7
    <2> QED BY <1>1, <1>5, <1>6, <2>1, <2>2 DEF TypeOK
  <1>10. MenuOK'
    BY <1>1, <1>6 DEF MenuOK, Stacked
  <1>11. SelectorsOK'
    <2> SUFFICES ASSUME NEW b \in DOMAIN copies
                 PROVE  copies'[b].on = 0 \/ copies'[b].on < Len(Options(copies'[b].con))
      BY <1>6 DEF SelectorsOK, Options
    <2>1. CASE b = cur
      BY <1>7, <2>1 DEF k
    <2>2. CASE b # cur
      BY <1>1, <1>6, <2>2 DEF SelectorsOK
    <2> QED BY <2>1, <2>2
  <1>12. LitOK'
    <2> SUFFICES ASSUME NEW c \in Containers
                 PROVE
         /\ visits[c] = 0 => lit'[c] = {1} \cap 1..Len(con[c].options)
         /\ visits[c] = 0 => \A b \in DOMAIN copies : copies'[b].con # c
         /\ visits[c] = 1 => \A b, d \in DOMAIN copies :
                               copies'[b].con = c /\ copies'[d].con = c => b = d
         /\ visits[c] = 1 => \A b \in DOMAIN copies : copies'[b].con = c =>
                               lit'[c] = {copies'[b].on + 1} \cap 1..Len(con[c].options)
      BY <1>6 DEF LitOK, Options
    <2>1. /\ visits[c] = 0 => lit[c] = {1} \cap 1..Len(con[c].options)
          /\ visits[c] = 0 => \A b \in DOMAIN copies : copies[b].con # c
          /\ visits[c] = 1 => \A b, d \in DOMAIN copies :
                                copies[b].con = c /\ copies[d].con = c => b = d
          /\ visits[c] = 1 => \A b \in DOMAIN copies : copies[b].con = c =>
                                lit[c] = {copies[b].on + 1} \cap 1..Len(con[c].options)
      BY <1>1 DEF LitOK, Options
    <2>2. CASE c # k
      <3>1. \A b \in DOMAIN copies : copies[b].con = c => copies'[b] = copies[b]
        BY <1>2, <1>6, <2>2 DEF k
      <3> QED BY <1>5, <1>7, <2>1, <2>2, <3>1
    <2>3. CASE c = k
      <3>1. visits[k] # 0
        BY <1>2, <2>1, <2>3 DEF k
      <3>2. ASSUME visits[k] = 1, NEW b \in DOMAIN copies, copies'[b].con = k
            PROVE  lit'[k] = {copies'[b].on + 1} \cap 1..Len(con[k].options)
        <4>1. b = cur
          BY <1>2, <1>7, <2>1, <2>3, <3>2 DEF k
        <4>2. lit[k] = {Selc.on + 1} \cap 1..m
          BY <1>2, <1>3, <2>1, <2>3, <3>2 DEF k
        <4>3. lit'[k] = {n + 1}
          BY <1>5, <4>2
        <4>4. copies'[b].on = n
          BY <1>7, <4>1
        <4> QED BY <1>3, <1>8, <4>3, <4>4
      <3> QED BY <1>7, <2>1, <2>3, <3>1, <3>2
    <2> QED BY <2>2, <2>3
  <1>13. LinesOK' /\ KeyOK' /\ CurrentValid' /\ ShownOK' /\ EndsOnlyOnBadContainer'
    BY <1>1 DEF LinesOK, KeyOK, CurrentValid, ShownOK, UpToDate, EndsOnlyOnBadContainer
  <1> QED BY <1>9, <1>10, <1>11, <1>12, <1>13 DEF GuiInv

(* It does not move.                                                       *)
LEMMA StillInv ==
  ASSUME GuiInv, pc = "handle", UNCHANGED heapVars, UNCHANGED <<key, cur, screen>>,
         dirty' = TRUE, pc' = "top"
  PROVE  GuiInv'
  <1>1. LinesOK' /\ MenuOK' /\ SelectorsOK' /\ LitOK'
    BY SameHeap
  <1>2. TypeOK'
    BY DEF GuiInv, TypeOK, heapVars
  <1>3. KeyOK' /\ CurrentValid' /\ ShownOK' /\ EndsOnlyOnBadContainer'
    BY DEF KeyOK, CurrentValid, ShownOK, UpToDate, EndsOnlyOnBadContainer
  <1> QED BY <1>1, <1>2, <1>3 DEF GuiInv

(* The selector of the current container, and how many options there are.  *)
LEMMA SelcFacts ==
  ASSUME GuiInv, cur \in DOMAIN copies
  PROVE  /\ Selc.con \in Containers /\ Selc.on \in Nat
         /\ Len(Options(Selc.con)) \in Nat
         /\ Options(Selc.con) # <<>> => Len(Options(Selc.con)) # 0
         /\ Selc.on = 0 \/ Selc.on < Len(Options(Selc.con))
  <1>1. Selc \in Copy /\ Selc = copies[cur]
    BY DEF GuiInv, TypeOK, Selc
  <1>2. Selc.con \in Containers /\ Selc.on \in Nat
    BY <1>1 DEF Copy
  <1>3. Options(Selc.con) \in Seq(Option)
    BY <1>2 DEF GuiInv, TypeOK, Options, Container
  <1>4. Selc.on = 0 \/ Selc.on < Len(Options(Selc.con))
    BY <1>1 DEF GuiInv, SelectorsOK
  <1> QED BY <1>2, <1>3, <1>4, EmptySeq

LEMMA UpInv == ASSUME GuiInv, Up PROVE GuiInv'
  <1>1. /\ pc = "handle" /\ cur \in DOMAIN copies /\ dirty' = TRUE /\ pc' = "top"
        /\ UNCHANGED <<todo, con, menu, visits, key, cur, screen>>
        /\ \/ Selc.on # 0 /\ MoveTo(Selc.on - 1)
           \/ Selc.on = 0 /\ UNCHANGED <<lit, copies>>
    BY DEF Up, Handling
  <1>2. CASE Selc.on # 0 /\ MoveTo(Selc.on - 1)
    <2>1. Selc.on - 1 \in Nat /\ Selc.on - 1 < Len(Options(Selc.con))
          /\ Selc.on < Len(Options(Selc.con))
      BY <1>1, <1>2, SelcFacts
    <2> QED BY <1>1, <1>2, <2>1, MoveFacts
  <1>3. CASE Selc.on = 0 /\ UNCHANGED <<lit, copies>>
    <2>1. UNCHANGED heapVars
      BY <1>1, <1>3 DEF heapVars
    <2> QED BY <1>1, <2>1, StillInv
  <1> QED BY <1>1, <1>2, <1>3

LEMMA DownInv == ASSUME GuiInv, Down PROVE GuiInv'
  <1>1. /\ pc = "handle" /\ cur \in DOMAIN copies /\ dirty' = TRUE /\ pc' = "top"
        /\ UNCHANGED <<todo, con, menu, visits, key, cur, screen>>
        /\ \/ Selc.on + 1 < Len(Options(Selc.con)) /\ MoveTo(Selc.on + 1)
           \/ UNCHANGED <<lit, copies>>
    BY DEF Down, Handling
  <1>2. CASE Selc.on + 1 < Len(Options(Selc.con)) /\ MoveTo(Selc.on + 1)
    <2>1. Selc.on + 1 \in Nat /\ Selc.on < Len(Options(Selc.con))
      BY <1>1, <1>2, SelcFacts
    <2> QED BY <1>1, <1>2, <2>1, MoveFacts
  <1>3. CASE UNCHANGED <<lit, copies>>
    <2>1. UNCHANGED heapVars
      BY <1>1, <1>3 DEF heapVars
    <2> QED BY <1>1, <2>1, StillInv
  <1> QED BY <1>1, <1>2, <1>3

LEMMA SelectInv == ASSUME GuiInv, Select PROVE GuiInv'
  <1> DEFINE target == Options(Selc.con)[Selc.on + 1].target
  <1>1. /\ pc = "handle" /\ key = "e" /\ cur \in DOMAIN copies
        /\ Selc.on < Len(Options(Selc.con)) /\ dirty' = TRUE /\ pc' = "top"
        /\ UNCHANGED <<todo, con, lit, key, cur, screen>>
        /\ \/ target # NoTarget /\ SetCurrent(target)
           \/ target = NoTarget /\ UNCHANGED <<menu, copies, visits>>
    BY DEF Select, Handling
  <1>2. TypeOK /\ LinesOK /\ MenuOK /\ SelectorsOK /\ LitOK /\ DOMAIN copies # 1..MaxDepth
    BY <1>1 DEF GuiInv, KeyOK
  <1>3. target \in Containers \cup {NoTarget}
    <2>1. Options(Selc.con) \in Seq(Option)
      BY <1>1, <1>2, SelcFacts DEF GuiInv, TypeOK, Options, Container
    <2>2. Selc.on + 1 \in 1..Len(Options(Selc.con))
      BY <1>1, SelcFacts
    <2>3. Options(Selc.con)[Selc.on + 1] \in Option
      BY <2>1, <2>2, ElementOfSeq
    <2> QED BY <2>3 DEF Option
  <1> HIDE DEF target
  <1>4. CASE target # NoTarget /\ SetCurrent(target)
    <2>1. target \in Containers
      BY <1>3, <1>4
    <2>2. /\ menu' \in Vectors /\ copies' \in [DOMAIN copies' -> Copy]
          /\ DOMAIN copies' \subseteq 1..MaxDepth /\ visits' \in [Containers -> 0..2]
      BY <1>2, <1>4, <2>1, SetCurrentFacts
    <2>3. TypeOK'
      BY <1>1, <1>2, <2>2 DEF TypeOK, Vectors
    <2>4. MenuOK' /\ SelectorsOK' /\ LitOK'
      BY <1>1, <1>2, <1>4, <2>1, EnterInv
    <2>5. LinesOK'
      BY <1>1, <1>2 DEF LinesOK
    <2>6. KeyOK' /\ CurrentValid' /\ ShownOK' /\ EndsOnlyOnBadContainer'
      BY <1>1 DEF KeyOK, CurrentValid, ShownOK, UpToDate, EndsOnlyOnBadContainer
    <2> QED BY <2>3, <2>4, <2>5, <2>6 DEF GuiInv
  <1>5. CASE UNCHANGED <<menu, copies, visits>>
    <2>1. UNCHANGED heapVars
      BY <1>1, <1>5 DEF heapVars
    <2> QED BY <1>1, <2>1, StillInv
  <1> QED BY <1>1, <1>4, <1>5

LEMMA StutterInv == ASSUME GuiInv, UNCHANGED vars PROVE GuiInv'
  <1>1. UNCHANGED <<todo, con, lit, menu, copies, key, cur, dirty, screen, visits, pc>>
    BY DEF vars
  <1>2. TypeOK'
    BY <1>1 DEF GuiInv, TypeOK
  <1>3. LinesOK' /\ MenuOK' /\ KeyOK' /\ SelectorsOK' /\ LitOK' /\ CurrentValid'
    BY <1>1 DEF GuiInv, LinesOK, MenuOK, KeyOK, SelectorsOK, LitOK, Options, CurrentValid
  <1>4. ShownOK'
    BY <1>1 DEF GuiInv, ShownOK, UpToDate, TopCon, Drawn, Writes
  <1>5. EndsOnlyOnBadContainer'
    BY <1>1 DEF GuiInv, EndsOnlyOnBadContainer, Labels, Options
  <1> QED BY <1>2, <1>3, <1>4, <1>5 DEF GuiInv

(* The inductive invariant holds in every state.                           *)
THEOREM InvHolds == Spec => []GuiInv
  <1>1. ASSUME GuiInv, [Next]_vars PROVE GuiInv'
    <2>1. ASSUME NEW c \in Containers, Build(c) PROVE GuiInv'
      BY <1>1, <2>1, BuildInv
    <2>2. CASE Open
      BY <1>1, <2>2, OpenInv
    <2>3. CASE Quit
      BY <1>1, <2>3, QuitInv
    <2>4. CASE Return
      BY <1>1, <2>4, ReturnInv
    <2>5. CASE Stay
      BY <1>1, <2>5, StayInv
    <2>6. ASSUME NEW k \in Keys, Press(k) PROVE GuiInv'
      BY <1>1, <2>6, PressInv
    <2>7. CASE Up
      BY <1>1, <2>7, UpInv
    <2>8. CASE Down
      BY <1>1, <2>8, DownInv
    <2>9. CASE Select
      BY <1>1, <2>9, SelectInv
    <2>10. CASE NoOption
      BY <1>1, <2>10, NoOptionInv
    <2>11. CASE Ignore
      BY <1>1, <2>11, IgnoreInv
    <2>12. CASE Halted \/ UNCHANGED vars
      BY <1>1, <2>12, StutterInv DEF Halted
    <2> QED BY <1>1, <2>1, <2>2, <2>3, <2>4, <2>5, <2>6, <2>7, <2>8, <2>9, <2>10, <2>11,
               <2>12 DEF Next, LoopStep
  <1> QED BY <1>1, InitInv, PTL DEF Spec

-----------------------------------------------------------------------------
(* The menu is a stack of containers and selected options                  *)

StackOf(v, cs) == [p \in 1..v.size |-> cs[v.slots[p]]]

LEMMA StackOfFacts ==
  ASSUME NEW v \in Vectors, NEW cs, Stacked(v, cs), cs \in [DOMAIN cs -> Copy]
  PROVE  /\ StackOf(v, cs) \in Seq(Copy) /\ Len(StackOf(v, cs)) = v.size
         /\ \A p \in 1..v.size : StackOf(v, cs)[p] = cs[v.slots[p]]
  <1> DEFINE s == StackOf(v, cs)
  <1>1. v.size \in Nat
    BY DEF Vectors
  <1>2. s \in [1..v.size -> Copy]
    BY DEF StackOf, Stacked
  <1>3. \A p \in 1..v.size : s[p] = cs[v.slots[p]]
    BY DEF StackOf
  <1> HIDE DEF s
  <1>4. s \in Seq(Copy) /\ Len(s) = v.size
    BY <1>1, <1>2, SeqDef
  <1> QED BY <1>3, <1>4 DEF s

(* The stack of the menu, and the container that is on top of it.          *)
LEMMA StackFacts ==
  ASSUME GuiInv
  PROVE  /\ Stack \in Seq(Copy) /\ Len(Stack) = menu.size /\ menu.size \in Nat
         /\ \A p \in 1..menu.size : Stack[p] = copies[menu.slots[p]]
         /\ Stack = <<>> <=> menu.size = 0
  <1>1. /\ menu \in Vectors /\ menu.size \in Nat /\ Stacked(menu, copies)
        /\ copies \in [DOMAIN copies -> Copy]
    BY DEF GuiInv, TypeOK, MenuOK, Vectors
  <1>2. Stack = StackOf(menu, copies)
    BY DEF Stack, StackOf
  <1>3. /\ Stack \in Seq(Copy) /\ Len(Stack) = menu.size
        /\ \A p \in 1..menu.size : Stack[p] = copies[menu.slots[p]]
    BY <1>1, <1>2, StackOfFacts
  <1>4. Stack = <<>> <=> Len(Stack) = 0
    BY <1>3, EmptySeq
  <1> QED BY <1>1, <1>3, <1>4

LEMMA StackPrimed ==
  ASSUME GuiInv'
  PROVE  /\ Stack' \in Seq(Copy) /\ Len(Stack') = menu'.size /\ menu'.size \in Nat
         /\ \A p \in 1..menu'.size : Stack'[p] = copies'[menu'.slots[p]]
  <1>1. /\ menu' \in Vectors /\ menu'.size \in Nat /\ Stacked(menu', copies')
        /\ copies' \in [DOMAIN copies' -> Copy]
    BY DEF GuiInv, TypeOK, MenuOK, Vectors
  <1>2. Stack' = StackOf(menu', copies')
    BY DEF Stack, StackOf
  <1> QED BY <1>1, <1>2, StackOfFacts

LEMMA TopIs ==
  ASSUME GuiInv, pc # "build"
  PROVE  /\ Len(Stack) = menu.size /\ menu.size >= 1 /\ menu.size \in Nat
         /\ Stack # <<>> /\ M!Top = copies[Back(menu)]
  <1>1. menu.size >= 1 /\ Back(menu) = menu.slots[menu.size]
    BY TopFacts DEF GuiInv
  <1>2. /\ Stack \in Seq(Copy) /\ Len(Stack) = menu.size /\ menu.size \in Nat
        /\ \A p \in 1..menu.size : Stack[p] = copies[menu.slots[p]]
        /\ Stack = <<>> <=> menu.size = 0
    BY StackFacts
  <1>3. menu.size \in 1..menu.size
    BY <1>1, <1>2
  <1>4. M!Top = Stack[Len(Stack)]
    BY DEF M!Top, M!Last
  <1> QED BY <1>1, <1>2, <1>3, <1>4

(* Pushing, popping and moving, as they are seen on the stack.             *)
LEMMA StackPush ==
  ASSUME GuiInv, GuiInv', DOMAIN copies # 1..MaxDepth, NEW c \in Containers, SetCurrent(c)
  PROVE  Stack' = Append(Stack, [con |-> c, on |-> 0])
  <1> DEFINE d == [con |-> c, on |-> 0]
             n == menu.size
             s == Append(Stack, d)
  <1>1. /\ menu'.size = n + 1 /\ menu'.slots[n + 1] = Fresh /\ Agree(menu, menu', n)
        /\ Fresh \notin DOMAIN copies /\ copies'[Fresh] = d
        /\ \A b \in DOMAIN copies : copies'[b] = copies[b]
    BY SetCurrentFacts DEF GuiInv
  <1>2. d \in Copy
    BY DEF Copy
  <1>3. \A p \in 1..n : menu.slots[p] \in DOMAIN copies
    BY DEF GuiInv, MenuOK, Stacked
  <1> HIDE DEF d, n
  <1>4. /\ Stack \in Seq(Copy) /\ Len(Stack) = n /\ n \in Nat
        /\ \A p \in 1..n : Stack[p] = copies[menu.slots[p]]
    BY StackFacts DEF n
  <1>5. /\ Stack' \in Seq(Copy) /\ Len(Stack') = n + 1
        /\ \A p \in 1..(n + 1) : Stack'[p] = copies'[menu'.slots[p]]
    BY <1>1, StackPrimed
  <1>6. /\ s \in Seq(Copy) /\ Len(s) = n + 1 /\ s[n + 1] = d
        /\ \A p \in 1..n : s[p] = Stack[p]
    BY <1>2, <1>4, AppendProperties
  <1> HIDE DEF s
  <1>7. ASSUME NEW p \in 1..(n + 1) PROVE Stack'[p] = s[p]
    <2>1. CASE p \in 1..n
      <3>1. menu'.slots[p] = menu.slots[p] /\ copies'[menu.slots[p]] = copies[menu.slots[p]]
        BY <1>1, <1>3, <2>1 DEF Agree
      <3> QED BY <1>4, <1>5, <1>6, <2>1, <3>1
    <2>2. CASE p = n + 1
      BY <1>1, <1>5, <1>6, <2>2
    <2> QED BY <1>4, <2>1, <2>2
  <1>8. Stack' = s
    BY <1>4, <1>5, <1>6, <1>7, SeqEqual
  <1> QED BY <1>8 DEF s, d

LEMMA StackPop ==
  ASSUME GuiInv, GuiInv', pc # "build", MenuReturn
  PROVE  Stack' = IF Len(Stack) = 1 THEN Stack ELSE Front(Stack)
  <1> DEFINE n == menu.size
             m == menu'.size
  <1>1. /\ m = IF n = 1 THEN 1 ELSE n - 1
        /\ m \in Nat \ {0} /\ Agree(menu, menu', m)
        /\ \A b \in DOMAIN copies' : copies'[b] = copies[b]
    BY MenuReturnFacts DEF GuiInv
  <1>2. \A p \in 1..m : menu'.slots[p] \in DOMAIN copies'
    BY DEF GuiInv, MenuOK, Stacked
  <1> HIDE DEF n, m
  <1>3. /\ Stack \in Seq(Copy) /\ Len(Stack) = n /\ n \in Nat
        /\ \A p \in 1..n : Stack[p] = copies[menu.slots[p]]
    BY StackFacts DEF n
  <1>4. /\ Stack' \in Seq(Copy) /\ Len(Stack') = m
        /\ \A p \in 1..m : Stack'[p] = copies'[menu'.slots[p]]
    BY StackPrimed DEF m
  <1>5. n >= 1
    BY TopFacts DEF GuiInv, n
  <1>6. m <= n
    BY <1>1, <1>3, <1>5
  <1>7. ASSUME NEW p \in 1..m PROVE Stack'[p] = Stack[p]
    <2>1. menu'.slots[p] = menu.slots[p] /\ menu'.slots[p] \in DOMAIN copies'
      BY <1>1, <1>2 DEF Agree
    <2>2. p \in 1..n
      BY <1>1, <1>3, <1>6
    <2> QED BY <1>1, <1>3, <1>4, <2>1, <2>2
  <1>8. CASE n = 1
    <2>1. m = n
      BY <1>1, <1>8
    <2>2. Stack' = Stack
      BY <1>3, <1>4, <1>7, <2>1, SeqEqual
    <2> QED BY <1>3, <1>8, <2>2
  <1>9. CASE n # 1
    <2> DEFINE s == SubSeq(Stack, 1, n - 1)
    <2>1. m = n - 1 /\ n - 1 \in Nat /\ 1 <= n - 1 /\ (n - 1) - 1 + 1 = n - 1
      BY <1>1, <1>3, <1>5, <1>9
    <2>2. \A i \in 1..(n - 1) : Stack[i] \in Copy
      <3>1. \A i \in 1..(n - 1) : i \in 1..Len(Stack)
        BY <1>3
      <3> QED BY <1>3, <3>1, ElementOfSeq
    <2>3. /\ s \in Seq(Copy) /\ Len(s) = n - 1
          /\ \A i \in 1..(n - 1) : s[i] = Stack[i]
      <3>1. /\ s \in Seq(Copy) /\ Len(s) = IF 1 <= n - 1 THEN n - 1 - 1 + 1 ELSE 0
            /\ \A i \in 1..((n - 1) - 1 + 1) : s[i] = Stack[1 + i - 1]
        BY <1>3, <2>1, <2>2, SubSeqProperties
      <3> HIDE DEF s
      <3>2. Len(s) = n - 1
        BY <2>1, <3>1
      <3>3. ASSUME NEW i \in 1..(n - 1) PROVE s[i] = Stack[i]
        <4>1. i \in 1..((n - 1) - 1 + 1) /\ 1 + i - 1 = i
          BY <2>1
        <4> QED BY <3>1, <4>1
      <3> QED BY <3>1, <3>2, <3>3
    <2> HIDE DEF s
    <2>4. Stack' = s
      BY <1>4, <1>7, <2>1, <2>3, SeqEqual
    <2>5. Front(Stack) = s
      BY <1>3 DEF Front, s
    <2> QED BY <1>3, <1>9, <2>4, <2>5
  <1> QED BY <1>8, <1>9

LEMMA StackMove ==
  ASSUME GuiInv, GuiInv', pc # "build", cur = Back(menu), UNCHANGED menu,
         NEW m \in Nat, copies'[cur] = [con |-> Selc.con, on |-> m],
         \A b \in DOMAIN copies : b # cur => copies'[b] = copies[b]
  PROVE  Stack' = [Stack EXCEPT ![Len(Stack)].on = m]
  <1> DEFINE n == menu.size
             d == [con |-> Selc.con, on |-> m]
             s == [Stack EXCEPT ![n] = d]
  <1>1. n >= 1 /\ Back(menu) = menu.slots[n] /\ Back(menu) \in DOMAIN copies
    BY TopFacts DEF GuiInv
  <1>2. /\ \A p \in 1..n : menu.slots[p] \in DOMAIN copies
        /\ \A p, q \in 1..n : menu.slots[p] = menu.slots[q] => p = q
    BY DEF GuiInv, MenuOK, Stacked
  <1>3. /\ Stack \in Seq(Copy) /\ Len(Stack) = n /\ n \in Nat
        /\ \A p \in 1..n : Stack[p] = copies[menu.slots[p]]
    BY StackFacts
  <1>4. /\ Stack' \in Seq(Copy) /\ Len(Stack') = n
        /\ \A p \in 1..n : Stack'[p] = copies'[menu.slots[p]]
    BY StackPrimed
  <1>5. copies[cur] \in Copy /\ Selc = copies[cur]
    BY <1>1 DEF GuiInv, TypeOK, Selc
  <1>6. d \in Copy /\ [Selc EXCEPT !.on = m] = d
    BY <1>5 DEF Copy
  <1>7. n \in 1..n /\ Stack[n] = Selc
    BY <1>1, <1>3, <1>5
  <1>8. [Stack EXCEPT ![Len(Stack)].on = m] = s
    <2> HIDE DEF d
    <2> QED BY <1>3, <1>6, <1>7
  <1> HIDE DEF d, n
  <1>9. s \in Seq(Copy) /\ Len(s) = n /\ \A p \in 1..n : s[p] = IF p = n THEN d ELSE Stack[p]
    BY <1>3, <1>6, <1>7, ExceptSeq
  <1> HIDE DEF s
  <1>10. ASSUME NEW p \in 1..n PROVE Stack'[p] = s[p]
    <2>1. CASE p = n
      <3>1. Stack'[p] = copies'[cur]
        BY <1>1, <1>4, <2>1
      <3> QED BY <1>9, <2>1, <3>1 DEF d
    <2>2. CASE p # n
      <3>1. menu.slots[p] # cur /\ menu.slots[p] \in DOMAIN copies
        BY <1>1, <1>2, <1>7, <2>2
      <3>2. Stack'[p] = copies[menu.slots[p]]
        BY <1>4, <3>1
      <3> QED BY <1>3, <1>9, <2>2, <3>2
    <2> QED BY <2>1, <2>2
  <1>11. Stack' = s
    BY <1>3, <1>4, <1>9, <1>10, SeqEqual
  <1> QED BY <1>8, <1>11

(* What the options of a container enter, when one is added.               *)
TargetsOf(options) == [p \in DOMAIN options |-> options[p].target]

LEMMA TargetsAppend ==
  ASSUME NEW s \in Seq(Option), NEW o \in Option
  PROVE  TargetsOf(Append(s, o)) = Append(TargetsOf(s), o.target)
  <1> DEFINE T == Containers \cup {NoTarget}
             a == Append(s, o)
             u == TargetsOf(a)
             v == TargetsOf(s)
             w == Append(v, o.target)
             n == Len(s)
  <1>1. n \in Nat /\ o.target \in T /\ DOMAIN s = 1..n /\ \A p \in 1..n : s[p] \in Option
    <2>1. n \in Nat /\ DOMAIN s = 1..n
      OBVIOUS
    <2>2. \A p \in 1..n : s[p] \in Option
      BY ElementOfSeq
    <2>3. o.target \in T
      BY DEF Option
    <2> HIDE DEF T, n
    <2> QED BY <2>1, <2>2, <2>3
  <1>2. /\ a \in Seq(Option) /\ Len(a) = n + 1 /\ a[n + 1] = o
        /\ \A p \in 1..n : a[p] = s[p]
    BY AppendProperties
  <1>3. DOMAIN a = 1..(n + 1) /\ \A p \in 1..(n + 1) : a[p] \in Option
    BY <1>1, <1>2
  <1> HIDE DEF a, n
  <1>4. /\ u \in [1..(n + 1) -> T] /\ \A p \in 1..(n + 1) : u[p] = a[p].target
    BY <1>3 DEF TargetsOf, Option
  <1>5. /\ v \in [1..n -> T] /\ \A p \in 1..n : v[p] = s[p].target
    BY <1>1 DEF TargetsOf, Option
  <1> HIDE DEF u, v, T
  <1>6. u \in Seq(T) /\ Len(u) = n + 1 /\ v \in Seq(T) /\ Len(v) = n
    <2>1. n + 1 \in Nat
      BY <1>1
    <2> QED BY <1>1, <1>4, <1>5, <2>1, SeqDef
  <1>7. /\ w \in Seq(T) /\ Len(w) = n + 1 /\ w[n + 1] = o.target
        /\ \A p \in 1..n : w[p] = v[p]
    BY <1>1, <1>6, AppendProperties
  <1> HIDE DEF w
  <1>8. ASSUME NEW p \in 1..(n + 1) PROVE u[p] = w[p]
    <2>1. p \in 1..n \/ p = n + 1
      BY <1>1
    <2> QED BY <1>2, <1>4, <1>5, <1>7, <2>1
  <1>9. u = w
    BY <1>6, <1>7, <1>8, SeqEqual
  <1> QED BY <1>9 DEF a, u, v, w

LEMMA TargetsAre == Targets = [c \in Containers |-> TargetsOf(con[c].options)]
  BY DEF Targets, TargetsOf, Options

LEMMA TargetsPrimed == Targets' = [c \in Containers |-> TargetsOf(con'[c].options)]
  BY DEF Targets, TargetsOf, Options

LEMMA TargetsFacts ==
  ASSUME GuiInv, NEW c \in Containers
  PROVE  /\ Len(Targets[c]) = Len(Options(c))
         /\ \A p \in 1..Len(Options(c)) : Targets[c][p] = Options(c)[p].target
  <1> DEFINE k == Len(Options(c))
             T == {Options(c)[p].target : p \in 1..k}
             s == [p \in 1..k |-> Options(c)[p].target]
  <1>1. Options(c) \in Seq(Option) /\ k \in Nat
    BY DEF GuiInv, TypeOK, Options, Container
  <1>2. Targets[c] = s
    BY <1>1 DEF Targets
  <1>3. s \in [1..k -> T] /\ \A p \in 1..k : s[p] = Options(c)[p].target
    OBVIOUS
  <1> HIDE DEF s, T, k
  <1>4. Len(s) = k
    BY <1>1, <1>3, SeqDef
  <1> QED BY <1>2, <1>3, <1>4 DEF k

-----------------------------------------------------------------------------
(* Each operation of the menu is one of the stack                          *)

LEMMA AddOptionAgrees ==
  ASSUME GuiInv, NEW c \in Containers, Build(c), Head(todo[c]).kind = "option"
  PROVE  M!AddOption(c, Head(todo[c]).target)
  <1> DEFINE comp == Head(todo[c])
             r == Add(con[c], comp)
             t == comp.target
  <1>1. /\ pc = "build" /\ todo[c] # <<>> /\ con' = [con EXCEPT ![c] = r]
        /\ UNCHANGED <<menu, copies>> /\ UNCHANGED Waiting
    BY DEF Build, Waiting
  <1>2. todo[c] \in Seq(Component) /\ con[c] \in Container /\ Numbered(con[c])
        /\ con \in [Containers -> Container]
    BY DEF GuiInv, TypeOK, LinesOK
  <1>3. comp \in Component /\ comp.kind = "option"
    BY <1>1, <1>2, HeadTailProperties
  <1>4. Stack = <<>>
    BY <1>1, StackFacts DEF GuiInv, MenuOK
  <1>5. UNCHANGED Stack
    BY <1>1 DEF Stack
  <1> HIDE DEF comp
  <1>6. PICK o \in Option : o.target = t /\ r.options = Append(con[c].options, o)
    BY <1>2, <1>3, AddFacts
  <1> HIDE DEF r
  <1>7. TargetsOf(r.options) = Append(TargetsOf(con[c].options), t)
    BY <1>2, <1>6, TargetsAppend DEF Container
  <1>8. Targets' = [Targets EXCEPT ![c] = Append(Targets[c], t)]
    <2> DEFINE u == [d \in Containers |-> TargetsOf(con'[d].options)]
               v == [d \in Containers |-> TargetsOf(con[d].options)]
               w == [v EXCEPT ![c] = Append(v[c], t)]
    <2>1. /\ con'[c] = r /\ \A d \in Containers : d # c => con'[d] = con[d]
      BY <1>1, <1>2
    <2>2. v[c] = TargetsOf(con[c].options)
      OBVIOUS
    <2>3. u[c] = w[c]
      BY <1>7, <2>1, <2>2
    <2>4. \A d \in Containers : d # c => u[d] = w[d]
      BY <2>1
    <2>5. DOMAIN u = Containers /\ DOMAIN w = Containers
          /\ u = [d \in Containers |-> u[d]] /\ w = [d \in Containers |-> w[d]]
      OBVIOUS
    <2> HIDE DEF u, w
    <2>6. u = w
      BY <2>3, <2>4, <2>5
    <2> QED BY <2>6, TargetsAre, TargetsPrimed DEF u, w
  <1> QED BY <1>1, <1>4, <1>5, <1>8 DEF M!AddOption, t, comp

LEMMA OpenAgrees == ASSUME GuiInv, Open PROVE M!Open(Main)
  <1>1. pc = "build" /\ SetCurrent(Main) /\ con' = con /\ key' = key /\ pc' = "top"
    BY DEF Open
  <1>2. DOMAIN copies # 1..MaxDepth
    <2>1. menu.size = 0 /\ \A b \in DOMAIN copies : \E p \in 1..menu.size : menu.slots[p] = b
      BY <1>1 DEF GuiInv, MenuOK, Stacked
    <2>2. \A p : p \notin 1..0
      OBVIOUS
    <2>3. \A b : b \notin DOMAIN copies
      BY <2>1, <2>2, Zenon
    <2>4. 1 \in 1..MaxDepth
      BY GuiAssumption
    <2> QED BY <2>3, <2>4
  <1>3. Stack = <<>>
    BY <1>1, StackFacts DEF GuiInv, MenuOK
  <1>4. Stack' = Append(Stack, [con |-> Main, on |-> 0])
    BY <1>1, <1>2, OpenInv, GuiAssumption, StackPush
  <1>5. Stack' = <<[con |-> Main, on |-> 0]>>
    BY <1>3, <1>4
  <1>6. Targets' = Targets
    BY <1>1 DEF Targets, Options
  <1>7. Waiting' = Waiting
    <2>1. key \notin ForLoop
      BY <1>1 DEF GuiInv, KeyOK, ForLoop
    <2> QED BY <1>1, <2>1 DEF Waiting
  <1> QED BY <1>3, <1>5, <1>6, <1>7 DEF M!Open

(* A key that waited and no longer does is handled.                        *)
LEMMA HandledAgrees ==
  ASSUME GuiInv, pc # "build", Waiting # "none", con' = con, Waiting' = "none"
  PROVE  Stack # <<>> /\ Waiting \in Keys /\ M!Handled(Waiting)
  <1>1. Stack # <<>>
    BY TopIs
  <1>2. Waiting \in Keys
    BY DEF GuiInv, TypeOK, Waiting
  <1>3. Targets' = Targets
    BY DEF Targets, Options
  <1> QED BY <1>1, <1>2, <1>3 DEF M!Handled

(* The selector has handled its key, at the turn of the loop.              *)
LEMMA SelectorHandled ==
  ASSUME GuiInv, pc = "handle", key \notin ForLoop, con' = con, key' = key,
         pc' \in {"top", "exited"}
  PROVE  Waiting = key /\ key \in Keys /\ M!Handled(key)
  <1>1. Waiting = key /\ key \in Keys /\ key # "none" /\ Waiting' = "none"
    BY GuiAssumption DEF GuiInv, KeyOK, Waiting
  <1> QED BY <1>1, HandledAgrees

LEMMA UpAgrees == ASSUME GuiInv, Up PROVE M!Up
  <1>1. /\ pc = "handle" /\ key = "w" /\ cur \in DOMAIN copies /\ pc' = "top"
        /\ UNCHANGED <<con, menu, key>>
        /\ \/ Selc.on # 0 /\ MoveTo(Selc.on - 1)
           \/ Selc.on = 0 /\ UNCHANGED <<lit, copies>>
    BY DEF Up, Handling
  <1>2. cur = Back(menu) /\ GuiInv'
    BY <1>1, UpInv DEF GuiInv, CurrentValid
  <1>3. M!Top = Selc
    BY <1>1, <1>2, TopIs DEF Selc
  <1> DEFINE n == IF Selc.on = 0 THEN 0 ELSE Selc.on - 1
  <1>4. n \in Nat /\ Selc \in Copy
    BY <1>1, SelcFacts DEF GuiInv, TypeOK, Selc
  <1>5. /\ copies'[cur] = [con |-> Selc.con, on |-> n]
        /\ \A b \in DOMAIN copies : b # cur => copies'[b] = copies[b]
    <2>1. CASE Selc.on # 0 /\ MoveTo(Selc.on - 1)
      <3>1. copies' = [copies EXCEPT ![cur].on = n]
        BY <2>1 DEF MoveTo
      <3> HIDE DEF n
      <3> QED BY <1>1, <1>4, <3>1 DEF Selc, Copy
    <2>2. CASE Selc.on = 0 /\ UNCHANGED <<lit, copies>>
      BY <1>4, <2>2 DEF Selc, Copy
    <2> QED BY <1>1, <2>1, <2>2
  <1> HIDE DEF n
  <1>6. Stack' = [Stack EXCEPT ![Len(Stack)].on = n]
    BY <1>1, <1>2, <1>4, <1>5, StackMove
  <1>7. M!Handled("w")
    BY <1>1, SelectorHandled DEF ForLoop
  <1> QED BY <1>3, <1>6, <1>7 DEF M!Up, M!Select, n

LEMMA DownAgrees == ASSUME GuiInv, Down PROVE M!Down
  <1> DEFINE k == Len(Options(Selc.con))
  <1>1. /\ pc = "handle" /\ key = "s" /\ cur \in DOMAIN copies /\ pc' = "top"
        /\ UNCHANGED <<con, menu, key>>
        /\ \/ Selc.on + 1 < k /\ MoveTo(Selc.on + 1)
           \/ Selc.on + 1 >= k /\ UNCHANGED <<lit, copies>>
    BY DEF Down, Handling
  <1>2. cur = Back(menu) /\ GuiInv'
    BY <1>1, DownInv DEF GuiInv, CurrentValid
  <1>3. M!Top = Selc
    BY <1>1, <1>2, TopIs DEF Selc
  <1>4. Selc.con \in Containers /\ Selc.on \in Nat /\ Selc \in Copy /\ k \in Nat
    BY <1>1, SelcFacts DEF GuiInv, TypeOK, Selc
  <1>5. Len(Targets[Selc.con]) = k
    BY <1>4, TargetsFacts
  <1> DEFINE n == IF Selc.on + 1 < k THEN Selc.on + 1 ELSE Selc.on
  <1> HIDE DEF k
  <1>6. n \in Nat
    BY <1>4
  <1>7. /\ copies'[cur] = [con |-> Selc.con, on |-> n]
        /\ \A b \in DOMAIN copies : b # cur => copies'[b] = copies[b]
    <2>1. CASE Selc.on + 1 < k /\ MoveTo(Selc.on + 1)
      <3>1. copies' = [copies EXCEPT ![cur].on = n]
        BY <2>1 DEF MoveTo
      <3> HIDE DEF n
      <3> QED BY <1>1, <1>4, <3>1 DEF Selc, Copy
    <2>2. CASE Selc.on + 1 >= k /\ UNCHANGED <<lit, copies>>
      <3>1. n = Selc.on
        BY <1>4, <2>2
      <3> HIDE DEF n
      <3> QED BY <1>4, <2>2, <3>1 DEF Selc, Copy
    <2> QED BY <1>1, <2>1, <2>2
  <1> HIDE DEF n
  <1>8. Stack' = [Stack EXCEPT ![Len(Stack)].on = n]
    BY <1>1, <1>2, <1>6, <1>7, StackMove
  <1>9. M!Handled("s")
    BY <1>1, SelectorHandled DEF ForLoop
  <1> QED BY <1>3, <1>5, <1>8, <1>9 DEF M!Down, M!Select, n

LEMMA SelectAgrees == ASSUME GuiInv, Select PROVE M!Enter
  <1> DEFINE k == Len(Options(Selc.con))
             t == Options(Selc.con)[Selc.on + 1].target
  <1>1. /\ pc = "handle" /\ key = "e" /\ cur \in DOMAIN copies /\ Selc.on < k /\ con' = con
        /\ pc' = "top" /\ key' = key
        /\ \/ t # NoTarget /\ SetCurrent(t)
           \/ t = NoTarget /\ UNCHANGED <<menu, copies>>
    BY DEF Select, Handling
  <1>2. cur = Back(menu) /\ GuiInv' /\ DOMAIN copies # 1..MaxDepth
    BY <1>1, SelectInv DEF GuiInv, CurrentValid, KeyOK
  <1>3. M!Top = Selc
    BY <1>1, <1>2, TopIs DEF Selc
  <1>4. Selc.con \in Containers /\ Selc.on \in Nat /\ k \in Nat
    BY <1>1, SelcFacts
  <1>5. Selc.on + 1 \in 1..k
    BY <1>1, <1>4
  <1>6. Len(Targets[Selc.con]) = k /\ Targets[Selc.con][Selc.on + 1] = t
    BY <1>4, <1>5, TargetsFacts
  <1>7. t \in Containers \cup {NoTarget}
    <2>1. Options(Selc.con) \in Seq(Option)
      BY <1>4 DEF GuiInv, TypeOK, Options, Container
    <2>2. Options(Selc.con)[Selc.on + 1] \in Option
      BY <1>5, <2>1, ElementOfSeq
    <2> QED BY <2>2 DEF Option
  <1> HIDE DEF k, t
  <1>8. Stack' = IF t = NoTarget THEN Stack ELSE Append(Stack, [con |-> t, on |-> 0])
    <2>1. CASE t # NoTarget /\ SetCurrent(t)
      BY <1>2, <1>7, <2>1, StackPush
    <2>2. CASE t = NoTarget /\ UNCHANGED <<menu, copies>>
      BY <2>2 DEF Stack
    <2> QED BY <1>1, <2>1, <2>2
  <1>9. M!Handled("e")
    BY <1>1, SelectorHandled DEF ForLoop
  <1> QED BY <1>1, <1>3, <1>6, <1>8, <1>9 DEF M!Enter

LEMMA ReturnAgrees == ASSUME GuiInv, Return PROVE M!Return
  <1>1. pc = "top" /\ key = "r" /\ MenuReturn /\ con' = con /\ pc' \in {"wait", "fault", "exited"}
    BY DEF Return, Render
  <1>2. Stack' = IF Len(Stack) = 1 THEN Stack ELSE Front(Stack)
    BY <1>1, ReturnInv, StackPop
  <1>3. Waiting = "r" /\ Waiting' = "none"
    BY <1>1 DEF Waiting, ForLoop
  <1>4. M!Handled("r")
    BY <1>1, <1>3, HandledAgrees
  <1> QED BY <1>2, <1>4 DEF M!Return, M!Front, Front

-----------------------------------------------------------------------------
(* The other steps                                                         *)

(* A step that leaves the containers and the menu alone, and the key that  *)
(* waits, is not seen.                                                     *)
LEMMA Unseen ==
  ASSUME UNCHANGED <<con, menu, copies>>, Waiting' = Waiting
  PROVE  UNCHANGED M!vars
  BY DEF Stack, Targets, Options, M!vars

LEMMA PressAgrees == ASSUME GuiInv, NEW k \in Keys, Press(k) PROVE M!Press(k)
  <1>1. pc = "wait" /\ key' = k /\ pc' = "handle" /\ UNCHANGED <<con, menu, copies>>
    BY DEF Press, heapVars
  <1>2. Waiting = "none" /\ Waiting' = k
    BY <1>1 DEF Waiting
  <1>3. Stack # <<>>
    BY <1>1, TopIs
  <1>4. UNCHANGED <<Stack, Targets>>
    BY <1>1 DEF Stack, Targets, Options
  <1> QED BY <1>2, <1>3, <1>4 DEF M!Press

LEMMA StayAgrees == ASSUME GuiInv, Stay PROVE UNCHANGED M!vars
  <1>1. /\ pc = "top" /\ key \notin ForLoop /\ UNCHANGED <<con, menu, copies, key>>
        /\ pc' \in {"wait", "fault", "exited"}
    BY DEF Stay, Render, heapVars, ForLoop
  <1>2. Waiting' = Waiting
    BY <1>1 DEF Waiting
  <1> QED BY <1>1, <1>2, Unseen

LEMMA QuitAgrees == ASSUME GuiInv, Quit PROVE M!Drop
  <1>1. pc = "top" /\ key = "q" /\ pc' = "stopped" /\ UNCHANGED <<con, menu, copies>>
    BY DEF Quit, heapVars
  <1>2. Waiting = "q" /\ Waiting' = "none"
    BY <1>1 DEF Waiting, ForLoop
  <1>3. M!Handled("q") /\ "q" \in Keys
    BY <1>1, <1>2, HandledAgrees
  <1>4. Stack' = Stack
    BY <1>1 DEF Stack
  <1> QED BY <1>2, <1>3, <1>4 DEF M!Drop

LEMMA NoOptionAgrees == ASSUME GuiInv, NoOption PROVE M!Drop
  <1>1. /\ pc = "handle" /\ key \in {"s", "e"} /\ cur \in DOMAIN copies
        /\ Options(Selc.con) = <<>> /\ pc' = "exited" /\ UNCHANGED <<con, menu, copies, key>>
    BY DEF NoOption, Handling, heapVars
  <1>2. Waiting = key /\ key \in Keys /\ M!Handled(key)
    BY <1>1, SelectorHandled DEF ForLoop
  <1>3. M!Top = Selc
    BY <1>1, TopIs DEF GuiInv, CurrentValid, Selc
  <1>4. Selc.con \in Containers
    BY <1>1, SelcFacts
  <1>5. Targets[Selc.con] = <<>>
    <2>1. TargetsOf(<<>>) = <<>>
      BY DEF TargetsOf
    <2> QED BY <1>1, <1>4, <2>1, TargetsAre DEF Options
  <1>6. Stack' = Stack
    BY <1>1 DEF Stack
  <1>7. key \in Keys \ {"w", "r"}
    BY <1>1, <1>2
  <1> QED BY <1>2, <1>3, <1>5, <1>6, <1>7 DEF M!Drop

LEMMA IgnoreAgrees ==
  ASSUME GuiInv, Ignore
  PROVE  IF key \in ForLoop THEN UNCHANGED M!vars ELSE M!Drop
  <1>1. /\ pc = "handle" /\ key \notin {"w", "s", "e"} /\ pc' = "top"
        /\ UNCHANGED <<con, menu, copies, key>>
    BY DEF Ignore, heapVars
  <1>2. CASE key \in ForLoop
    <2>1. Waiting' = Waiting
      BY <1>1, <1>2 DEF Waiting
    <2>2. UNCHANGED M!vars
      BY <1>1, <2>1, Unseen
    <2> QED BY <1>2, <2>2
  <1>3. CASE key \notin ForLoop
    <2>1. Waiting = key /\ key \in Keys /\ M!Handled(key)
      BY <1>1, <1>3, SelectorHandled
    <2>2. key \in Keys \ {"w", "r"} /\ key \notin {"s", "e"}
      BY <1>1, <1>3, <2>1 DEF ForLoop
    <2>3. Stack' = Stack
      BY <1>1 DEF Stack
    <2>4. M!Drop
      BY <2>1, <2>2, <2>3 DEF M!Drop
    <2> QED BY <1>3, <2>4
  <1> QED BY <1>2, <1>3

(* A component that is no option is not seen.                              *)
LEMMA OtherAgrees ==
  ASSUME GuiInv, NEW c \in Containers, Build(c), Head(todo[c]).kind # "option"
  PROVE  UNCHANGED M!vars
  <1> DEFINE comp == Head(todo[c])
  <1>1. /\ todo[c] # <<>> /\ con' = [con EXCEPT ![c] = Add(con[c], comp)]
        /\ UNCHANGED <<menu, copies, key, pc>>
    BY DEF Build
  <1>2. comp \in Component
    BY <1>1, HeadTailProperties DEF GuiInv, TypeOK
  <1>3. con[c] \in Container /\ Numbered(con[c]) /\ con \in [Containers -> Container]
    BY DEF GuiInv, TypeOK, LinesOK
  <1>4. Add(con[c], comp).options = con[c].options
    BY <1>2, <1>3, AddFacts
  <1>5. \A d \in Containers : con'[d].options = con[d].options
    BY <1>1, <1>3, <1>4
  <1>6. Targets' = Targets
    BY <1>5, TargetsAre, TargetsPrimed
  <1>7. Stack' = Stack /\ Waiting' = Waiting
    BY <1>1 DEF Stack, Waiting
  <1> QED BY <1>6, <1>7 DEF M!vars

LEMMA BuildAgrees ==
  ASSUME GuiInv, NEW c \in Containers, Build(c)
  PROVE  /\ IF Head(todo[c]).kind = "option"
            THEN M!AddOption(c, Head(todo[c]).target) ELSE UNCHANGED M!vars
         /\ [M!Next]_M!vars
  <1> DEFINE comp == Head(todo[c])
  <1>1. comp \in Component
    BY HeadTailProperties DEF GuiInv, TypeOK, Build
  <1>2. CASE comp.kind = "option"
    <2>1. comp.target \in Containers \cup {NoTarget}
      BY <1>1, <1>2, ComponentKinds
    <2>2. M!AddOption(c, comp.target)
      BY <1>2, AddOptionAgrees
    <2> HIDE DEF comp
    <2>3. M!Next
      BY <2>1, <2>2 DEF M!Next
    <2> QED BY <1>2, <2>2, <2>3 DEF comp
  <1>3. CASE comp.kind # "option"
    <2>1. UNCHANGED M!vars
      BY <1>3, OtherAgrees
    <2> QED BY <1>3, <2>1
  <1> QED BY <1>2, <1>3

(* Each step is the one of the stack that OperationsAgree says.            *)
LEMMA AllAgree == ASSUME GuiInv PROVE OperationsAgree
  BY BuildAgrees, OpenAgrees, PressAgrees, UpAgrees, DownAgrees, SelectAgrees, ReturnAgrees,
     NoOptionAgrees, QuitAgrees, IgnoreAgrees, StayAgrees, Zenon DEF OperationsAgree

LEMMA StepAgrees ==
  ASSUME GuiInv, [Next]_vars
  PROVE  [M!Next]_M!vars
  <1>1. ASSUME NEW c \in Containers, Build(c) PROVE [M!Next]_M!vars
    BY <1>1, BuildAgrees
  <1>2. CASE Open
    <2>1. M!Open(Main) /\ Main \in Containers
      BY <1>2, OpenAgrees, GuiAssumption
    <2> QED BY <2>1 DEF M!Next
  <1>3. ASSUME NEW k \in Keys, Press(k) PROVE M!Next
    <2>1. M!Press(k)
      BY <1>3, PressAgrees
    <2> QED BY <2>1 DEF M!Next
  <1>4. CASE Up \/ Down \/ Select \/ Return
    <2>1. M!Up \/ M!Down \/ M!Enter \/ M!Return
      BY <1>4, UpAgrees, DownAgrees, SelectAgrees, ReturnAgrees
    <2> QED BY <2>1 DEF M!Next
  <1>5. CASE Quit \/ NoOption \/ Ignore
    <2>1. M!Drop \/ UNCHANGED M!vars
      BY <1>5, QuitAgrees, NoOptionAgrees, IgnoreAgrees
    <2> QED BY <2>1 DEF M!Next
  <1>6. CASE Stay
    BY <1>6, StayAgrees
  <1>7. CASE Halted \/ UNCHANGED vars
    <2>1. UNCHANGED <<con, menu, copies, key, pc>>
      BY <1>7 DEF Halted, vars
    <2>2. Waiting' = Waiting
      BY <2>1 DEF Waiting
    <2> QED BY <2>1, <2>2, Unseen
  <1> QED BY <1>1, <1>2, <1>3, <1>4, <1>5, <1>6, <1>7 DEF Next, LoopStep

LEMMA InitAgrees == ASSUME Init PROVE M!Init
  <1>1. GuiInv /\ menu.size = 0
    BY InitInv DEF Init, Made
  <1>2. Stack = <<>>
    BY <1>1, StackFacts
  <1>3. Targets = [c \in Containers |-> <<>>]
    <2>1. \A c \in Containers : TargetsOf(con[c].options) = <<>>
      <3>1. TargetsOf(<<>>) = <<>>
        BY DEF TargetsOf
      <3> QED BY <3>1 DEF Init, ContainerMade
    <2> QED BY <2>1, TargetsAre
  <1>4. Waiting = "none"
    BY DEF Init, Waiting
  <1> QED BY <1>2, <1>3, <1>4 DEF M!Init

-----------------------------------------------------------------------------
(* Theorems                                                                *)

(* The variables keep their types: an option that is lit is an option of   *)
(* its container, and the pointer to the current container is a block.     *)
THEOREM TypeCorrect == Spec => []TypeOK
  BY InvHolds, PTL DEF GuiInv

(* From the moment gui_loop looks current_con up until the key is handled, *)
(* it is the container on top of the menu, and its block is not freed.     *)
THEOREM CurrentIsValid == Spec => []CurrentValid
  BY InvHolds, PTL DEF GuiInv

(* The program ends by itself only because of a container without options, *)
(* with too many components or with a label wider than the screen.         *)
THEOREM EndsForAReason == Spec => []EndsOnlyOnBadContainer
  BY InvHolds, PTL DEF GuiInv

(* While the program waits for a key, no change is missing on the screen.  *)
THEOREM ScreenIsCurrent == Spec => []ScreenCurrent
  <1>1. GuiInv => ScreenCurrent
    BY DEF GuiInv, ShownOK, UpToDate, ScreenCurrent, TopCon
  <1> QED BY <1>1, InvHolds, PTL

(* In a container that fits on the screen, every label can be read.        *)
THEOREM LabelsAreReadable == Spec => []LabelsReadable
  <1>1. GuiInv => LabelsReadable
    BY Readable DEF GuiInv
  <1> QED BY <1>1, InvHolds, PTL

(* In a container that fits and has been entered once, what is lit is what *)
(* the select key takes.                                                   *)
THEOREM LitIsSelected == Spec => []WhatIsLitIsSelected
  <1>1. GuiInv => WhatIsLitIsSelected
    BY LitShown DEF GuiInv
  <1> QED BY <1>1, InvHolds, PTL

(* The menu, its copies and its selectors implement the stack of Menu, key *)
(* by key: each key that is pressed is handled once, and does what the     *)
(* operation does that it stands for.                                      *)
THEOREM MenuImplemented == Spec => ImplementsMenu
  <1>1. Spec => M!Init
    BY InitAgrees DEF Spec
  <1>2. ASSUME GuiInv, [Next]_vars
        PROVE  [[M!Next]_M!vars /\ OperationsAgree]_vars
    BY <1>2, StepAgrees, AllAgree
  <1> QED BY <1>1, <1>2, InvHolds, PTL DEF Spec, ImplementsMenu
=============================================================================
