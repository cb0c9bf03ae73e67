-------------------------------- MODULE Ink --------------------------------
(***************************************************************************)
(* What a GLE script draws, said without a device: every drawing command   *)
(* paints at once, with the attributes its place in the script gives it.   *)
(* A block or a GSAVE gives back at its end what it found; a path is       *)
(* painted at its END; a box is painted around what was drawn in it, and   *)
(* under it when it is filled.                                             *)
(*                                                                         *)
(* The plane is reduced to a line.  User coordinates are counted in        *)
(* quarters, so that a matrix that halves maps them to integers.           *)
(***************************************************************************)
EXTENDS Integers, Sequences, SequencesExt, FiniteSetsExt

Unit == 4
Clear == "clear"

\* What g_clear and g_on_open set.
Fresh == [color |-> "black", width |-> 1, cap |-> "butt", fill |-> Clear, cur |-> 0,
          image |-> [scale |-> 4, shift |-> 0]]

\* g_dev and g_undev
ToDev(m, x) == m.shift + (m.scale * x) \div Unit
ToUser(m, d) == ((d - m.shift) * Unit) \div m.scale

\* g_translate, and g_scale by a half about the current point
Translated(m, x) == [m EXCEPT !.shift = @ + (m.scale * x) \div Unit]
Halved(m) == [scale |-> m.scale \div 2, shift |-> m.shift \div 2]
HalvedAbout(m, cur) ==
  LET c == ToDev(m, cur)
  IN [Halved([m EXCEPT !.shift = @ - c]) EXCEPT !.shift = @ + c]

\* Shapes are in coordinates of the device.
Line(d1, d2) == [is |-> "line", from |-> d1, to |-> d2]
Circle(m, x) == [is |-> "circle", from |-> ToDev(m, x - Unit), to |-> ToDev(m, x + Unit)]
Rectangle(d1, d2) == [is |-> "box", from |-> d1, to |-> d2]

Stroked(shape, color, width, m, cap) ==
  [shapes |-> <<shape>>, color |-> color, width |-> width * m.scale, cap |-> cap]
Filled(shapes, color) ==
  IF color = Clear \/ shapes = <<>> THEN <<>>
  ELSE <<[shapes |-> shapes, color |-> color, width |-> 0, cap |-> "fill"]>>

\* Attributes a command of SET changes, with the value it gives them.
Settings == [red |-> <<"color", "red">>, wide |-> <<"width", 2>>, round |-> <<"cap", "round">>,
             yellow |-> <<"fill", "yellow">>]

Saving == {"gsave", "scale", "translate"}
Blocks == {"scale", "translate", "clip", "box", "filled box", "stroked path", "filled path"}
Paths == {"stroked path", "filled path"}
-----------------------------------------------------------------------------
(* The meaning of a script, command by command: the attributes, the ink and *)
(* the contour of the path so far, and what is open.                        *)
Blank == [now |-> Fresh, ink |-> <<>>, contour |-> <<>>, open |-> <<>>]

InPath(r) == \E i \in DOMAIN r.open : r.open[i].type \in Paths
With(a, shapes) == [i \in DOMAIN shapes |-> Stroked(shapes[i], a.color, a.width, a.image, a.cap)]

Add(r, shape, filled) ==
  IF InPath(r) THEN [r EXCEPT !.contour = @ \o (IF filled THEN <<shape, shape>> ELSE <<shape>>)]
  ELSE [r EXCEPT !.ink = @ \o (IF filled THEN Filled(<<shape>>, r.now.fill) ELSE <<>>)
                           \o With(r.now, <<shape>>)]

AddLine(r) ==
  LET to == r.now.cur + Unit
  IN [Add(r, Line(ToDev(r.now.image, r.now.cur), ToDev(r.now.image, to)), FALSE) EXCEPT !.now.cur = to]
AddCircle(r) == Add(r, Circle(r.now.image, r.now.cur), r.now.fill # Clear)

Open(r, type) ==
  LET opened == [r EXCEPT !.open = Append(@, [type |-> type, was |-> r.now, inked |-> Len(r.ink)])]
  IN CASE type = "scale" -> [opened EXCEPT !.now.image = HalvedAbout(@, r.now.cur)]
       [] type = "translate" -> [opened EXCEPT !.now.image = Translated(@, Unit)]
       [] type \in Paths -> [opened EXCEPT !.contour = <<>>]
       [] OTHER -> opened

Extent(ink) ==
  LET shapes == UNION {ToSet(ink[i].shapes) : i \in DOMAIN ink}
  IN Rectangle(Min({s.from : s \in shapes}), Max({s.to : s \in shapes}))

Close(r) ==
  LET top == Last(r.open)
      closed == [r EXCEPT !.open = Front(@)]
      before == SubSeq(r.ink, 1, top.inked)
      content == SubSeq(r.ink, top.inked + 1, Len(r.ink))
      border == Extent(content)
  IN CASE top.type \in Saving -> [closed EXCEPT !.now = top.was]
       [] top.type \in Paths ->
            [closed EXCEPT
               !.ink = @ \o Filled(r.contour, IF top.type = "filled path" THEN "yellow" ELSE top.was.fill)
                         \o (IF top.type = "stroked path" THEN With(r.now, r.contour) ELSE <<>>),
               !.now.cur = top.was.cur, !.now.fill = top.was.fill]
       [] top.type = "box" -> [closed EXCEPT !.ink = @ \o With(r.now, <<border>>)]
       [] top.type = "filled box" ->
            [closed EXCEPT !.ink = before \o Filled(<<border>>, "yellow") \o With(top.was, <<border>>) \o content]
       [] OTHER -> closed

Obey(r, command) ==
  CASE command \in DOMAIN Settings -> [r EXCEPT !.now[Settings[command][1]] = Settings[command][2]]
    [] command = "line" -> AddLine(r)
    [] command = "circle" -> AddCircle(r)
    [] command = "move" -> [r EXCEPT !.now.cur = @ + Unit]
    [] command = "shift" -> [r EXCEPT !.now.image = Translated(@, Unit)]
    [] command = "halve" -> [r EXCEPT !.now.image = HalvedAbout(@, r.now.cur)]
    [] command \in Blocks \cup {"gsave"} -> Open(r, command)
    [] command = "grestore" -> IF r.open # <<>> /\ Last(r.open).type = "gsave" THEN Close(r) ELSE r
    [] command = "end" -> Close(r)

Meaning(script) == FoldLeft(Obey, Blank, script).ink
=============================================================================
