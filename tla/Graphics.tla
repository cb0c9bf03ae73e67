------------------------------ MODULE Graphics ------------------------------
(***************************************************************************)
(* The graphics state of GLE (core.cpp) between the commands of a script   *)
(* (run.cpp) and the PostScript device (d_ps.cpp).  A line is not painted  *)
(* when it is drawn but when something flushes it, with the attributes the *)
(* device has by then; the device keeps attributes of its own, which GLE   *)
(* sends it when they change and again when a saved state comes back; what *)
(* a box encloses is measured while its content is drawn, and the content  *)
(* of a filled box is executed twice, first for a device that draws        *)
(* nothing.  Ink says what must come of all this.                          *)
(*                                                                         *)
(* A script is chosen as it is executed: a command is added when execution *)
(* reaches the end, and met again in the second pass of a filled box.      *)
(***************************************************************************)
EXTENDS Ink

CONSTANTS Families,  \* sets of commands; a script takes its commands from one of them
          MaxLen,    \* the number of commands of a script
          Lapses     \* what a script may do although the code does not cope with it

ASSUME LapsesAssumption ==
  Lapses \subseteq {"cap", "gsave", "shift", "clip", "point", "replay", "cross"}

VARIABLES
  commands,  \* the family of the script
  code,      \* its commands so far
  pc,        \* the next one
  blocks,    \* the open blocks: type, and ngsave after their BEGIN
  g,         \* the gmodel: attributes, xinline, inpath, image, bounds
  gsave,     \* the stack of gmodels, ngsave its length
  boxes,     \* GLEBoxStack
  path,      \* what END PATH needs: path_x, path_fill, path_stroke, path_fill_backup
  dev,       \* PostScript's state: attributes, matrix, path, current point
  saved,     \* PostScript's own stack of states
  real,      \* FALSE: g.dev is a GLEDummyDevice
  painted    \* what PostScript has painted
vars == <<commands, code, pc, blocks, g, gsave, boxes, path, dev, saved, real, painted>>

NoPath == [at |-> 0, fill |-> Clear, stroke |-> FALSE, backup |-> Clear]

Over(f, h) == [x \in DOMAIN f \cup DOMAIN h |-> IF x \in DOMAIN f THEN f[x] ELSE h[x]]

Init ==
  /\ commands \in Families
  /\ code = <<>> /\ pc = 1 /\ blocks = <<>>
  /\ g = Over(Fresh, [xinline |-> FALSE, inpath |-> FALSE, bounds |-> <<>>])
  /\ gsave = <<>> /\ boxes = <<>> /\ path = NoPath
  /\ dev = Over(Fresh, [contour |-> <<>>])
  /\ saved = <<>> /\ real = TRUE /\ painted = <<>>
-----------------------------------------------------------------------------
(* The calls a command makes follow each other on the gmodel, the device and *)
(* the output: they are functions of a record of these.                      *)
Now == [g |-> g, dev |-> dev, real |-> real, painted |-> painted]
Becomes(s) == g' = s.g /\ dev' = s.dev /\ real' = s.real /\ painted' = s.painted

Paint(s, ink) == [s EXCEPT !.painted = @ \o ink]
Strokes(d) ==
  [i \in DOMAIN d.contour |-> Stroked(d.contour[i], d.color, d.width, d.image, d.cap)]

\* g_flush and PSGLEDevice::flush: a line that has been begun is stroked.
Flush(s) ==
  IF s.g.inpath THEN s
  ELSE IF s.real /\ s.g.xinline
  THEN [Paint(s, Strokes(s.dev)) EXCEPT !.dev.contour = <<>>, !.g.xinline = FALSE]
  ELSE [s EXCEPT !.g.xinline = FALSE]

\* set_color, set_line_width and set_line_cap of the device; the dummy has none.
Send(s, attribute, value) == IF s.real THEN [Flush(s) EXCEPT !.dev[attribute] = value] ELSE s
\* set_fill of the device, which only remembers the colour
SendFill(s, fill) == IF s.real THEN [s EXCEPT !.dev.fill = fill] ELSE s

Set(s, attribute, value) == [Send(s, attribute, value) EXCEPT !.g[attribute] = value]
SetFill(s, fill) == SendFill([s EXCEPT !.g.fill = fill], fill)

\* g_update_bounds
Grown(bounds, xs) == LET all == ToSet(bounds) \cup xs IN <<Min(all), Max(all)>>
Bound(s, xs) == [s EXCEPT !.g.bounds = Grown(@, xs)]

\* PSGLEDevice::move: "m" is "newpath moveto", in a path it is "moveto".
DevMove(s, x) ==
  IF ~s.real THEN s
  ELSE [s EXCEPT !.dev.cur = ToDev(s.dev.image, x),
                 !.dev.contour = IF s.g.inpath THEN @ ELSE <<>>]

Move(s, x) ==
  [DevMove(IF s.g.xinline THEN Flush(s) ELSE s, x) EXCEPT !.g.cur = x]

\* g_line: a line that has not been begun starts at the current point of GLE, one
\* that has goes on from the current point of PostScript.
LineTo(s, x) ==
  LET start == IF s.g.xinline THEN s ELSE Bound(DevMove(s, s.g.cur), {s.g.cur})
      to == ToDev(s.dev.image, x)
      drawn == IF ~s.real THEN start
               ELSE [start EXCEPT !.dev.contour = Append(@, Line(start.dev.cur, to)), !.dev.cur = to]
  IN Bound([drawn EXCEPT !.g.xinline = TRUE, !.g.cur = x], {x})

\* circle_fill and box_fill, circle_stroke and box_stroke of the device: in a path
\* they add to it, else they begin with "newpath" and leave none.
DevFill(s, shape) ==
  IF ~s.real THEN s
  ELSE IF s.g.inpath THEN [s EXCEPT !.dev.contour = Append(@, shape)]
  ELSE [Paint(Flush(s), Filled(<<shape>>, s.dev.fill)) EXCEPT !.dev.contour = <<>>]
DevStroke(s, shape) ==
  IF ~s.real THEN s
  ELSE IF s.g.inpath THEN [s EXCEPT !.dev.contour = Append(@, shape)]
  ELSE LET f == Flush(s)
       IN [Paint(f, Strokes([f.dev EXCEPT !.contour = <<shape>>])) EXCEPT !.dev.contour = <<>>]

\* CIRCLE, of radius 1
DrawCircle(s) ==
  LET here == Move(s, s.g.cur)
      shape == Circle(s.dev.image, s.g.cur)
      filled == IF s.g.fill = Clear THEN here ELSE DevFill(here, shape)
  IN Move(Bound(DevStroke(filled, shape), {s.g.cur - Unit, s.g.cur + Unit}), s.g.cur)

\* g_box_fill and g_box_stroke
DrawBox(s, bounds, fill) ==
  LET shape == Rectangle(ToDev(s.dev.image, bounds[1]), ToDev(s.dev.image, bounds[2]))
      drawn == IF fill THEN DevFill(s, shape) ELSE DevStroke(s, shape)
  IN Move(Bound(drawn, ToSet(bounds)), s.g.cur)
-----------------------------------------------------------------------------
\* The corners of a box, in the coordinates of another matrix
Undone(bounds, from, to) == {ToUser(to, ToDev(from, bounds[i])) : i \in DOMAIN bounds}

\* g_set_matrix(newmat): the bounds are kept, and their corners added in the new
\* coordinates.
SetMatrix(s, m) ==
  IF m = s.g.image THEN s
  ELSE LET set == [s EXCEPT !.g.image = m, !.dev.image = IF s.real THEN m ELSE @]
       IN IF s.g.bounds = <<>> THEN set ELSE Bound(set, Undone(s.g.bounds, s.g.image, m))

\* g_translate, by 1
Translate(s) == SetMatrix(s, Translated(s.g.image, Unit))

\* g_scale: to the current point, scale, and back
Scale(s) ==
  LET c == ToDev(s.g.image, s.g.cur)
      there == SetMatrix(s, [s.g.image EXCEPT !.shift = @ - c])
      scaled == SetMatrix(there, Halved(there.g.image))
  IN SetMatrix(scaled, [scaled.g.image EXCEPT !.shift = @ + c])

\* Mutant: the bounds of the inner state are taken over as numbers.
SetStateSameBounds(s, old) ==
  LET back == [s EXCEPT !.g = [old EXCEPT !.bounds = IF s.g.bounds = <<>> THEN @ ELSE Grown(@, ToSet(s.g.bounds))],
                        !.dev.image = IF s.real THEN old.image ELSE @]
  IN Send(Send(SendFill(back, old.fill), "color", old.color), "width", old.width)

\* Mutant: the device keeps the width of the inner state.
SetStateButWidth(s, old) ==
  LET bounds == IF s.g.bounds = <<>> THEN old.bounds
                ELSE Grown(old.bounds, Undone(s.g.bounds, s.g.image, old.image))
      back == [s EXCEPT !.g = [old EXCEPT !.bounds = bounds], !.dev.image = IF s.real THEN old.image ELSE @]
  IN Send(SendFill(back, old.fill), "color", old.color)

\* g_set_state: the cap is not sent, and the matrix only when GLE's own differs.
SetState(s, old) ==
  LET bounds == IF s.g.bounds = <<>> THEN old.bounds
                ELSE Grown(old.bounds, Undone(s.g.bounds, s.g.image, old.image))
      back == [s EXCEPT !.g = [old EXCEPT !.bounds = bounds],
                        !.dev.image = IF s.real /\ old.image # s.g.image THEN old.image ELSE @]
  IN Send(SendFill(Send(back, "color", old.color), old.fill), "width", old.width)

\* g_gsave: the stack, and what GLE goes on with
Save(s) == gsave' = Append(gsave, s.g)
Saved(s) == [s EXCEPT !.g.bounds = <<>>]

\* Back in a path, a line goes on where PostScript is, not where GLE was.
AtOldPoint(s) ==
  LET old == Last(gsave)
  IN (real /\ old.inpath /\ old.xinline) => dev.cur = ToDev(old.image, old.cur)

\* g_grestore; at the top of the stack it only flushes.
Restore ==
  IF gsave = <<>> THEN Becomes(Flush(Now)) /\ gsave' = gsave
  ELSE /\ "point" \in Lapses \/ AtOldPoint(Now)
       /\ gsave' = Front(gsave)
       /\ Becomes(SetState(Flush(Now), Last(gsave)))
-----------------------------------------------------------------------------
\* The next command, and what GLE goes on to after it
Meets(command, room) ==
  /\ IF pc <= Len(code) THEN code[pc] = command /\ code' = code
     ELSE /\ command \in commands
          /\ Len(code) + Len(blocks) + room <= MaxLen
          /\ code' = Append(code, command)
  /\ commands' = commands
Obeys(command) == Meets(command, 1)
Goes == pc' = pc + 1

\* An END takes a place that was kept for it.
Ends(type) ==
  /\ blocks # <<>> /\ Last(blocks).type = type
  /\ IF pc <= Len(code) THEN code[pc] = "end" /\ code' = code ELSE code' = Append(code, "end")
  /\ "cross" \in Lapses
     \/ Len(gsave) = Last(blocks).depth
  /\ commands' = commands

\* BEGIN flushes, whatever block it begins.
Begins(type, depth) ==
  /\ Meets(type, 2)
  /\ type \in Paths \cup {"box", "filled box"} => ~g.inpath
  /\ blocks' = Append(blocks, [type |-> type, depth |-> depth])
  /\ Goes

\* A line has been begun.
Pending == g.xinline

SetAttribute ==
  \E command \in DOMAIN Settings :
    /\ Obeys(command) /\ Goes
    /\ command = "round" => "cap" \in Lapses \/ (gsave = <<>> /\ saved = <<>>)
    /\ LET attribute == Settings[command][1]
           value == Settings[command][2]
       IN Becomes(IF attribute = "fill" THEN SetFill(Now, value) ELSE Set(Now, attribute, value))
    /\ UNCHANGED <<blocks, gsave, boxes, path, saved>>

\* RMOVE 1, RLINE 1, CIRCLE 1
Draw ==
  /\ \/ Obeys("move") /\ Becomes(Move(Now, g.cur + Unit))
     \/ Obeys("line") /\ Becomes(LineTo(Now, g.cur + Unit))
     \/ Obeys("circle") /\ Becomes(DrawCircle(Now))
  /\ Goes
  /\ UNCHANGED <<blocks, gsave, boxes, path, saved>>

\* TRANSLATE and SCALE that are not blocks
Transform ==
  /\ "shift" \in Lapses \/ (~Pending /\ boxes = <<>>)
  /\ \/ Obeys("shift") /\ Becomes(Translate(Now))
     \/ Obeys("halve") /\ g.image.scale > 1 /\ Becomes(Scale(Now))
  /\ Goes
  /\ UNCHANGED <<blocks, gsave, boxes, path, saved>>

GSave ==
  /\ Obeys("gsave") /\ Goes
  /\ "gsave" \in Lapses \/ ~Pending \/ g.inpath
  /\ Save(Now)
  /\ Becomes(Saved(Now))
  /\ UNCHANGED <<blocks, boxes, path, saved>>

GRestore ==
  /\ Obeys("grestore") /\ Goes
  /\ "cross" \in Lapses \/ (blocks # <<>> => Len(gsave) > Last(blocks).depth)
  /\ Restore
  /\ UNCHANGED <<blocks, boxes, path, saved>>
-----------------------------------------------------------------------------
BeginTransform ==
  /\ \/ /\ Begins("translate", Len(gsave) + 1)
        /\ Becomes(Move(Translate(Saved(Flush(Now))), g.cur))
     \/ /\ Begins("scale", Len(gsave) + 1)
        /\ g.image.scale > 1
        /\ Becomes(Scale(Saved(Flush(Now))))
  /\ Save(Flush(Now))
  /\ UNCHANGED <<boxes, path, saved>>

EndTransform ==
  /\ Ends("translate") \/ Ends("scale")
  /\ Goes /\ blocks' = Front(blocks)
  /\ Restore
  /\ UNCHANGED <<boxes, path, saved>>

\* g_set_path(true) and g_newpath
BeginPath ==
  \E type \in Paths :
    /\ Begins(type, Len(gsave))
    /\ path' = [at |-> g.cur, stroke |-> type = "stroked path", backup |-> g.fill,
                fill |-> IF type = "filled path" THEN "yellow" ELSE g.fill]
    /\ LET s == Flush(Now)
       IN Becomes([s EXCEPT !.g.inpath = TRUE, !.g.xinline = FALSE,
                            !.dev.contour = IF real THEN <<>> ELSE @])
    /\ UNCHANGED <<gsave, boxes, saved>>

\* The path is filled and stroked within "gsave" and "grestore" of PostScript, which
\* leaves it there; set_path does nothing.
EndPath ==
  /\ Ends("stroked path") \/ Ends("filled path")
  /\ Goes /\ blocks' = Front(blocks)
  /\ LET filled == IF path.fill = Clear THEN Now
                   ELSE LET s == SetFill(Now, path.fill)
                        IN IF real THEN Paint(s, Filled(dev.contour, s.dev.fill)) ELSE s
         stroked == IF path.stroke /\ real THEN Paint(filled, Strokes(dev)) ELSE filled
         left == [Move(stroked, path.at) EXCEPT !.g.inpath = FALSE, !.g.xinline = FALSE]
     IN Becomes(SetFill(left, path.backup))
  /\ UNCHANGED <<gsave, boxes, path, saved>>

\* "gsave" and "grestore" of PostScript; then GLE sends its state again.
BeginClip ==
  /\ Begins("clip", Len(gsave))
  /\ Becomes(Flush(Now))
  /\ saved' = IF real THEN Append(saved, Flush(Now).dev) ELSE saved
  /\ UNCHANGED <<gsave, boxes, path>>

EndClip ==
  /\ Ends("clip") /\ Goes /\ blocks' = Front(blocks)
  /\ IF real
     THEN LET s == Flush(Now)
              old == [s EXCEPT !.dev = [Last(saved) EXCEPT !.fill = dev.fill]]
          IN /\ "clip" \in Lapses \/ Last(saved).image = g.image
             /\ Becomes(SetState(old, s.g))
             /\ saved' = Front(saved)
     ELSE Becomes(Now) /\ saved' = saved
  /\ UNCHANGED <<gsave, boxes, path>>
-----------------------------------------------------------------------------
\* BEGIN BOX and box_start.  A filled box is first drawn without a device.
BeginBox ==
  \E type \in {"box", "filled box"} :
    /\ Begins(type, Len(gsave))
    /\ LET s == Flush(Now)
           measure == type = "filled box" /\ real
       IN /\ boxes' = Append(boxes, [origin |-> g.cur, bounds |-> g.bounds, filled |-> type = "filled box",
                                     device |-> measure, second |-> FALSE, at |-> pc + 1, was |-> g])
          /\ Becomes([s EXCEPT !.g.bounds = <<>>, !.real = real /\ ~measure])
    /\ UNCHANGED <<gsave, path, saved>>

\* GLEBox::draw
DrawFrame(s, box) ==
  LET bounds == s.g.bounds
      filled == IF box.filled THEN DrawBox(SetFill(s, "yellow"), bounds, TRUE) ELSE s
      framed == DrawBox(filled, bounds, FALSE)
  IN Move(SetFill(framed, s.g.fill), s.g.cur)

\* The second pass begins with the attributes GLE has after the first, while the
\* device has those from before it.
SameAgain(box) ==
  /\ g.image = box.was.image /\ g.fill = box.was.fill
  /\ \/ g.color = box.was.color /\ g.width = box.was.width
     \/ \A i \in box.at .. pc - 1 : code[i] \notin Saving \cup {"clip"}

\* END BOX and box_end; an empty box is an error, which ends the script.
EndBox ==
  \E type \in {"box", "filled box"} :
    /\ Ends(type)
    /\ g.bounds # <<>>
    /\ LET box == Last(boxes)
           first == IF box.device THEN [Flush(Now) EXCEPT !.real = TRUE] ELSE Now
           framed == DrawFrame(first, box)
           merged == IF box.bounds = <<>> THEN framed ELSE Bound(framed, ToSet(box.bounds))
       IN IF box.second
          THEN /\ Goes /\ Becomes(Now)
               /\ boxes' = Front(boxes) /\ blocks' = Front(blocks)
          ELSE IF box.device
          THEN /\ "replay" \in Lapses \/ SameAgain(box)
               /\ pc' = box.at /\ blocks' = blocks
               /\ Becomes(Move(merged, box.origin))
               /\ boxes' = [boxes EXCEPT ![Len(boxes)].second = TRUE]
          ELSE /\ Goes /\ Becomes(merged)
               /\ boxes' = Front(boxes) /\ blocks' = Front(blocks)
    /\ UNCHANGED <<gsave, path, saved>>
-----------------------------------------------------------------------------
Next == \/ SetAttribute \/ Draw \/ Transform \/ GSave \/ GRestore
        \/ BeginTransform \/ EndTransform \/ BeginPath \/ EndPath
        \/ BeginClip \/ EndClip \/ BeginBox \/ EndBox
Spec == Init /\ [][Next]_vars
-----------------------------------------------------------------------------
\* No filled box is open, whose content is painted after what comes of it.
Settled == \A i \in DOMAIN boxes : ~boxes[i].device

\* What has been painted, together with the line that is still to be stroked, is
\* what the script says: each line with the attributes of its place, each box
\* around its content, in order, and nothing else (g_flush, g_set_state, box_end).
DrawnAsWritten ==
  Settled => painted \o (IF g.xinline /\ ~g.inpath THEN Strokes(dev) ELSE <<>>)
             = Meaning(SubSeq(code, 1, pc - 1))

\* The device has the attributes and the matrix GLE reckons with, although blocks,
\* clips and boxes without a device have come and gone (g_set_state, endclip,
\* g_restore_device).
DeviceAsBelieved ==
  Settled => /\ \A a \in {"color", "width", "cap", "fill"} : dev[a] = g[a]
             /\ dev.image = g.image
=============================================================================
