--------------------------- MODULE Graphics_proofs ---------------------------
(***************************************************************************)
(* Proofs about the graphics state and the device: for scripts of any       *)
(* length, of commands in any order, with blocks of any depth, the device   *)
(* has the attributes GLE reckons with whenever no filled box is open.      *)
(*                                                                          *)
(* The content of a filled box is executed twice.  After its first pass the *)
(* device has the attributes from before the box and GLE those from after   *)
(* it, and the second pass must bring them together: each attribute that    *)
(* differs is set by a command that is still to come before the box ends    *)
(* (ToCome).  So the invariant speaks of the commands of a script, of the   *)
(* places where its blocks began, and of what the first pass has set since  *)
(* (Changed).  The states are counted by blocks, not by induction: Level is *)
(* a difference of two cardinalities.                                       *)
(***************************************************************************)
EXTENDS Graphics, FiniteSetTheorems, TLAPS
-----------------------------------------------------------------------------
(* What the calls do to the attributes.                                     *)

Pen == {"color", "width", "cap"}
GFields == {"color", "width", "cap", "fill", "cur", "image", "xinline", "inpath", "bounds"}
DevFields == {"color", "width", "cap", "fill", "cur", "image", "contour"}
GModel(m) == m = [f \in GFields |-> m[f]]
Device(d) == d = [f \in DevFields |-> d[f]]
State(s) == /\ s = [g |-> s.g, dev |-> s.dev, real |-> s.real, painted |-> s.painted]
            /\ GModel(s.g) /\ Device(s.dev)

\* All attributes stay what they are.
Keeps(s, t) ==
  /\ State(t) /\ t.real = s.real
  /\ \A a \in Pen \cup {"fill", "image"} : t.g[a] = s.g[a] /\ t.dev[a] = s.dev[a]
\* Colour, width and cap stay; fill and matrix stay those of a real device.
Follows(s, t) ==
  /\ State(t) /\ t.real = s.real
  /\ \A a \in Pen : t.g[a] = s.g[a] /\ t.dev[a] = s.dev[a]
  /\ \A a \in {"fill", "image"} :
       IF s.real THEN s.dev[a] = s.g[a] => t.dev[a] = t.g[a] ELSE t.dev[a] = s.dev[a]

LEMMA KeepsFollows == ASSUME NEW s, NEW t, Keeps(s, t) PROVE Follows(s, t)
BY DEF Keeps, Follows
LEMMA KeepsAll == ASSUME NEW s, NEW t, NEW u, Keeps(s, t), Keeps(t, u) PROVE Keeps(s, u)
BY DEF Keeps
LEMMA FollowsAll == ASSUME NEW s, NEW t, NEW u, Follows(s, t), Follows(t, u) PROVE Follows(s, u)
BY DEF Follows

\* One field of GLE's state, or of PostScript's
LEMMA GPut ==
  ASSUME NEW s, State(s), NEW f \in GFields, NEW v
  PROVE  LET t == [s EXCEPT !.g[f] = v] IN
         /\ State(t) /\ t.real = s.real /\ t.dev = s.dev /\ t.painted = s.painted
         /\ \A h \in GFields : t.g[h] = IF h = f THEN v ELSE s.g[h]
<1> DEFINE t == [s EXCEPT !.g[f] = v]
           m == [s.g EXCEPT ![f] = v]
<1>1. t = [g |-> m, dev |-> s.dev, real |-> s.real, painted |-> s.painted]
  BY DEF State
<1>2. GModel(m) /\ \A h \in GFields : m[h] = IF h = f THEN v ELSE s.g[h]
  BY DEF State, GModel
<1> HIDE DEF t, m
<1> QED
  BY <1>1, <1>2 DEF State, t

LEMMA DevPut ==
  ASSUME NEW s, State(s), NEW f \in DevFields, NEW v
  PROVE  LET t == [s EXCEPT !.dev[f] = v] IN
         /\ State(t) /\ t.real = s.real /\ t.g = s.g /\ t.painted = s.painted
         /\ \A h \in DevFields : t.dev[h] = IF h = f THEN v ELSE s.dev[h]
<1> DEFINE t == [s EXCEPT !.dev[f] = v]
           d == [s.dev EXCEPT ![f] = v]
<1>1. t = [g |-> s.g, dev |-> d, real |-> s.real, painted |-> s.painted]
  BY DEF State
<1>2. Device(d) /\ \A h \in DevFields : d[h] = IF h = f THEN v ELSE s.dev[h]
  BY DEF State, Device
<1> HIDE DEF t, d
<1> QED
  BY <1>1, <1>2 DEF State, t

LEMMA Stays ==
  ASSUME NEW s, State(s), NEW v
  PROVE  /\ \A f \in GFields \ (Pen \cup {"fill", "image"}) : Keeps(s, [s EXCEPT !.g[f] = v])
         /\ \A f \in DevFields \ (Pen \cup {"fill", "image"}) : Keeps(s, [s EXCEPT !.dev[f] = v])
BY GPut, DevPut DEF Keeps, Pen, GFields, DevFields

LEMMA PaintIs == ASSUME NEW s, State(s), NEW ink PROVE Keeps(s, Paint(s, ink))
<1> DEFINE t == Paint(s, ink)
<1> DEFINE p == s.painted \o ink
<1>0. t = [s EXCEPT !.painted = p]
  BY DEF Paint, State
<1> HIDE DEF t, p
<1>1. t = [g |-> s.g, dev |-> s.dev, real |-> s.real, painted |-> p]
  BY <1>0 DEF State
<1>2. State(t) /\ t.g = s.g /\ t.dev = s.dev /\ t.real = s.real
  BY <1>1 DEF State
<1> QED
  BY <1>2 DEF t, Keeps

LEMMA FlushIs == ASSUME NEW s, State(s) PROVE Keeps(s, Flush(s)) /\ (s.g.inpath => Flush(s) = s)
<1>1. Keeps(s, s)
  BY DEF Keeps
<1>2. Keeps(s, [s EXCEPT !.g.xinline = FALSE])
  BY Stays DEF GFields, Pen
<1> DEFINE p == Paint(s, Strokes(s.dev))
<1>3. Keeps(s, p) /\ State(p)
  BY PaintIs DEF Keeps
<1> HIDE DEF p
<1> DEFINE c == [p EXCEPT !.dev.contour = <<>>]
           f == [c EXCEPT !.g.xinline = FALSE]
<1>4. Keeps(p, c)
  BY <1>3, Stays DEF DevFields, Pen
<1>5. [p EXCEPT !.dev.contour = <<>>, !.g.xinline = FALSE] = f
  OBVIOUS
<1> HIDE DEF c
<1>c. State(c)
  BY <1>4 DEF Keeps
<1>6. Keeps(c, f)
  BY <1>c, Stays DEF GFields, Pen
<1> HIDE DEF f
<1>7. Keeps(s, f)
  BY <1>3, <1>4, <1>6, KeepsAll
<1> QED
  BY <1>1, <1>2, <1>5, <1>7 DEF Flush, p

\* Only the attribute that is sent changes, and only on a real device.
LEMMA SendIs ==
  ASSUME NEW s, State(s), NEW a \in Pen, NEW v
  PROVE  /\ State(Send(s, a, v)) /\ Send(s, a, v).real = s.real
         /\ \A b \in Pen \cup {"fill", "image"} :
              /\ Send(s, a, v).g[b] = s.g[b]
              /\ Send(s, a, v).dev[b] = IF s.real /\ b = a THEN v ELSE s.dev[b]
<1> DEFINE f == Flush(s)
<1>1. Keeps(s, f)
  BY FlushIs
<1> HIDE DEF f
<1>2. State(f)
  BY <1>1 DEF Keeps
<1> DEFINE t == [f EXCEPT !.dev[a] = v]
<1>3. /\ State(t) /\ t.real = f.real
      /\ \A b \in Pen \cup {"fill", "image"} : t.g[b] = f.g[b] /\ t.dev[b] = IF b = a THEN v ELSE f.dev[b]
  BY <1>2 DEF State, Pen, GModel, Device, GFields, DevFields
<1>4. Send(s, a, v) = IF s.real THEN t ELSE s
  BY DEF Send, f
<1> HIDE DEF t
<1> QED
  BY <1>1, <1>3, <1>4 DEF Keeps

LEMMA SetIs ==
  ASSUME NEW s, State(s), NEW a \in Pen, NEW v
  PROVE  /\ State(Set(s, a, v)) /\ Set(s, a, v).real = s.real
         /\ \A b \in Pen \cup {"fill", "image"} :
              /\ Set(s, a, v).g[b] = IF b = a THEN v ELSE s.g[b]
              /\ Set(s, a, v).dev[b] = IF s.real /\ b = a THEN v ELSE s.dev[b]
<1> DEFINE t == Send(s, a, v)
<1>1. /\ State(t) /\ t.real = s.real
      /\ \A b \in Pen \cup {"fill", "image"} :
              t.g[b] = s.g[b] /\ t.dev[b] = IF s.real /\ b = a THEN v ELSE s.dev[b]
  BY SendIs
<1> HIDE DEF t
<1> DEFINE u == [t EXCEPT !.g[a] = v]
<1>2. /\ State(u) /\ u.real = t.real
      /\ \A b \in Pen \cup {"fill", "image"} : u.dev[b] = t.dev[b] /\ u.g[b] = IF b = a THEN v ELSE t.g[b]
  BY <1>1 DEF State, Pen, GModel, Device, GFields, DevFields
<1>3. Set(s, a, v) = u
  BY DEF Set, t
<1> HIDE DEF u
<1> QED
  BY <1>1, <1>2, <1>3

LEMMA SendFillIs ==
  ASSUME NEW s, State(s), NEW v
  PROVE  /\ State(SendFill(s, v)) /\ SendFill(s, v).real = s.real /\ SendFill(s, v).g = s.g
         /\ \A b \in Pen \cup {"fill", "image"} :
              SendFill(s, v).dev[b] = IF s.real /\ b = "fill" THEN v ELSE s.dev[b]
BY DEF SendFill, State, Pen, GModel, Device, GFields, DevFields

LEMMA SetFillIs ==
  ASSUME NEW s, State(s), NEW v
  PROVE  /\ Follows(s, SetFill(s, v)) /\ SetFill(s, v).g.fill = v
         /\ SetFill(s, v).g.image = s.g.image /\ SetFill(s, v).dev.image = s.dev.image
         /\ s.real => SetFill(s, v).dev.fill = v
<1> DEFINE t == [s EXCEPT !.g.fill = v]
<1>1. /\ State(t) /\ t.real = s.real
      /\ \A b \in Pen \cup {"fill", "image"} : t.dev[b] = s.dev[b] /\ t.g[b] = IF b = "fill" THEN v ELSE s.g[b]
  BY DEF State, Pen, GModel, Device, GFields, DevFields
<1> HIDE DEF t
<1> DEFINE u == SendFill(t, v)
<1>2. /\ State(u) /\ u.real = t.real /\ u.g = t.g
      /\ \A b \in Pen \cup {"fill", "image"} : u.dev[b] = IF t.real /\ b = "fill" THEN v ELSE t.dev[b]
  BY <1>1, SendFillIs
<1>3. SetFill(s, v) = u
  BY DEF SetFill, t
<1> HIDE DEF u
<1> QED
  BY <1>1, <1>2, <1>3 DEF Follows, Pen

-----------------------------------------------------------------------------
(* Drawing keeps the attributes.                                            *)

LEMMA BoundIs == ASSUME NEW s, State(s), NEW xs PROVE Keeps(s, Bound(s, xs))
<1>1. Bound(s, xs) = [s EXCEPT !.g.bounds = Grown(s.g.bounds, xs)]
  BY DEF Bound, State, GModel, GFields
<1> QED
  BY <1>1, Stays DEF GFields, Pen

LEMMA TwoStay == ASSUME NEW s, State(s), NEW c, NEW d PROVE Keeps(s, [s EXCEPT !.dev.cur = c, !.dev.contour = d])
                                                       /\ Keeps(s, [s EXCEPT !.dev.contour = d, !.dev.cur = c])
<1> DEFINE t == [s EXCEPT !.dev.cur = c]
           u == [t EXCEPT !.dev.contour = d]
<1>1. Keeps(s, t)
  BY Stays DEF DevFields, Pen
<1>2. [s EXCEPT !.dev.cur = c, !.dev.contour = d] = u
  OBVIOUS
<1>3. [s EXCEPT !.dev.contour = d, !.dev.cur = c] = u
  BY DEF State, Device, DevFields
<1> HIDE DEF t
<1>s. State(t)
  BY <1>1 DEF Keeps
<1>4. Keeps(t, u)
  BY <1>s, Stays DEF DevFields, Pen
<1> QED
  BY <1>1, <1>2, <1>3, <1>4, KeepsAll

LEMMA DevMoveIs == ASSUME NEW s, State(s), NEW x PROVE Keeps(s, DevMove(s, x))
<1>1. ASSUME NEW c, NEW d PROVE Keeps(s, [s EXCEPT !.dev.cur = c, !.dev.contour = d])
  BY TwoStay
<1>2. Keeps(s, s)
  BY DEF Keeps
<1>3. s.real => DevMove(s, x) = [s EXCEPT !.dev.cur = ToDev(s.dev.image, x),
                                         !.dev.contour = IF s.g.inpath THEN s.dev.contour ELSE <<>>]
  BY DEF DevMove, State, Device, DevFields
<1> QED
  BY <1>1, <1>2, <1>3 DEF DevMove

LEMMA CurIs == ASSUME NEW s, State(s), NEW x PROVE Keeps(s, [s EXCEPT !.g.cur = x])
BY Stays DEF GFields, Pen

LEMMA MoveIs == ASSUME NEW s, State(s), NEW x PROVE Keeps(s, Move(s, x))
<1> DEFINE f == IF s.g.xinline THEN Flush(s) ELSE s
           d == DevMove(f, x)
<1>1. Keeps(s, f)
  BY FlushIs DEF Keeps
<1> HIDE DEF f
<1>2. Keeps(f, d)
  BY <1>1, DevMoveIs DEF Keeps
<1>3. Move(s, x) = [d EXCEPT !.g.cur = x]
  BY DEF Move, f
<1> HIDE DEF d
<1>4. Keeps(d, [d EXCEPT !.g.cur = x])
  BY <1>2, CurIs DEF Keeps
<1> QED
  BY <1>1, <1>2, <1>3, <1>4, KeepsAll

LEMMA LineToIs == ASSUME NEW s, State(s), NEW x PROVE Keeps(s, LineTo(s, x))
<1> DEFINE m == DevMove(s, s.g.cur)
           start == IF s.g.xinline THEN s ELSE Bound(m, {s.g.cur})
           to == ToDev(s.dev.image, x)
           drawn == IF ~s.real THEN start
                    ELSE [start EXCEPT !.dev.contour = Append(start.dev.contour, Line(start.dev.cur, to)), !.dev.cur = to]
           begun == [drawn EXCEPT !.g.xinline = TRUE, !.g.cur = x]
<1>1. LineTo(s, x) = Bound(begun, {x})
  BY DEF LineTo
<1>2. Keeps(s, m)
  BY DevMoveIs
<1> HIDE DEF m
<1>3. Keeps(m, Bound(m, {s.g.cur}))
  BY <1>2, BoundIs DEF Keeps
<1>4. Keeps(s, start)
  <2>1. Keeps(s, s)
    BY DEF Keeps
  <2> QED
    BY <1>2, <1>3, <2>1, KeepsAll
<1> HIDE DEF start
<1>5. State(start)
  BY <1>4 DEF Keeps
<1>6. Keeps(start, [start EXCEPT !.dev.contour = Append(start.dev.contour, Line(start.dev.cur, to)), !.dev.cur = to])
  BY <1>5, TwoStay
<1>7. Keeps(start, drawn)
  <2>1. Keeps(start, start)
    BY <1>5 DEF Keeps
  <2> QED
    BY <1>6, <2>1
<1> HIDE DEF drawn
<1>8. State(drawn)
  BY <1>7 DEF Keeps
<1>9. Keeps(drawn, begun)
  <2> DEFINE t == [drawn EXCEPT !.g.xinline = TRUE]
             u == [t EXCEPT !.g.cur = x]
  <2>1. Keeps(drawn, t)
    BY <1>8, Stays DEF GFields, Pen
  <2>2. begun = u
    OBVIOUS
  <2> HIDE DEF t
  <2>3. Keeps(t, u)
    BY <2>1, CurIs DEF Keeps
  <2> QED
    BY <2>1, <2>2, <2>3, KeepsAll
<1> HIDE DEF begun
<1>10. Keeps(begun, Bound(begun, {x}))
  BY <1>9, BoundIs DEF Keeps
<1> QED
  BY <1>1, <1>4, <1>7, <1>9, <1>10, KeepsAll

\* Painting, and a path or none in PostScript
LEMMA ContourIs ==
  ASSUME NEW s, State(s), NEW c
  PROVE  Keeps(s, [s EXCEPT !.dev.contour = c])
BY Stays DEF DevFields, Pen

LEMMA DevFillIs == ASSUME NEW s, State(s), NEW shape PROVE Keeps(s, DevFill(s, shape))
<1>1. Keeps(s, s) /\ Keeps(s, [s EXCEPT !.dev.contour = Append(s.dev.contour, shape)])
  BY ContourIs DEF Keeps
<1> DEFINE f == Flush(s)
           p == Paint(f, Filled(<<shape>>, s.dev.fill))
<1>2. Keeps(s, f)
  BY FlushIs
<1> HIDE DEF f
<1>3. Keeps(f, p)
  BY <1>2, PaintIs DEF Keeps
<1> HIDE DEF p
<1>4. Keeps(p, [p EXCEPT !.dev.contour = <<>>])
  BY <1>3, ContourIs DEF Keeps
<1>5. Keeps(s, [p EXCEPT !.dev.contour = <<>>])
  BY <1>2, <1>3, <1>4, KeepsAll
<1>6. DevFill(s, shape) \in {s, [s EXCEPT !.dev.contour = Append(s.dev.contour, shape)], [p EXCEPT !.dev.contour = <<>>]}
  BY DEF DevFill, f, p, State, Device, DevFields
<1> QED
  BY <1>1, <1>5, <1>6

LEMMA DevStrokeIs == ASSUME NEW s, State(s), NEW shape PROVE Keeps(s, DevStroke(s, shape))
<1>1. Keeps(s, s) /\ Keeps(s, [s EXCEPT !.dev.contour = Append(s.dev.contour, shape)])
  BY ContourIs DEF Keeps
<1> DEFINE f == Flush(s)
           p == Paint(f, Strokes([f.dev EXCEPT !.contour = <<shape>>]))
<1>2. Keeps(s, f)
  BY FlushIs
<1> HIDE DEF f
<1>3. Keeps(f, p)
  BY <1>2, PaintIs DEF Keeps
<1> HIDE DEF p
<1>4. Keeps(p, [p EXCEPT !.dev.contour = <<>>])
  BY <1>3, ContourIs DEF Keeps
<1>5. Keeps(s, [p EXCEPT !.dev.contour = <<>>])
  BY <1>2, <1>3, <1>4, KeepsAll
<1>6. DevStroke(s, shape) \in {s, [s EXCEPT !.dev.contour = Append(s.dev.contour, shape)], [p EXCEPT !.dev.contour = <<>>]}
  BY DEF DevStroke, f, p, State, Device, DevFields
<1> QED
  BY <1>1, <1>5, <1>6

LEMMA DrawCircleIs == ASSUME NEW s, State(s) PROVE Keeps(s, DrawCircle(s))
<1> DEFINE here == Move(s, s.g.cur)
           shape == Circle(s.dev.image, s.g.cur)
           filled == IF s.g.fill = Clear THEN here ELSE DevFill(here, shape)
           stroked == DevStroke(filled, shape)
           bound == Bound(stroked, {s.g.cur - Unit, s.g.cur + Unit})
<1>1. DrawCircle(s) = Move(bound, s.g.cur)
  BY DEF DrawCircle
<1>2. Keeps(s, here)
  BY MoveIs
<1> HIDE DEF here, shape
<1>3. Keeps(here, filled)
  BY <1>2, DevFillIs DEF Keeps
<1> HIDE DEF filled
<1>4. Keeps(filled, stroked)
  BY <1>3, DevStrokeIs DEF Keeps
<1> HIDE DEF stroked
<1>5. Keeps(stroked, bound)
  BY <1>4, BoundIs DEF Keeps
<1> HIDE DEF bound
<1>6. Keeps(bound, Move(bound, s.g.cur))
  BY <1>5, MoveIs DEF Keeps
<1> QED
  BY <1>1, <1>2, <1>3, <1>4, <1>5, <1>6, KeepsAll

LEMMA DrawBoxIs == ASSUME NEW s, State(s), NEW bounds, NEW fill PROVE Keeps(s, DrawBox(s, bounds, fill))
<1> DEFINE shape == Rectangle(ToDev(s.dev.image, bounds[1]), ToDev(s.dev.image, bounds[2]))
           drawn == IF fill THEN DevFill(s, shape) ELSE DevStroke(s, shape)
           bound == Bound(drawn, ToSet(bounds))
<1>1. DrawBox(s, bounds, fill) = Move(bound, s.g.cur)
  BY DEF DrawBox
<1> HIDE DEF shape
<1>2. Keeps(s, drawn)
  BY DevFillIs, DevStrokeIs
<1> HIDE DEF drawn
<1>3. Keeps(drawn, bound)
  BY <1>2, BoundIs DEF Keeps
<1> HIDE DEF bound
<1>4. Keeps(bound, Move(bound, s.g.cur))
  BY <1>3, MoveIs DEF Keeps
<1> QED
  BY <1>1, <1>2, <1>3, <1>4, KeepsAll

-----------------------------------------------------------------------------
(* Matrices, and a state that comes back.                                   *)

LEMMA SetMatrixIs == ASSUME NEW s, State(s), NEW m PROVE Follows(s, SetMatrix(s, m)) /\ SetMatrix(s, m).g.image = m
<1> DEFINE t == [s EXCEPT !.g.image = m, !.dev.image = IF s.real THEN m ELSE s.dev.image]
<1>1. /\ State(t) /\ t.real = s.real
      /\ \A b \in Pen \cup {"fill", "image"} :
           /\ t.g[b] = IF b = "image" THEN m ELSE s.g[b]
           /\ t.dev[b] = IF s.real /\ b = "image" THEN m ELSE s.dev[b]
  <2> DEFINE v == IF s.real THEN m ELSE s.dev.image
             u == [s EXCEPT !.g.image = m]
             w == [u EXCEPT !.dev.image = v]
  <2>1. /\ State(u) /\ u.real = s.real /\ u.dev = s.dev
        /\ \A h \in GFields : u.g[h] = IF h = "image" THEN m ELSE s.g[h]
    BY DEF State, GModel, GFields
  <2>2. t = w
    OBVIOUS
  <2> HIDE DEF u, v
  <2>3. /\ State(w) /\ w.real = u.real /\ w.g = u.g
        /\ \A h \in DevFields : w.dev[h] = IF h = "image" THEN v ELSE u.dev[h]
    BY <2>1 DEF State, Device, DevFields
  <2> HIDE DEF w
  <2> QED
    BY <2>1, <2>2, <2>3 DEF v, Pen, GFields, DevFields
<1>2. SetMatrix(s, m) = IF m = s.g.image THEN s
                        ELSE IF s.g.bounds = <<>> THEN t ELSE Bound(t, Undone(s.g.bounds, s.g.image, m))
  BY DEF SetMatrix, State, Device, DevFields
<1> HIDE DEF t
<1>3. Follows(s, s) /\ Follows(s, t) /\ t.g.image = m
  BY <1>1 DEF Follows, Pen
<1>4. \A u : Keeps(t, Bound(t, u)) /\ Follows(t, Bound(t, u)) /\ Bound(t, u).g.image = m
  BY <1>1, <1>3, BoundIs, KeepsFollows DEF Keeps
<1> QED
  BY <1>2, <1>3, <1>4, FollowsAll

LEMMA TranslateIs == ASSUME NEW s, State(s) PROVE Follows(s, Translate(s))
BY SetMatrixIs DEF Translate

LEMMA ScaleIs == ASSUME NEW s, State(s) PROVE Follows(s, Scale(s))
<1> DEFINE c == ToDev(s.g.image, s.g.cur)
           m1 == [s.g.image EXCEPT !.shift = s.g.image.shift - c]
           there == SetMatrix(s, [s.g.image EXCEPT !.shift = @ - c])
           scaled == SetMatrix(there, Halved(there.g.image))
           back == SetMatrix(scaled, [scaled.g.image EXCEPT !.shift = @ + c])
<1>1. Scale(s) = back
  BY DEF Scale
<1> HIDE DEF c
<1>2. Follows(s, there)
  BY SetMatrixIs
<1> HIDE DEF there
<1>3. Follows(there, scaled)
  BY <1>2, SetMatrixIs DEF Follows
<1> HIDE DEF scaled
<1>4. Follows(scaled, back)
  BY <1>3, SetMatrixIs DEF Follows
<1> HIDE DEF back
<1> QED
  BY <1>1, <1>2, <1>3, <1>4, FollowsAll

LEMMA SavedIs == ASSUME NEW s, State(s) PROVE Keeps(s, Saved(s))
BY Stays DEF Saved, GFields, Pen

\* A real device gets the attributes of the old state, but for the cap.
LEMMA SetStateIs ==
  ASSUME NEW s, State(s), NEW old, GModel(old)
  PROVE  LET t == SetState(s, old) IN
         /\ State(t) /\ t.real = s.real
         /\ \A a \in Pen \cup {"fill", "image"} : t.g[a] = old[a]
         /\ t.dev.cap = s.dev.cap
         /\ s.real => t.dev.color = old.color /\ t.dev.width = old.width /\ t.dev.fill = old.fill
                      /\ (s.dev.image = s.g.image => t.dev.image = old.image)
         /\ ~s.real => \A a \in Pen \cup {"fill", "image"} : t.dev[a] = s.dev[a]
<1> DEFINE bounds == IF s.g.bounds = <<>> THEN old.bounds
                     ELSE Grown(old.bounds, Undone(s.g.bounds, s.g.image, old.image))
           to == IF s.real /\ old.image # s.g.image THEN old.image ELSE s.dev.image
           back == [s EXCEPT !.g = [old EXCEPT !.bounds = bounds], !.dev.image = to]
           s1 == Send(back, "color", old.color)
           s2 == SendFill(s1, old.fill)
           s3 == Send(s2, "width", old.width)
<1>1. SetState(s, old) = s3
  BY DEF SetState, State, Device, DevFields
<1> HIDE DEF bounds
<1>2. /\ State(back) /\ back.real = s.real
      /\ \A a \in Pen \cup {"fill", "image"} :
           /\ back.g[a] = old[a]
           /\ back.dev[a] = IF a = "image" THEN to ELSE s.dev[a]
  <2> DEFINE m == [old EXCEPT !.bounds = bounds]
             d == [s.dev EXCEPT !.image = to]
  <2>1. GModel(m) /\ \A a \in Pen \cup {"fill", "image"} : m[a] = old[a]
    BY DEF GModel, GFields, Pen
  <2>2. Device(d) /\ \A a \in Pen \cup {"fill", "image"} : d[a] = IF a = "image" THEN to ELSE s.dev[a]
    BY DEF State, Device, DevFields, Pen
  <2> HIDE DEF m, to
  <2>3. back = [g |-> m, dev |-> d, real |-> s.real, painted |-> s.painted]
    <3> DEFINE u == [s EXCEPT !.g = m]
    <3>1. back = [u EXCEPT !.dev.image = to]
      BY DEF m
    <3>2. u = [g |-> m, dev |-> s.dev, real |-> s.real, painted |-> s.painted]
      BY DEF State
    <3> HIDE DEF u, back
    <3> QED
      BY <3>1, <3>2 DEF d
  <2> HIDE DEF m, d, back
  <2> QED
    BY <2>1, <2>2, <2>3 DEF State
<1>3. s.real /\ s.dev.image = s.g.image => to = old.image
  OBVIOUS
<1>4. ~s.real => to = s.dev.image
  OBVIOUS
<1> HIDE DEF back, to
<1>5. /\ State(s1) /\ s1.real = s.real
      /\ \A b \in Pen \cup {"fill", "image"} :
           s1.g[b] = back.g[b] /\ s1.dev[b] = IF s.real /\ b = "color" THEN old.color ELSE back.dev[b]
  BY <1>2, SendIs DEF Pen
<1> HIDE DEF s1
<1>6. /\ State(s2) /\ s2.real = s.real /\ s2.g = s1.g
      /\ \A b \in Pen \cup {"fill", "image"} : s2.dev[b] = IF s.real /\ b = "fill" THEN old.fill ELSE s1.dev[b]
  BY <1>5, SendFillIs
<1> HIDE DEF s2
<1>7. /\ State(s3) /\ s3.real = s.real
      /\ \A b \in Pen \cup {"fill", "image"} :
           s3.g[b] = s2.g[b] /\ s3.dev[b] = IF s.real /\ b = "width" THEN old.width ELSE s2.dev[b]
  BY <1>6, SendIs DEF Pen
<1> HIDE DEF s3
<1> QED
  BY <1>1, <1>2, <1>3, <1>4, <1>5, <1>6, <1>7 DEF Pen
-----------------------------------------------------------------------------
(* Sequences, and the number of members of a set up to a place.             *)

Listed(s) == Len(s) \in Nat /\ s = [i \in 1 .. Len(s) |-> s[i]]

LEMMA ListedIs ==
  ASSUME NEW s, NEW n \in Nat, s = [i \in 1 .. n |-> s[i]]
  PROVE  Listed(s) /\ Len(s) = n /\ DOMAIN s = 1 .. n
<1> DEFINE S == {s[i] : i \in 1 .. n}
<1>1. \A i \in 1 .. n : s[i] \in S
  OBVIOUS
<1> HIDE DEF S
<1>2. s \in [1 .. n -> S]
  BY <1>1
<1>3. s \in Seq(S)
  BY <1>2
<1>4. Len(s) = n
  BY <1>2, <1>3
<1> QED
  BY <1>2, <1>4 DEF Listed

LEMMA AppendIs ==
  ASSUME NEW s, Listed(s), NEW x
  PROVE  /\ Listed(Append(s, x)) /\ DOMAIN s = 1 .. Len(s)
         /\ DOMAIN Append(s, x) = 1 .. Len(s) + 1 /\ Len(Append(s, x)) = Len(s) + 1
         /\ \A i \in 1 .. Len(s) : Append(s, x)[i] = s[i]
         /\ Append(s, x)[Len(s) + 1] = x
<1> DEFINE S == {s[i] : i \in 1 .. Len(s)} \cup {x}
<1>1. Len(s) \in Nat /\ s = [i \in 1 .. Len(s) |-> s[i]]
  BY DEF Listed
<1>2. x \in S /\ \A i \in 1 .. Len(s) : s[i] \in S
  OBVIOUS
<1> HIDE DEF S
<1>3. s \in [1 .. Len(s) -> S]
  BY <1>1, <1>2
<1>4. s \in Seq(S)
  BY <1>1, <1>3
<1> DEFINE t == Append(s, x)
<1>5. t \in Seq(S) /\ Len(t) = Len(s) + 1 /\ (\A i \in 1 .. Len(s) : t[i] = s[i]) /\ t[Len(s) + 1] = x
  BY <1>2, <1>4
<1> HIDE DEF t
<1>6. t \in [1 .. Len(t) -> S] /\ Len(t) \in Nat
  BY <1>5
<1>7. t = [i \in 1 .. Len(t) |-> t[i]] /\ DOMAIN t = 1 .. Len(t)
  BY <1>6
<1>8. DOMAIN s = 1 .. Len(s)
  BY <1>3
<1>9. Listed(t)
  BY <1>6, <1>7 DEF Listed
<1> QED
  BY <1>5, <1>7, <1>8, <1>9 DEF t

LEMMA FrontIs ==
  ASSUME NEW s, Listed(s), s # <<>>
  PROVE  /\ Len(s) \in Nat \ {0} /\ DOMAIN s = 1 .. Len(s) /\ Last(s) = s[Len(s)]
         /\ Listed(Front(s)) /\ Len(Front(s)) = Len(s) - 1 /\ DOMAIN Front(s) = 1 .. Len(s) - 1
         /\ \A i \in 1 .. Len(s) - 1 : Front(s)[i] = s[i]
<1> DEFINE S == {s[i] : i \in 1 .. Len(s)}
<1>1. Len(s) \in Nat /\ s = [i \in 1 .. Len(s) |-> s[i]] /\ DOMAIN s = 1 .. Len(s)
  BY DEF Listed
<1>2. \A i \in 1 .. Len(s) : s[i] \in S
  OBVIOUS
<1> HIDE DEF S
<1>3. s \in [1 .. Len(s) -> S]
  BY <1>1, <1>2
<1>4. s \in Seq(S)
  BY <1>1, <1>3
<1>5. Len(s) # 0
  BY <1>4
<1> DEFINE t == SubSeq(s, 1, Len(s) - 1)
<1>6. t \in Seq(S) /\ Len(t) = Len(s) - 1 /\ \A i \in 1 .. Len(s) - 1 : t[i] = s[i]
  BY <1>1, <1>4, <1>5
<1>7. Front(s) = t
  BY DEF Front
<1> HIDE DEF t
<1>8. t = [i \in 1 .. Len(s) - 1 |-> t[i]] /\ Len(s) - 1 \in Nat
  <2>1. t \in [1 .. Len(t) -> S]
    BY <1>6
  <2> QED
    BY <2>1, <1>1, <1>5, <1>6
<1>9. Listed(t) /\ DOMAIN t = 1 .. Len(s) - 1
  BY <1>8, ListedIs
<1>10. Last(s) = s[Len(s)]
  BY DEF Last
<1> QED
  BY <1>1, <1>5, <1>6, <1>7, <1>9, <1>10

LEMMA PutIs ==
  ASSUME NEW s, Listed(s), NEW i \in 1 .. Len(s), NEW x
  PROVE  LET t == [s EXCEPT ![i] = x] IN
         /\ Listed(t) /\ Len(t) = Len(s) /\ DOMAIN t = 1 .. Len(s)
         /\ \A h \in 1 .. Len(s) : t[h] = IF h = i THEN x ELSE s[h]
<1> DEFINE t == [s EXCEPT ![i] = x]
<1>1. Len(s) \in Nat /\ s = [h \in 1 .. Len(s) |-> s[h]] /\ DOMAIN s = 1 .. Len(s)
  BY DEF Listed
<1>2. t = [h \in 1 .. Len(s) |-> t[h]] /\ \A h \in 1 .. Len(s) : t[h] = IF h = i THEN x ELSE s[h]
  BY <1>1
<1> HIDE DEF t
<1>3. Listed(t) /\ Len(t) = Len(s) /\ DOMAIN t = 1 .. Len(s)
  BY <1>1, <1>2, ListedIs
<1> QED
  BY <1>2, <1>3 DEF t

UpTo(S, n) == Cardinality(S \cap (1 .. n))

LEMMA UpToIs ==
  ASSUME NEW S
  PROVE  /\ UpTo(S, 0) = 0
         /\ \A n \in Nat : UpTo(S, n) \in Nat
         /\ \A n \in Nat : UpTo(S, n + 1) = UpTo(S, n) + (IF n + 1 \in S THEN 1 ELSE 0)
<1>1. \A n \in Nat : IsFiniteSet(S \cap (1 .. n))
  <2> TAKE n \in Nat
  <2>1. IsFiniteSet(1 .. n)
    BY FS_Interval
  <2>2. S \cap (1 .. n) \in SUBSET (1 .. n)
    OBVIOUS
  <2> QED
    BY <2>1, <2>2, FS_Subset
<1>2. \A n \in Nat : UpTo(S, n) \in Nat
  BY <1>1, FS_CardinalityType DEF UpTo
<1>3. UpTo(S, 0) = 0
  <2>1. S \cap (1 .. 0) = {}
    OBVIOUS
  <2> QED
    BY <2>1, FS_EmptySet DEF UpTo
<1>4. ASSUME NEW n \in Nat PROVE UpTo(S, n + 1) = UpTo(S, n) + (IF n + 1 \in S THEN 1 ELSE 0)
  <2>1. CASE n + 1 \in S
    <3>1. S \cap (1 .. n + 1) = (S \cap (1 .. n)) \cup {n + 1} /\ n + 1 \notin S \cap (1 .. n)
      BY <2>1
    <3>2. Cardinality((S \cap (1 .. n)) \cup {n + 1}) = Cardinality(S \cap (1 .. n)) + 1
      BY <1>1, <3>1, FS_AddElement
    <3> QED
      BY <2>1, <3>1, <3>2 DEF UpTo
  <2>2. CASE n + 1 \notin S
    <3>1. S \cap (1 .. n + 1) = S \cap (1 .. n)
      BY <2>2
    <3> QED
      BY <1>2, <2>2, <3>1 DEF UpTo
  <2> QED
    BY <2>1, <2>2
<1> QED
  BY <1>2, <1>3, <1>4

LEMMA UpToSame ==
  ASSUME NEW S, NEW T, NEW n \in Nat, \A i \in 1 .. n : i \in S <=> i \in T
  PROVE  UpTo(S, n) = UpTo(T, n)
<1>1. S \cap (1 .. n) = T \cap (1 .. n)
  OBVIOUS
<1> QED
  BY <1>1 DEF UpTo

\* t is s with x added, or without its last member.
Added(s, t, x) ==
  /\ Listed(s) /\ Listed(t) /\ Len(t) = Len(s) + 1 /\ t[Len(s) + 1] = x
  /\ \A i \in 1 .. Len(s) : t[i] = s[i]
Taken(s, t) ==
  /\ Listed(s) /\ Listed(t) /\ Len(s) \in Nat \ {0} /\ Len(t) = Len(s) - 1
  /\ \A i \in 1 .. Len(s) - 1 : t[i] = s[i]

LEMMA AddedIs == ASSUME NEW s, Listed(s), NEW x PROVE Added(s, Append(s, x), x)
BY AppendIs DEF Added
LEMMA TakenIs == ASSUME NEW s, Listed(s), s # <<>> PROVE Taken(s, Front(s)) /\ Last(s) = s[Len(s)]
BY FrontIs DEF Taken
-----------------------------------------------------------------------------
(* The levels of blocks in a script.                                        *)

Openers(c) == {p \in DOMAIN c : c[p] \in Blocks}
EndsOf(c) == {p \in DOMAIN c : c[p] = "end"}
\* How many blocks are open at p, were the script executed without going back
Level(c, p) == UpTo(Openers(c), p - 1) - UpTo(EndsOf(c), p - 1)
Turn(x) == IF x \in Blocks THEN 1 ELSE IF x = "end" THEN -1 ELSE 0

LEMMA LevelIs ==
  ASSUME NEW c, Listed(c)
  PROVE  /\ \A p \in Nat \ {0} : Level(c, p) \in Int
         /\ \A p \in 1 .. Len(c) : Level(c, p + 1) = Level(c, p) + Turn(c[p])
<1>1. /\ \A n \in Nat : UpTo(Openers(c), n) \in Nat /\ UpTo(EndsOf(c), n) \in Nat
      /\ \A n \in Nat : UpTo(Openers(c), n + 1) = UpTo(Openers(c), n) + (IF n + 1 \in Openers(c) THEN 1 ELSE 0)
      /\ \A n \in Nat : UpTo(EndsOf(c), n + 1) = UpTo(EndsOf(c), n) + (IF n + 1 \in EndsOf(c) THEN 1 ELSE 0)
  BY UpToIs
<1>2. \A p \in Nat \ {0} : p - 1 \in Nat /\ (p - 1) + 1 = p /\ (p + 1) - 1 = p
  OBVIOUS
<1>3. \A p \in Nat \ {0} : Level(c, p) \in Int
  BY <1>1, <1>2 DEF Level
<1>4. ASSUME NEW p \in 1 .. Len(c) PROVE Level(c, p + 1) = Level(c, p) + Turn(c[p])
  <2>1. Len(c) \in Nat /\ p \in Nat \ {0} /\ p \in DOMAIN c
    BY DEF Listed
  <2>2. /\ UpTo(Openers(c), p) = UpTo(Openers(c), p - 1) + (IF p \in Openers(c) THEN 1 ELSE 0)
        /\ UpTo(EndsOf(c), p) = UpTo(EndsOf(c), p - 1) + (IF p \in EndsOf(c) THEN 1 ELSE 0)
    <3>1. PICK n \in Nat : n = p - 1
      BY <2>1
    <3>2. n + 1 = p
      BY <2>1, <3>1
    <3> QED
      BY <1>1, <3>1, <3>2
  <2>3. (p \in Openers(c) <=> c[p] \in Blocks) /\ (p \in EndsOf(c) <=> c[p] = "end")
    BY <2>1 DEF Openers, EndsOf
  <2>4. "end" \notin Blocks
    BY DEF Blocks
  <2>5. UpTo(Openers(c), p - 1) \in Nat /\ UpTo(EndsOf(c), p - 1) \in Nat
    BY <1>1, <1>2, <2>1
  <2>6. Level(c, p + 1) = UpTo(Openers(c), p) - UpTo(EndsOf(c), p)
    BY <1>2, <2>1 DEF Level
  <2> QED
    BY <2>2, <2>3, <2>4, <2>5, <2>6 DEF Level, Turn
<1> QED
  BY <1>3, <1>4

\* d is c, with x at p: x was there, or has been added.
Passes(c, d, p, x) ==
  /\ Listed(d) /\ p \in 1 .. Len(d) /\ d[p] = x
  /\ Len(c) <= Len(d) /\ p <= Len(c) + 1 /\ (p <= Len(c) => d = c)
  /\ \A q \in 1 .. Len(c) : d[q] = c[q]
  /\ \A q \in 1 .. Len(c) + 1 : Level(d, q) = Level(c, q)
  /\ Level(d, p + 1) = Level(d, p) + Turn(x)

LEMMA PassesIs ==
  ASSUME NEW c, Listed(c), NEW p \in 1 .. Len(c) + 1, NEW x, NEW d,
         IF p <= Len(c) THEN c[p] = x /\ d = c ELSE d = Append(c, x)
  PROVE  Passes(c, d, p, x)
<1>0. Len(c) \in Nat
  BY DEF Listed
<1>1. CASE p <= Len(c)
  <2>1. p \in 1 .. Len(c)
    BY <1>0, <1>1
  <2>2. Level(c, p + 1) = Level(c, p) + Turn(c[p])
    BY <2>1, LevelIs
  <2> QED
    BY <1>0, <1>1, <2>1, <2>2 DEF Passes
<1>2. CASE ~ (p <= Len(c))
  <2>0. p = Len(c) + 1
    BY <1>0, <1>2
  <2>1. d = Append(c, x)
    BY <1>0, <1>2
  <2>2. /\ Listed(d) /\ DOMAIN c = 1 .. Len(c) /\ DOMAIN d = 1 .. Len(c) + 1 /\ Len(d) = Len(c) + 1
        /\ \A i \in 1 .. Len(c) : d[i] = c[i]
        /\ d[Len(c) + 1] = x
    BY <2>1, AppendIs
  <2>3. ASSUME NEW q \in 1 .. Len(c) + 1 PROVE Level(d, q) = Level(c, q)
    <3>1. q - 1 \in Nat /\ \A i \in 1 .. q - 1 : i \in 1 .. Len(c) /\ i \in 1 .. Len(c) + 1
      BY <1>0
    <3>2. \A i \in 1 .. q - 1 : (i \in Openers(d) <=> i \in Openers(c)) /\ (i \in EndsOf(d) <=> i \in EndsOf(c))
      BY <2>2, <3>1 DEF Openers, EndsOf
    <3>3. UpTo(Openers(d), q - 1) = UpTo(Openers(c), q - 1) /\ UpTo(EndsOf(d), q - 1) = UpTo(EndsOf(c), q - 1)
      BY <3>1, <3>2, UpToSame
    <3> QED
      BY <3>3 DEF Level
  <2>4. p \in 1 .. Len(d)
    BY <1>0, <2>0, <2>2
  <2>5. Level(d, p + 1) = Level(d, p) + Turn(d[p])
    BY <2>2, <2>4, LevelIs
  <2>6. Len(c) <= Len(d) /\ p <= Len(c) + 1 /\ d[p] = x /\ Level(d, p + 1) = Level(d, p) + Turn(x)
    BY <1>0, <2>0, <2>2, <2>5
  <2> QED
    BY <1>2, <2>2, <2>3, <2>4, <2>6 DEF Passes
<1> QED
  BY <1>1, <1>2

-----------------------------------------------------------------------------
(* The open blocks and boxes, and where they were begun.                    *)

Boxy == {"box", "filled box"}

\* q began the j-th open block, and it has been open since.
Began(c, p, b, j, q) ==
  /\ q \in 1 .. p - 1 /\ c[q] = b[j].type /\ Level(c, q) = j - 1
  /\ \A r \in q + 1 .. p : Level(c, r) >= j
\* The place of the block of a box
Place(c, x) == Level(c, x.at)

BlocksIn(c, p, b) ==
  /\ Listed(c) /\ Listed(b) /\ p \in 1 .. Len(c) + 1
  /\ Len(b) = Level(c, p)
  /\ \A j \in 1 .. Len(b) : b[j].type \in Blocks /\ \E q \in Nat : Began(c, p, b, j, q)
IsBox(c, p, b, x) ==
  /\ x.at \in Nat /\ Place(c, x) \in 1 .. Len(b) /\ b[Place(c, x)].type \in Boxy
  /\ Began(c, p, b, Place(c, x), x.at - 1)
BoxesIn(c, p, b, x) ==
  /\ Listed(x)
  /\ \A i \in 1 .. Len(x) : IsBox(c, p, b, x[i])
  /\ \A i \in 1 .. Len(x) : \A h \in 1 .. i - 1 : x[h].at < x[i].at
  /\ \A j \in 1 .. Len(b) : b[j].type \in Boxy => \E i \in 1 .. Len(x) : Place(c, x[i]) = j
Structure(c, p, b, x) == BlocksIn(c, p, b) /\ BoxesIn(c, p, b, x)

\* The last box is that of the last block, if that is one of a box, and of no other.
LastFits(c, b, x) ==
  /\ Len(b) \in Nat \ {0}
  /\ b[Len(b)].type \in Boxy => Len(x) \in Nat \ {0} /\ Place(c, x[Len(x)]) = Len(b)
  /\ \A i \in 1 .. Len(x) : Place(c, x[i]) = Len(b) => i = Len(x)

LEMMA LastBox ==
  ASSUME NEW c, NEW p \in Nat, NEW b, NEW x, Structure(c, p, b, x), b # <<>>
  PROVE  LastFits(c, b, x)
<1>0. Listed(b) /\ Listed(x) /\ Len(x) \in Nat /\ Listed(c) /\ p \in 1 .. Len(c) + 1 /\ Len(c) \in Nat
  BY DEF Structure, BlocksIn, BoxesIn, Listed
<1>1. Len(b) \in Nat \ {0}
  BY <1>0, FrontIs
<1>2. ASSUME NEW i \in 1 .. Len(x), Place(c, x[i]) = Len(b) PROVE i = Len(x)
  <2> SUFFICES ASSUME i # Len(x) PROVE FALSE
    OBVIOUS
  <2> DEFINE l == Len(x)
             k == Place(c, x[l])
  <2>1. l \in 1 .. Len(x) /\ i \in 1 .. l - 1
    BY <1>0
  <2>2. IsBox(c, p, b, x[l]) /\ IsBox(c, p, b, x[i]) /\ x[i].at < x[l].at
    BY <2>1 DEF Structure, BoxesIn
  <2>3. /\ k \in 1 .. Len(b) /\ x[l].at - 1 \in 1 .. p - 1 /\ Level(c, x[l].at - 1) = k - 1 /\ x[l].at \in Nat
        /\ x[i].at \in Nat /\ \A r \in (x[i].at - 1) + 1 .. p : Level(c, r) >= Len(b)
    BY <1>2, <2>2 DEF IsBox, Began
  <2> HIDE DEF k, l
  <2>4. x[l].at - 1 \in (x[i].at - 1) + 1 .. p
    <3>1. PICK u, v : u = x[i].at /\ v = x[l].at
      OBVIOUS
    <3>2. u \in Nat /\ v \in Nat /\ u < v /\ v - 1 \in 1 .. p - 1
      BY <2>2, <2>3, <3>1
    <3>3. v - 1 \in (u - 1) + 1 .. p
      BY <3>2
    <3> QED
      BY <3>1, <3>3
  <2>5. k - 1 >= Len(b)
    BY <2>3, <2>4
  <2> QED
    BY <1>1, <2>3, <2>5
<1>3. ASSUME b[Len(b)].type \in Boxy PROVE Len(x) \in Nat \ {0} /\ Place(c, x[Len(x)]) = Len(b)
  <2>1. Len(b) \in 1 .. Len(b)
    BY <1>1
  <2>2. PICK i \in 1 .. Len(x) : Place(c, x[i]) = Len(b)
    BY <1>3, <2>1 DEF Structure, BoxesIn
  <2>3. i = Len(x)
    BY <1>2, <2>2
  <2> QED
    BY <1>0, <2>2, <2>3
<1> QED
  BY <1>1, <1>2, <1>3 DEF LastFits

LEMMA BeganOn ==
  ASSUME NEW c, Listed(c), NEW p \in 1 .. Len(c) + 1, NEW d, NEW y, Passes(c, d, p, y),
         NEW b, NEW e, NEW j \in Nat, NEW q, Began(c, p, b, j, q), e[j].type = b[j].type, Level(d, p + 1) >= j
  PROVE  Began(d, p + 1, e, j, q)
<1>1. Len(c) \in Nat /\ p \in Nat
  BY DEF Listed
<1>2. q \in 1 .. p - 1 /\ c[q] = b[j].type /\ Level(c, q) = j - 1 /\ \A r \in q + 1 .. p : Level(c, r) >= j
  BY DEF Began
<1>3. q \in 1 .. Len(c) /\ q \in 1 .. Len(c) + 1
  BY <1>1, <1>2
<1>4. d[q] = c[q] /\ Level(d, q) = Level(c, q)
  BY <1>3 DEF Passes
<1>5. ASSUME NEW r \in q + 1 .. p + 1 PROVE Level(d, r) >= j
  <2>1. CASE r = p + 1
    BY <2>1
  <2>2. CASE r # p + 1
    <3>1. r \in q + 1 .. p /\ r \in 1 .. Len(c) + 1
      BY <1>1, <1>2, <2>2
    <3> QED
      BY <1>2, <3>1 DEF Passes
  <2> QED
    BY <2>1, <2>2
<1>6. q \in 1 .. (p + 1) - 1
  BY <1>1, <1>2
<1> QED
  BY <1>2, <1>4, <1>5, <1>6 DEF Began

LEMMA BoxOn ==
  ASSUME NEW c, Listed(c), NEW p \in 1 .. Len(c) + 1, NEW d, NEW y, Passes(c, d, p, y),
         NEW b, NEW e, NEW z, IsBox(c, p, b, z), Listed(e),
         Place(c, z) \in 1 .. Len(e), e[Place(c, z)].type = b[Place(c, z)].type, Level(d, p + 1) >= Place(c, z)
  PROVE  IsBox(d, p + 1, e, z) /\ Place(d, z) = Place(c, z)
<1>1. Len(c) \in Nat /\ p \in Nat /\ Len(e) \in Nat
  BY DEF Listed
<1>2. z.at \in Nat /\ Place(c, z) \in Nat /\ Began(c, p, b, Place(c, z), z.at - 1)
  BY <1>1 DEF IsBox
<1>3. Began(d, p + 1, e, Place(c, z), z.at - 1)
  BY <1>2, BeganOn
<1>4. z.at - 1 \in 1 .. p - 1
  BY <1>2 DEF Began
<1>5. z.at \in 1 .. Len(c) + 1
  BY <1>1, <1>2, <1>4
<1>6. Place(d, z) = Place(c, z)
  BY <1>5 DEF Passes, Place
<1>7. b[Place(c, z)].type \in Boxy
  BY DEF IsBox
<1> QED
  BY <1>2, <1>3, <1>6, <1>7 DEF IsBox

\* The places of boxes stay when the script goes on.
PlacesStay(c, k, p, b, x) ==
  \A i \in 1 .. Len(x) :
    /\ Place(k, x[i]) = Place(c, x[i]) /\ Place(c, x[i]) \in 1 .. Len(b)
    /\ x[i].at \in 2 .. p /\ b[Place(c, x[i])].type \in Boxy

LEMMA PlaceOn ==
  ASSUME NEW c, NEW p \in Nat, NEW b, NEW x, Structure(c, p, b, x), NEW k, NEW y, Passes(c, k, p, y)
  PROVE  PlacesStay(c, k, p, b, x)
<1> SUFFICES ASSUME NEW i \in 1 .. Len(x)
             PROVE  /\ Place(k, x[i]) = Place(c, x[i]) /\ Place(c, x[i]) \in 1 .. Len(b)
                    /\ x[i].at \in 2 .. p /\ b[Place(c, x[i])].type \in Boxy
  BY DEF PlacesStay
<1>1. Listed(c) /\ p \in 1 .. Len(c) + 1 /\ Len(c) \in Nat /\ p \in Nat
  BY DEF Structure, BlocksIn, Listed
<1>2. IsBox(c, p, b, x[i])
  BY DEF Structure, BoxesIn
<1>3. x[i].at \in Nat /\ x[i].at - 1 \in 1 .. p - 1 /\ Place(c, x[i]) \in 1 .. Len(b)
  BY <1>2 DEF IsBox, Began
<1>4. x[i].at \in 2 .. p /\ x[i].at \in 1 .. Len(c) + 1
  BY <1>1, <1>3
<1> QED
  BY <1>2, <1>3, <1>4 DEF Passes, Place, IsBox

LEMMA BoxesOn ==
  ASSUME NEW c, NEW p \in Nat, NEW b, NEW x, Structure(c, p, b, x), NEW d, NEW y, Passes(c, d, p, y),
         NEW e, Listed(e), NEW i \in 1 .. Len(x),
         Place(c, x[i]) \in 1 .. Len(e), e[Place(c, x[i])].type = b[Place(c, x[i])].type,
         Level(d, p + 1) >= Place(c, x[i])
  PROVE  IsBox(d, p + 1, e, x[i]) /\ Place(d, x[i]) = Place(c, x[i])
<1>1. PICK z : z = x[i]
  OBVIOUS
<1>2. IsBox(c, p, b, z) /\ Listed(c) /\ p \in 1 .. Len(c) + 1
  BY <1>1 DEF Structure, BlocksIn, BoxesIn
<1>3. Place(c, z) \in 1 .. Len(e) /\ e[Place(c, z)].type = b[Place(c, z)].type /\ Level(d, p + 1) >= Place(c, z)
  BY <1>1
<1>4. IsBox(d, p + 1, e, z) /\ Place(d, z) = Place(c, z)
  BY <1>2, <1>3, BoxOn
<1> QED
  BY <1>1, <1>4

LEMMA StructurePlain ==
  ASSUME NEW c, NEW p \in Nat, NEW b, NEW x, Structure(c, p, b, x), NEW d, NEW y, Passes(c, d, p, y), Turn(y) = 0
  PROVE  Structure(d, p + 1, b, x)
<1>1. /\ Listed(c) /\ Listed(b) /\ Listed(x) /\ Listed(d) /\ p \in 1 .. Len(c) + 1 /\ Len(b) = Level(c, p)
      /\ Len(c) \in Nat /\ Len(b) \in Nat /\ Len(d) \in Nat
  BY DEF Structure, BlocksIn, BoxesIn, Listed, Passes
<1>2. Level(d, p + 1) = Len(b) /\ p + 1 \in 1 .. Len(d) + 1
  BY <1>1 DEF Passes
<1>3. ASSUME NEW j \in 1 .. Len(b) PROVE b[j].type \in Blocks /\ \E q \in Nat : Began(d, p + 1, b, j, q)
  <2>1. PICK q \in Nat : Began(c, p, b, j, q) /\ b[j].type \in Blocks
    BY DEF Structure, BlocksIn
  <2>2. j \in Nat /\ Level(d, p + 1) >= j
    BY <1>1, <1>2
  <2>3. Began(d, p + 1, b, j, q)
    BY <1>1, <2>1, <2>2, BeganOn
  <2> QED
    BY <2>1, <2>3
<1>4. ASSUME NEW i \in 1 .. Len(x) PROVE IsBox(d, p + 1, b, x[i]) /\ Place(d, x[i]) = Place(c, x[i])
  <2>1. IsBox(c, p, b, x[i])
    BY DEF Structure, BoxesIn
  <2>2. Place(c, x[i]) \in 1 .. Len(b)
    BY <2>1 DEF IsBox
  <2>3. Level(d, p + 1) >= Place(c, x[i])
    BY <1>1, <1>2, <2>2
  <2> QED
    BY <1>1, <2>2, <2>3, BoxesOn
<1>5. BlocksIn(d, p + 1, b)
  BY <1>1, <1>2, <1>3 DEF BlocksIn
<1>6. BoxesIn(d, p + 1, b, x)
  BY <1>1, <1>4 DEF BoxesIn, Structure
<1> QED
  BY <1>5, <1>6 DEF Structure

\* A block that begins
LEMMA BlocksBegin ==
  ASSUME NEW c, NEW p \in Nat, NEW b, BlocksIn(c, p, b), NEW d, NEW y \in Blocks, Passes(c, d, p, y),
         NEW e, NEW z, Added(b, e, z), z.type = y
  PROVE  /\ BlocksIn(d, p + 1, e) /\ Len(e) = Len(b) + 1 /\ e[Len(e)] = z /\ \A j \in 1 .. Len(b) : e[j] = b[j]
         /\ Level(d, p + 1) = Len(e) /\ Began(d, p + 1, e, Len(e), p)
<1>1. /\ Listed(c) /\ Listed(b) /\ Listed(d) /\ p \in 1 .. Len(c) + 1 /\ Len(b) = Level(c, p)
      /\ Len(c) \in Nat /\ Len(b) \in Nat /\ Len(d) \in Nat /\ p \in Nat
  BY DEF BlocksIn, Listed, Passes
<1>2. Listed(e) /\ Len(e) = Len(b) + 1 /\ e[Len(b) + 1] = z /\ \A j \in 1 .. Len(b) : e[j] = b[j]
  BY DEF Added
<1>3. Level(d, p) = Len(b) /\ Level(d, p + 1) = Level(d, p) + Turn(y) /\ p \in 1 .. Len(d) /\ d[p] = y
  BY <1>1 DEF Passes
<1>4. Level(d, p + 1) = Len(b) + 1 /\ p + 1 \in 1 .. Len(d) + 1
  BY <1>1, <1>3 DEF Turn
<1>5. Began(d, p + 1, e, Len(e), p)
  <2>1. p \in 1 .. (p + 1) - 1 /\ Level(d, p) = Len(e) - 1 /\ d[p] = e[Len(e)].type
    BY <1>1, <1>2, <1>3
  <2>2. \A r \in p + 1 .. p + 1 : r = p + 1
    BY <1>1
  <2> QED
    BY <1>1, <1>2, <1>4, <2>1, <2>2 DEF Began
<1>6. ASSUME NEW j \in 1 .. Len(e) PROVE e[j].type \in Blocks /\ \E q \in Nat : Began(d, p + 1, e, j, q)
  <2>1. CASE j = Len(e)
    BY <1>1, <1>2, <1>5, <2>1
  <2>2. CASE j # Len(e)
    <3>1. j \in 1 .. Len(b) /\ j \in Nat
      BY <1>1, <1>2, <2>2
    <3>2. PICK q \in Nat : Began(c, p, b, j, q) /\ b[j].type \in Blocks
      BY <3>1 DEF BlocksIn
    <3>3. e[j] = b[j] /\ Level(d, p + 1) >= j
      BY <1>1, <1>2, <1>4, <3>1
    <3>4. Began(d, p + 1, e, j, q)
      BY <1>1, <3>1, <3>2, <3>3, BeganOn
    <3> QED
      BY <3>2, <3>3, <3>4
  <2> QED
    BY <2>1, <2>2
<1> QED
  BY <1>1, <1>2, <1>4, <1>5, <1>6 DEF BlocksIn

LEMMA StructureBegin ==
  ASSUME NEW c, NEW p \in Nat, NEW b, NEW x, Structure(c, p, b, x), NEW d, NEW y \in Blocks \ Boxy, Passes(c, d, p, y),
         NEW e, NEW z, Added(b, e, z), z.type = y
  PROVE  Structure(d, p + 1, e, x)
<1>1. /\ BlocksIn(d, p + 1, e) /\ Len(e) = Len(b) + 1 /\ e[Len(e)] = z /\ \A j \in 1 .. Len(b) : e[j] = b[j]
      /\ Level(d, p + 1) = Len(e) /\ Began(d, p + 1, e, Len(e), p)
  <2>1. BlocksIn(c, p, b)
    BY DEF Structure
  <2>2. y \in Blocks
    OBVIOUS
  <2> QED
    BY <2>1, <2>2, BlocksBegin
<1>2. Listed(c) /\ p \in 1 .. Len(c) + 1 /\ Len(b) \in Nat /\ Listed(x) /\ Listed(e)
  BY <1>1 DEF Structure, BlocksIn, BoxesIn, Listed
<1>3. ASSUME NEW i \in 1 .. Len(x) PROVE IsBox(d, p + 1, e, x[i]) /\ Place(d, x[i]) = Place(c, x[i])
  <2>1. IsBox(c, p, b, x[i])
    BY DEF Structure, BoxesIn
  <2>2. Place(c, x[i]) \in 1 .. Len(b)
    BY <2>1 DEF IsBox
  <2>3. Level(d, p + 1) >= Place(c, x[i]) /\ Place(c, x[i]) \in 1 .. Len(e) /\ e[Place(c, x[i])] = b[Place(c, x[i])]
    BY <1>1, <1>2, <2>2
  <2> QED
    BY <1>2, <2>3, BoxesOn
<1>4. ASSUME NEW j \in 1 .. Len(e), e[j].type \in Boxy PROVE \E i \in 1 .. Len(x) : Place(d, x[i]) = j
  <2>1. j # Len(e)
    BY <1>1, <1>4
  <2>2. j \in 1 .. Len(b) /\ b[j].type \in Boxy
    BY <1>1, <1>2, <1>4, <2>1
  <2> QED
    BY <1>3, <2>2 DEF Structure, BoxesIn
<1>5. BoxesIn(d, p + 1, e, x)
  BY <1>2, <1>3, <1>4 DEF BoxesIn, Structure
<1> QED
  BY <1>1, <1>5 DEF Structure

LEMMA StructureBeginBox ==
  ASSUME NEW c, NEW p \in Nat, NEW b, NEW x, Structure(c, p, b, x), NEW d, NEW y \in Boxy, Passes(c, d, p, y),
         NEW e, NEW z, Added(b, e, z), z.type = y, NEW w, w.at = p + 1, NEW n, Added(x, n, w)
  PROVE  /\ Structure(d, p + 1, e, n) /\ Place(d, w) = Len(b) + 1
<1>0. y \in Blocks
  BY DEF Boxy, Blocks
<1>1. /\ BlocksIn(d, p + 1, e) /\ Len(e) = Len(b) + 1 /\ e[Len(e)] = z /\ \A j \in 1 .. Len(b) : e[j] = b[j]
      /\ Level(d, p + 1) = Len(e) /\ Began(d, p + 1, e, Len(e), p)
  <2>1. BlocksIn(c, p, b)
    BY DEF Structure
  <2> QED
    BY <1>0, <2>1, BlocksBegin
<1>2. /\ Listed(c) /\ p \in 1 .. Len(c) + 1 /\ Len(b) \in Nat /\ Listed(x) /\ Listed(e) /\ Len(x) \in Nat
      /\ p \in Nat
  BY <1>1 DEF Structure, BlocksIn, BoxesIn, Listed
<1>3. Listed(n) /\ Len(n) = Len(x) + 1 /\ n[Len(x) + 1] = w /\ \A i \in 1 .. Len(x) : n[i] = x[i]
  BY DEF Added
<1>4. ASSUME NEW i \in 1 .. Len(x)
      PROVE  IsBox(d, p + 1, e, x[i]) /\ Place(d, x[i]) = Place(c, x[i]) /\ x[i].at < p + 1
  <2>1. IsBox(c, p, b, x[i])
    BY DEF Structure, BoxesIn
  <2>2. Place(c, x[i]) \in 1 .. Len(b) /\ x[i].at \in Nat /\ x[i].at - 1 \in 1 .. p - 1
    BY <2>1 DEF IsBox, Began
  <2>3. Level(d, p + 1) >= Place(c, x[i]) /\ Place(c, x[i]) \in 1 .. Len(e) /\ e[Place(c, x[i])] = b[Place(c, x[i])]
    BY <1>1, <1>2, <2>2
  <2>4. x[i].at < p + 1
    BY <1>2, <2>2
  <2> QED
    BY <1>2, <2>3, <2>4, BoxesOn
<1>5. IsBox(d, p + 1, e, w) /\ Place(d, w) = Len(e)
  <2>1. Place(d, w) = Len(e) /\ w.at \in Nat /\ w.at - 1 = p /\ Len(e) \in 1 .. Len(e)
    BY <1>1, <1>2 DEF Place
  <2> QED
    BY <1>1, <2>1 DEF IsBox
<1>6. ASSUME NEW j \in 1 .. Len(e), e[j].type \in Boxy PROVE \E i \in 1 .. Len(n) : Place(d, n[i]) = j
  <2>1. CASE j = Len(e)
    <3>1. Len(x) + 1 \in 1 .. Len(n)
      BY <1>2, <1>3
    <3> QED
      BY <1>3, <1>5, <2>1, <3>1
  <2>2. CASE j # Len(e)
    <3>1. j \in 1 .. Len(b) /\ b[j].type \in Boxy
      BY <1>1, <1>2, <1>6, <2>2
    <3>2. PICK i \in 1 .. Len(x) : Place(c, x[i]) = j
      BY <3>1 DEF Structure, BoxesIn
    <3>3. i \in 1 .. Len(n) /\ n[i] = x[i]
      BY <1>2, <1>3
    <3> QED
      BY <1>4, <3>2, <3>3
  <2> QED
    BY <2>1, <2>2
<1>7. ASSUME NEW i \in 1 .. Len(n)
      PROVE  IsBox(d, p + 1, e, n[i]) /\ \A h \in 1 .. i - 1 : n[h].at < n[i].at
  <2>1. CASE i = Len(x) + 1
    <3>1. \A h \in 1 .. i - 1 : h \in 1 .. Len(x) /\ n[h] = x[h]
      BY <1>2, <1>3, <2>1
    <3> QED
      BY <1>3, <1>4, <1>5, <2>1, <3>1
  <2>2. CASE i # Len(x) + 1
    <3>1. i \in 1 .. Len(x) /\ \A h \in 1 .. i - 1 : h \in 1 .. Len(x)
      BY <1>2, <1>3, <2>2
    <3>2. n[i] = x[i] /\ \A h \in 1 .. i - 1 : n[h] = x[h]
      BY <1>3, <3>1
    <3>3. \A h \in 1 .. i - 1 : x[h].at < x[i].at
      BY <3>1 DEF Structure, BoxesIn
    <3> QED
      BY <1>4, <3>1, <3>2, <3>3
  <2> QED
    BY <2>1, <2>2
<1>8. BoxesIn(d, p + 1, e, n)
  BY <1>3, <1>6, <1>7 DEF BoxesIn
<1> QED
  BY <1>1, <1>5, <1>8 DEF Structure

\* A block that ends
LEMMA BlocksEnd ==
  ASSUME NEW c, NEW p \in Nat, NEW b, BlocksIn(c, p, b), NEW d, Passes(c, d, p, "end"), NEW e, Taken(b, e)
  PROVE  BlocksIn(d, p + 1, e) /\ Level(d, p + 1) = Len(e)
<1>1. /\ Listed(c) /\ Listed(e) /\ Listed(d) /\ p \in 1 .. Len(c) + 1 /\ Len(b) = Level(c, p)
      /\ Len(c) \in Nat /\ Len(b) \in Nat \ {0} /\ Len(d) \in Nat /\ Len(e) = Len(b) - 1
      /\ \A j \in 1 .. Len(b) - 1 : e[j] = b[j]
  BY DEF BlocksIn, Listed, Passes, Taken
<1>2. Level(d, p) = Len(b) /\ Level(d, p + 1) = Level(d, p) + Turn("end") /\ p + 1 \in 1 .. Len(d) + 1
  BY <1>1 DEF Passes
<1>3. Level(d, p + 1) = Len(e)
  BY <1>1, <1>2 DEF Turn, Blocks
<1>4. ASSUME NEW j \in 1 .. Len(e) PROVE e[j].type \in Blocks /\ \E q \in Nat : Began(d, p + 1, e, j, q)
  <2>1. j \in 1 .. Len(b) /\ j \in Nat /\ e[j] = b[j] /\ Level(d, p + 1) >= j
    BY <1>1, <1>3
  <2>2. PICK q \in Nat : Began(c, p, b, j, q) /\ b[j].type \in Blocks
    BY <2>1 DEF BlocksIn
  <2>3. Began(d, p + 1, e, j, q)
    BY <1>1, <2>1, <2>2, BeganOn
  <2> QED
    BY <2>1, <2>2, <2>3
<1> QED
  BY <1>1, <1>2, <1>3, <1>4 DEF BlocksIn

LEMMA StructureEnd ==
  ASSUME NEW c, NEW p \in Nat, NEW b, NEW x, Structure(c, p, b, x), NEW d, Passes(c, d, p, "end"),
         NEW e, Taken(b, e), b[Len(b)].type \notin Boxy
  PROVE  Structure(d, p + 1, e, x)
<1>1. BlocksIn(d, p + 1, e) /\ Level(d, p + 1) = Len(e)
  <2>1. BlocksIn(c, p, b)
    BY DEF Structure
  <2> QED
    BY <2>1, BlocksEnd
<1>2. /\ Listed(e) /\ Listed(x) /\ Len(b) \in Nat \ {0} /\ Len(e) = Len(b) - 1
      /\ \A j \in 1 .. Len(b) - 1 : e[j] = b[j]
  BY DEF Structure, BoxesIn, Taken
<1>3. ASSUME NEW i \in 1 .. Len(x) PROVE IsBox(d, p + 1, e, x[i]) /\ Place(d, x[i]) = Place(c, x[i])
  <2>1. IsBox(c, p, b, x[i])
    BY DEF Structure, BoxesIn
  <2>2. Place(c, x[i]) \in 1 .. Len(b) /\ Place(c, x[i]) # Len(b)
    BY <2>1 DEF IsBox
  <2>3. Level(d, p + 1) >= Place(c, x[i]) /\ Place(c, x[i]) \in 1 .. Len(e) /\ e[Place(c, x[i])] = b[Place(c, x[i])]
    BY <1>1, <1>2, <2>2
  <2> QED
    BY <1>2, <2>3, BoxesOn
<1>4. ASSUME NEW j \in 1 .. Len(e), e[j].type \in Boxy PROVE \E i \in 1 .. Len(x) : Place(d, x[i]) = j
  <2>1. j \in 1 .. Len(b) /\ b[j].type \in Boxy
    BY <1>2, <1>4
  <2> QED
    BY <1>3, <2>1 DEF Structure, BoxesIn
<1>5. BoxesIn(d, p + 1, e, x)
  BY <1>2, <1>3, <1>4 DEF BoxesIn, Structure
<1> QED
  BY <1>1, <1>5 DEF Structure

LEMMA StructureEndBox ==
  ASSUME NEW c, NEW p \in Nat, NEW b, NEW x, Structure(c, p, b, x), NEW d, Passes(c, d, p, "end"),
         NEW e, Taken(b, e), b[Len(b)].type \in Boxy, NEW n, Taken(x, n)
  PROVE  Structure(d, p + 1, e, n)
<1>1. BlocksIn(d, p + 1, e) /\ Level(d, p + 1) = Len(e)
  <2>1. BlocksIn(c, p, b)
    BY DEF Structure
  <2> QED
    BY <2>1, BlocksEnd
<1>2. /\ Listed(e) /\ Listed(x) /\ Listed(n) /\ Len(b) \in Nat \ {0} /\ Len(e) = Len(b) - 1
      /\ \A j \in 1 .. Len(b) - 1 : e[j] = b[j]
      /\ Len(x) \in Nat \ {0} /\ Len(n) = Len(x) - 1 /\ \A i \in 1 .. Len(x) - 1 : n[i] = x[i]
  BY DEF Structure, BoxesIn, Taken
<1>n. b # <<>>
  <2>1. Listed(b)
    BY DEF Taken
  <2>2. b = <<>> => Len(b) = 0
    OBVIOUS
  <2> QED
    BY <1>2, <2>2
<1>3. /\ Place(c, x[Len(x)]) = Len(b)
      /\ \A i \in 1 .. Len(x) : Place(c, x[i]) = Len(b) => i = Len(x)
  <2>1. LastFits(c, b, x)
    BY <1>n, LastBox
  <2> QED
    BY <2>1 DEF LastFits
<1>4. ASSUME NEW i \in 1 .. Len(n)
      PROVE  /\ i \in 1 .. Len(x) /\ n[i] = x[i] /\ IsBox(d, p + 1, e, x[i]) /\ Place(d, x[i]) = Place(c, x[i])
  <2>1. i \in 1 .. Len(x) /\ n[i] = x[i] /\ i # Len(x)
    BY <1>2
  <2>2. IsBox(c, p, b, x[i])
    BY <2>1 DEF Structure, BoxesIn
  <2>3. Place(c, x[i]) \in 1 .. Len(b) /\ Place(c, x[i]) # Len(b)
    BY <1>3, <2>1, <2>2 DEF IsBox
  <2>4. Level(d, p + 1) >= Place(c, x[i]) /\ Place(c, x[i]) \in 1 .. Len(e) /\ e[Place(c, x[i])] = b[Place(c, x[i])]
    BY <1>1, <1>2, <2>3
  <2>5. IsBox(d, p + 1, e, x[i]) /\ Place(d, x[i]) = Place(c, x[i])
    BY <1>2, <2>1, <2>4, BoxesOn
  <2> QED
    BY <2>1, <2>5
<1>5. ASSUME NEW j \in 1 .. Len(e), e[j].type \in Boxy PROVE \E i \in 1 .. Len(n) : Place(d, n[i]) = j
  <2>1. j \in 1 .. Len(b) /\ b[j].type \in Boxy /\ j # Len(b)
    BY <1>2, <1>5
  <2>2. PICK i \in 1 .. Len(x) : Place(c, x[i]) = j
    BY <2>1 DEF Structure, BoxesIn
  <2>3. i # Len(x)
    BY <1>3, <2>1, <2>2
  <2>4. i \in 1 .. Len(n)
    BY <1>2, <2>3
  <2>5. Place(d, n[i]) = j
    BY <1>4, <2>2, <2>4
  <2> QED
    BY <2>4, <2>5
<1>6. ASSUME NEW i \in 1 .. Len(n), NEW h \in 1 .. i - 1 PROVE n[h].at < n[i].at
  <2>1. i \in 1 .. Len(x) /\ h \in 1 .. Len(x) /\ h \in 1 .. Len(n) /\ n[i] = x[i] /\ n[h] = x[h]
    BY <1>2
  <2> QED
    BY <2>1 DEF Structure, BoxesIn
<1>7. BoxesIn(d, p + 1, e, n)
  BY <1>2, <1>4, <1>5, <1>6 DEF BoxesIn
<1> QED
  BY <1>1, <1>7 DEF Structure

\* The first pass of a filled box ends, and execution goes back.
LEMMA StructureBack ==
  ASSUME NEW c, NEW p \in Nat, NEW b, NEW x, Structure(c, p, b, x), NEW d, Passes(c, d, p, "end"),
         b # <<>>, b[Len(b)].type \in Boxy, NEW n, Listed(n), Len(n) = Len(x),
         \A i \in 1 .. Len(x) : n[i].at = x[i].at
  PROVE  Structure(d, x[Len(x)].at, b, n)
<1>1. /\ Len(b) \in Nat \ {0} /\ Len(x) \in Nat \ {0} /\ Place(c, x[Len(x)]) = Len(b)
  <2>1. LastFits(c, b, x)
    BY LastBox
  <2> QED
    BY <2>1 DEF LastFits
<1>2. PICK at : at = x[Len(x)].at
  OBVIOUS
<1>3. /\ Listed(c) /\ Listed(b) /\ Listed(d) /\ p \in 1 .. Len(c) + 1 /\ Len(c) \in Nat /\ Len(c) <= Len(d) /\ Len(d) \in Nat
  BY DEF Structure, BlocksIn, BoxesIn, Listed, Passes
<1>4. /\ at \in Nat /\ at - 1 \in 1 .. p - 1 /\ Level(c, at - 1) = Len(b) - 1
      /\ (\A r \in (at - 1) + 1 .. p : Level(c, r) >= Len(b)) /\ Level(c, at) = Len(b)
  <2>1. Len(x) \in 1 .. Len(x)
    BY <1>1
  <2>2. IsBox(c, p, b, x[Len(x)])
    BY <2>1 DEF Structure, BoxesIn
  <2> QED
    BY <1>1, <1>2, <2>2 DEF IsBox, Began, Place
<1>5. at \in 2 .. p
  BY <1>4
<1>6. \A r \in 1 .. p : Level(d, r) = Level(c, r) /\ r \in Nat
  <2>1. \A r \in 1 .. p : r \in 1 .. Len(c) + 1
    BY <1>3
  <2> QED
    BY <2>1 DEF Passes
<1>7. \A q \in 1 .. p - 1 : d[q] = c[q]
  <2>1. \A q \in 1 .. p - 1 : q \in 1 .. Len(c)
    BY <1>3
  <2> QED
    BY <2>1 DEF Passes
<1>8. ASSUME NEW j \in 1 .. Len(b), NEW q \in Nat, Began(c, p, b, j, q), q < at
      PROVE  Began(d, at, b, j, q)
  <2>1. q \in 1 .. p - 1 /\ c[q] = b[j].type /\ Level(c, q) = j - 1 /\ \A r \in q + 1 .. p : Level(c, r) >= j
    BY <1>8 DEF Began
  <2>2. q \in 1 .. at - 1 /\ q \in 1 .. p
    BY <1>4, <1>8, <2>1
  <2>3. \A r \in q + 1 .. at : r \in q + 1 .. p /\ r \in 1 .. p
    BY <1>5, <2>1
  <2>4. \A r \in q + 1 .. at : Level(d, r) >= j
    BY <1>6, <2>1, <2>3
  <2> QED
    BY <1>6, <1>7, <2>1, <2>2, <2>4 DEF Began
<1>9. ASSUME NEW j \in 1 .. Len(b) PROVE b[j].type \in Blocks /\ \E q \in Nat : Began(d, at, b, j, q)
  <2>1. PICK q \in Nat : Began(c, p, b, j, q) /\ b[j].type \in Blocks
    BY DEF Structure, BlocksIn
  <2>2. q < at
    <3> SUFFICES ASSUME q >= at PROVE FALSE
      BY <1>4
    <3>1. q \in 1 .. p - 1 /\ Level(c, q) = j - 1
      BY <2>1 DEF Began
    <3>2. q \in (at - 1) + 1 .. p
      BY <1>4, <3>1
    <3>3. j - 1 >= Len(b)
      BY <1>4, <3>1, <3>2
    <3> QED
      BY <1>1, <3>3
  <2> QED
    BY <1>8, <2>1, <2>2
<1>10. Len(b) = Level(d, at) /\ at \in 1 .. Len(d) + 1
  <2>1. at \in 1 .. p
    BY <1>5
  <2> QED
    BY <1>3, <1>4, <1>6, <2>1
<1>11. BlocksIn(d, at, b)
  BY <1>3, <1>9, <1>10 DEF BlocksIn
<1>12. ASSUME NEW i \in 1 .. Len(x) PROVE IsBox(d, at, b, n[i]) /\ Place(d, n[i]) = Place(c, x[i])
  <2>1. IsBox(c, p, b, x[i])
    BY DEF Structure, BoxesIn
  <2>2. PICK k : k = Place(c, x[i])
    OBVIOUS
  <2>3. x[i].at \in Nat /\ k \in 1 .. Len(b) /\ b[k].type \in Boxy /\ Began(c, p, b, k, x[i].at - 1)
    BY <2>1, <2>2 DEF IsBox
  <2>4. x[i].at - 1 \in 1 .. p - 1
    BY <2>3 DEF Began
  <2>5. x[i].at <= at
    <3>1. CASE i = Len(x)
      BY <1>2, <1>4, <3>1
    <3>2. CASE i # Len(x)
      <4>1. i \in 1 .. Len(x) - 1 /\ Len(x) \in 1 .. Len(x)
        BY <1>1, <3>2
      <4>2. x[i].at < at
        BY <1>2, <4>1 DEF Structure, BoxesIn
      <4> QED
        BY <1>4, <2>3, <4>2
    <3> QED
      BY <3>1, <3>2
  <2>6. x[i].at - 1 \in Nat /\ x[i].at - 1 < at
    BY <1>4, <2>3, <2>4, <2>5
  <2>7. Began(d, at, b, k, x[i].at - 1)
    BY <1>8, <2>3, <2>6
  <2>8. Place(d, n[i]) = k
    <3>1. x[i].at \in 1 .. p /\ n[i].at = x[i].at
      BY <2>3, <2>4
    <3> QED
      BY <1>6, <2>2, <3>1 DEF Place
  <2> QED
    BY <2>2, <2>3, <2>7, <2>8 DEF IsBox
<1>13. BoxesIn(d, at, b, n)
  <2>1. \A i \in 1 .. Len(n) : \A h \in 1 .. i - 1 : n[h].at < n[i].at
    <3> TAKE i \in 1 .. Len(n)
    <3> TAKE h \in 1 .. i - 1
    <3>1. h \in 1 .. Len(x) /\ i \in 1 .. Len(x)
      BY <1>1
    <3>2. x[h].at < x[i].at
      BY <3>1 DEF Structure, BoxesIn
    <3> QED
      BY <3>1, <3>2
  <2>2. \A j \in 1 .. Len(b) : b[j].type \in Boxy => \E i \in 1 .. Len(n) : Place(d, n[i]) = j
    BY <1>12 DEF Structure, BoxesIn
  <2> QED
    BY <1>12, <2>1, <2>2 DEF BoxesIn
<1> QED
  BY <1>2, <1>11, <1>13 DEF Structure
-----------------------------------------------------------------------------
(* Whether the device has the attributes GLE reckons with.  In a second pass *)
(* it may not, until a command sets the attribute, before the box ends.      *)

Running(z) == z.device /\ ~ z.second

Sets(c, a, p) == c[p] \in DOMAIN Settings /\ Settings[c[p]][1] = a
SetIn(c, a, p, q) == \E r \in p .. q : Sets(c, a, r)
\* The block of the box ends at e.
EndsAt(c, z, e) ==
  /\ c[e] = "end" /\ Level(c, e) = Place(c, z)
  /\ \A r \in z.at .. e : Level(c, r) >= Place(c, z)
\* From p on, a is set before the end of a box that is in its second pass.
ToCome(c, x, a, p) ==
  \E i \in 1 .. Len(x) : /\ x[i].second
                         /\ \E e \in p .. Len(c) : EndsAt(c, x[i], e) /\ SetIn(c, a, p, e - 1)

AgreeFrom(c, p, x, g0, d0) ==
  /\ \A a \in Pen : d0[a] = g0[a] \/ ToCome(c, x, a, p)
  /\ d0.fill = g0.fill /\ d0.image = g0.image
\* Of a first pass it is what was before it that the device has.
Agree(c, p, x, g0, d0, r) ==
  /\ r => AgreeFrom(c, p, x, g0, d0)
  /\ \A i \in 1 .. Len(x) : Running(x[i]) => AgreeFrom(c, x[i].at, x, x[i].was, d0)

\* Only one box is in its first pass, with only plain boxes in it, and no device is
\* drawn on meanwhile.
IsRecord(z) ==
  z = [origin |-> z.origin, bounds |-> z.bounds, filled |-> z.filled, device |-> z.device,
       second |-> z.second, at |-> z.at, was |-> z.was]
Runs(x, r) ==
  /\ r \in BOOLEAN
  /\ \A i \in 1 .. Len(x) : IsRecord(x[i])
  /\ \A i \in 1 .. Len(x) : x[i].second => x[i].device
  /\ r => \A i \in 1 .. Len(x) : ~ Running(x[i])
  /\ ~ r => \E i \in 1 .. Len(x) : Running(x[i])
  /\ \A i \in 1 .. Len(x) : Running(x[i]) => \A h \in i + 1 .. Len(x) : ~ x[h].device

LEMMA ToComeKept ==
  ASSUME NEW c, NEW p \in Nat, NEW b, NEW x, Structure(c, p, b, x), NEW k, NEW y, Passes(c, k, p, y),
         NEW a, NEW q \in Nat \ {0}, ToCome(c, x, a, q)
  PROVE  ToCome(k, x, a, q)
<1>1. Listed(c) /\ Len(c) \in Nat /\ p \in 1 .. Len(c) + 1 /\ Len(k) \in Nat /\ Len(c) <= Len(k)
  BY DEF Structure, BlocksIn, Listed, Passes
<1>2. PICK i \in 1 .. Len(x), e \in q .. Len(c) : x[i].second /\ EndsAt(c, x[i], e) /\ SetIn(c, a, q, e - 1)
  BY DEF ToCome
<1>3. PICK at : at = x[i].at
  OBVIOUS
<1>4. at \in 2 .. p /\ Place(k, x[i]) = Place(c, x[i])
  <2>1. PlacesStay(c, k, p, b, x)
    BY PlaceOn
  <2> QED
    BY <1>3, <2>1 DEF PlacesStay
<1>5. e \in Nat /\ e \in 1 .. Len(c) /\ e \in q .. Len(k)
  BY <1>1
<1>6. \A r \in 1 .. Len(c) : k[r] = c[r] /\ Level(k, r) = Level(c, r)
  BY <1>1 DEF Passes
<1>7. EndsAt(k, x[i], e)
  <2>1. \A r \in at .. e : r \in 1 .. Len(c)
    BY <1>4, <1>5
  <2>2. \A r \in x[i].at .. e : Level(c, r) >= Place(c, x[i]) /\ Level(k, r) = Level(c, r)
    BY <1>2, <1>3, <1>6, <2>1 DEF EndsAt
  <2> QED
    BY <1>2, <1>4, <1>5, <1>6, <2>2 DEF EndsAt
<1>8. SetIn(k, a, q, e - 1)
  <2>1. \A r \in q .. e - 1 : r \in 1 .. Len(c)
    BY <1>1, <1>5
  <2>2. PICK r \in q .. e - 1 : Sets(c, a, r)
    BY <1>2 DEF SetIn
  <2>3. Sets(k, a, r)
    BY <1>6, <2>1, <2>2 DEF Sets
  <2> QED
    BY <2>2, <2>3 DEF SetIn
<1> QED
  BY <1>2, <1>5, <1>7, <1>8 DEF ToCome

\* A command that does not set the attribute has been passed.
LEMMA ToComeOn ==
  ASSUME NEW c, NEW p \in Nat, NEW b, NEW x, Structure(c, p, b, x), NEW k, NEW y, Passes(c, k, p, y),
         NEW a, ToCome(c, x, a, p), ~ Sets(k, a, p)
  PROVE  ToCome(k, x, a, p + 1)
<1>1. Listed(c) /\ Len(c) \in Nat /\ p \in 1 .. Len(c) + 1
  BY DEF Structure, BlocksIn, Listed
<1>2. ToCome(k, x, a, p)
  BY <1>1, ToComeKept
<1>3. PICK i \in 1 .. Len(x), e \in p .. Len(k) : x[i].second /\ EndsAt(k, x[i], e) /\ SetIn(k, a, p, e - 1)
  BY <1>2 DEF ToCome
<1>4. PICK r \in p .. e - 1 : Sets(k, a, r)
  BY <1>3 DEF SetIn
<1>5. r # p /\ e \in Int /\ r \in Int
  BY <1>4
<1>6. r \in p + 1 .. e - 1 /\ e \in p + 1 .. Len(k)
  BY <1>4, <1>5
<1>7. SetIn(k, a, p + 1, e - 1)
  BY <1>4, <1>6 DEF SetIn
<1> QED
  BY <1>3, <1>6, <1>7 DEF ToCome

\* More boxes in their second passes
LEMMA ToComeMore ==
  ASSUME NEW c, NEW x, NEW n, NEW a, NEW p, ToCome(c, x, a, p),
         \A i \in 1 .. Len(x) : x[i].second => i \in 1 .. Len(n) /\ n[i].second /\ n[i].at = x[i].at
  PROVE  ToCome(c, n, a, p)
<1>1. PICK i \in 1 .. Len(x), e \in p .. Len(c) : x[i].second /\ EndsAt(c, x[i], e) /\ SetIn(c, a, p, e - 1)
  BY DEF ToCome
<1>2. i \in 1 .. Len(n) /\ n[i].second /\ n[i].at = x[i].at
  BY <1>1
<1>3. EndsAt(c, n[i], e)
  BY <1>1, <1>2 DEF EndsAt, Place
<1> QED
  BY <1>1, <1>2, <1>3 DEF ToCome

\* A box that has ended
LEMMA ToComePop ==
  ASSUME NEW c, NEW p \in Nat, NEW b, NEW x, Structure(c, p, b, x), NEW k, Passes(c, k, p, "end"),
         b # <<>>, b[Len(b)].type \in Boxy, NEW n, Taken(x, n), NEW a, ToCome(k, x, a, p + 1)
  PROVE  ToCome(k, n, a, p + 1)
<1>1. /\ Len(b) \in Nat \ {0} /\ Len(x) \in Nat \ {0} /\ Place(c, x[Len(x)]) = Len(b)
  <2>1. LastFits(c, b, x)
    BY LastBox
  <2> QED
    BY <2>1 DEF LastFits
<1>2. PICK i \in 1 .. Len(x), e \in p + 1 .. Len(k) : x[i].second /\ EndsAt(k, x[i], e) /\ SetIn(k, a, p + 1, e - 1)
  BY DEF ToCome
<1>3. i # Len(x)
  <2> SUFFICES ASSUME i = Len(x) PROVE FALSE
    OBVIOUS
  <2>1. PICK at : at = x[i].at
    OBVIOUS
  <2>2. at \in 2 .. p /\ Place(k, x[i]) = Len(b)
    <3>1. PlacesStay(c, k, p, b, x)
      BY PlaceOn
    <3> QED
      BY <1>1, <2>1, <3>1 DEF PlacesStay
  <2>3. p + 1 \in at .. e
    BY <2>2
  <2>4. Level(k, p + 1) >= Len(b)
    BY <1>2, <2>1, <2>2, <2>3 DEF EndsAt
  <2>5. Level(k, p + 1) = Level(k, p) + Turn("end") /\ Level(k, p) = Level(c, p) /\ Level(c, p) = Len(b)
    <3>1. p \in 1 .. Len(c) + 1
      BY DEF Structure, BlocksIn
    <3> QED
      BY <3>1 DEF Structure, BlocksIn, Passes
  <2> QED
    BY <1>1, <2>4, <2>5 DEF Turn, Blocks
<1>4. i \in 1 .. Len(n) /\ n[i] = x[i]
  BY <1>1, <1>3 DEF Taken
<1> QED
  BY <1>2, <1>4 DEF ToCome

\* A step that leaves the boxes
LEMMA AgreeStep ==
  ASSUME NEW c, NEW p \in Nat, NEW b, NEW x, Structure(c, p, b, x), NEW k, NEW y, Passes(c, k, p, y),
         NEW g0, NEW d0, NEW r, Agree(c, p, x, g0, d0, r), Runs(x, r), NEW g1, NEW d1,
         r => /\ \A a \in Pen : d1[a] = g1[a] \/ (g1[a] = g0[a] /\ d1[a] = d0[a] /\ ~ Sets(k, a, p))
              /\ d0.fill = g0.fill => d1.fill = g1.fill
              /\ d0.image = g0.image => d1.image = g1.image,
         ~ r => \A a \in Pen \cup {"fill", "image"} : d1[a] = d0[a]
  PROVE  Agree(k, p + 1, x, g1, d1, r)
<1>1. ASSUME r PROVE AgreeFrom(k, p + 1, x, g1, d1)
  <2>1. AgreeFrom(c, p, x, g0, d0)
    BY <1>1 DEF Agree
  <2>2. ASSUME NEW a \in Pen PROVE d1[a] = g1[a] \/ ToCome(k, x, a, p + 1)
    <3>1. CASE d1[a] = g1[a]
      BY <3>1
    <3>2. CASE g1[a] = g0[a] /\ d1[a] = d0[a] /\ ~ Sets(k, a, p)
      <4>1. ToCome(c, x, a, p) => ToCome(k, x, a, p + 1)
        BY <3>2, ToComeOn
      <4> QED
        BY <2>1, <3>2, <4>1 DEF AgreeFrom
    <3> QED
      BY <1>1, <3>1, <3>2
  <2> QED
    BY <1>1, <2>1, <2>2 DEF AgreeFrom
<1>2. ASSUME NEW i \in 1 .. Len(x), Running(x[i]) PROVE AgreeFrom(k, x[i].at, x, x[i].was, d1)
  <2>1. ~ r
    BY <1>2 DEF Runs
  <2>2. AgreeFrom(c, x[i].at, x, x[i].was, d0)
    BY <1>2 DEF Agree
  <2>3. PICK at : at = x[i].at
    OBVIOUS
  <2>4. at \in Nat \ {0}
    <3>1. PlacesStay(c, k, p, b, x)
      BY PlaceOn
    <3>2. at \in 2 .. p
      BY <2>3, <3>1 DEF PlacesStay
    <3> QED
      BY <3>2
  <2>5. \A a : ToCome(c, x, a, at) => ToCome(k, x, a, at)
    BY <2>4, ToComeKept
  <2>6. \A a \in Pen \cup {"fill", "image"} : d1[a] = d0[a]
    BY <2>1
  <2>7. d1.fill = d0.fill /\ d1.image = d0.image /\ \A a \in Pen : d1[a] = d0[a]
    BY <2>6
  <2> QED
    BY <2>2, <2>3, <2>5, <2>7 DEF AgreeFrom
<1> QED
  BY <1>1, <1>2 DEF Agree

\* A box that begins, whose content has the device or has none
LEMMA AgreeBox ==
  ASSUME NEW c, NEW p, NEW x, NEW g1, NEW d1, NEW r, Agree(c, p, x, g1, d1, r), Runs(x, r),
         NEW n, NEW w, Added(x, n, w), w.at = p, ~ w.second, NEW s, s => r, w.device => r,
         \A a \in Pen \cup {"fill", "image"} : (w.was)[a] = g1[a]
  PROVE  Agree(c, p, n, g1, d1, s)
<1>1. Len(x) \in Nat /\ Len(n) = Len(x) + 1 /\ n[Len(x) + 1] = w /\ \A i \in 1 .. Len(x) : i \in 1 .. Len(n) /\ n[i] = x[i]
  BY DEF Added, Listed
<1>2. \A a, q : ToCome(c, x, a, q) => ToCome(c, n, a, q)
  <2> TAKE a, q
  <2>1. \A i \in 1 .. Len(x) : i \in 1 .. Len(n) /\ n[i] = x[i]
    BY <1>1
  <2> QED
    BY <2>1, ToComeMore
<1>3. \A q, g2 : AgreeFrom(c, q, x, g2, d1) => AgreeFrom(c, q, n, g2, d1)
  BY <1>2 DEF AgreeFrom
<1>4. s => AgreeFrom(c, p, n, g1, d1)
  BY <1>3 DEF Agree
<1>5. ASSUME NEW i \in 1 .. Len(n), Running(n[i]) PROVE AgreeFrom(c, n[i].at, n, n[i].was, d1)
  <2>1. CASE i \in 1 .. Len(x)
    <3>1. n[i] = x[i]
      BY <1>1, <2>1
    <3>2. AgreeFrom(c, x[i].at, x, x[i].was, d1)
      BY <1>5, <2>1, <3>1 DEF Agree
    <3> QED
      BY <1>3, <3>1, <3>2
  <2>2. CASE i \notin 1 .. Len(x)
    <3>1. i = Len(x) + 1
      BY <1>1, <2>2
    <3>2. n[i] = w /\ r
      BY <1>1, <1>5, <3>1 DEF Running
    <3>3. AgreeFrom(c, p, n, g1, d1)
      BY <1>3, <3>2 DEF Agree
    <3>4. AgreeFrom(c, p, n, w.was, d1)
      BY <3>3 DEF AgreeFrom
    <3> QED
      BY <3>2, <3>4
  <2> QED
    BY <2>1, <2>2
<1> QED
  BY <1>4, <1>5 DEF Agree

\* A box that ends
LEMMA AgreePop ==
  ASSUME NEW c, NEW p \in Nat, NEW b, NEW x, Structure(c, p, b, x), NEW k, Passes(c, k, p, "end"),
         b # <<>>, b[Len(b)].type \in Boxy, NEW n, Taken(x, n),
         NEW r, Runs(x, r), NEW g1, NEW d1, Agree(k, p + 1, x, g1, d1, r)
  PROVE  Agree(k, p + 1, n, g1, d1, r)
<1>1. /\ Len(x) \in Nat \ {0} /\ Len(n) = Len(x) - 1
      /\ \A i \in 1 .. Len(n) : i \in 1 .. Len(x) /\ n[i] = x[i]
  BY DEF Taken
<1>s. \A j \in 1 .. Len(x) : j # Len(x) => j \in 1 .. Len(n)
  BY <1>1
<1>2. \A a : ToCome(k, x, a, p + 1) => ToCome(k, n, a, p + 1)
  BY ToComePop
<1>3. r => AgreeFrom(k, p + 1, n, g1, d1)
  BY <1>2 DEF Agree, AgreeFrom
<1>4. ASSUME NEW i \in 1 .. Len(n), Running(n[i]) PROVE AgreeFrom(k, n[i].at, n, n[i].was, d1)
  <2>1. i \in 1 .. Len(x) /\ n[i] = x[i] /\ Len(x) \in i + 1 .. Len(x)
    BY <1>1
  <2>2. ~ x[Len(x)].second
    <3>1. i \in 1 .. Len(x) /\ Len(x) \in 1 .. Len(x) /\ i # Len(x) /\ Running(x[i]) /\ i < Len(x)
      BY <1>4, <1>1, <2>1
    <3>2. ~ x[Len(x)].device
      BY <3>1 DEF Runs
    <3> QED
      BY <3>1, <3>2 DEF Runs
  <2>3. \A j \in 1 .. Len(x) : x[j].second => j \in 1 .. Len(n) /\ n[j] = x[j]
    BY <1>1, <1>s, <2>2
  <2>4. AgreeFrom(k, x[i].at, x, x[i].was, d1)
    BY <1>4, <2>1 DEF Agree
  <2>5. \A a, q : ToCome(k, x, a, q) => ToCome(k, n, a, q)
    BY <2>3, ToComeMore
  <2> QED
    BY <2>1, <2>4, <2>5 DEF AgreeFrom
<1> QED
  BY <1>3, <1>4 DEF Agree

-----------------------------------------------------------------------------
(* What has changed since a box began its first pass, it also sets.         *)

Since(c, p, z, m) == \A a \in Pen : m[a] = (z.was)[a] \/ SetIn(c, a, z.at, p - 1)
Changed(c, p, b, x, gs, g0) ==
  \A i \in 1 .. Len(x) : Running(x[i]) =>
    /\ Since(c, p, x[i], g0)
    /\ \A m \in b[Place(c, x[i])].depth + 1 .. Len(gs) : Since(c, p, x[i], gs[m])

LEMMA SinceOn ==
  ASSUME NEW c, NEW p \in Nat, NEW b, NEW x, Structure(c, p, b, x), NEW k, NEW y, Passes(c, k, p, y),
         NEW i \in 1 .. Len(x), NEW m, Since(c, p, x[i], m), NEW m1,
         \A a \in Pen : m1[a] = m[a] \/ Sets(k, a, p)
  PROVE  Since(k, p + 1, x[i], m1)
<1>1. Listed(c) /\ Len(c) \in Nat /\ p \in 1 .. Len(c) + 1
  BY DEF Structure, BlocksIn, Listed
<1>2. PICK at : at = x[i].at
  OBVIOUS
<1>3. at \in 2 .. p
  <2>1. PlacesStay(c, k, p, b, x)
    BY PlaceOn
  <2> QED
    BY <1>2, <2>1 DEF PlacesStay
<1>4. (p + 1) - 1 = p
  OBVIOUS
<1>5. ASSUME NEW a \in Pen PROVE m1[a] = (x[i].was)[a] \/ SetIn(k, a, at, p)
  <2>1. CASE Sets(k, a, p)
    <3>1. p \in at .. p
      BY <1>3
    <3> QED
      BY <2>1, <3>1 DEF SetIn
  <2>2. CASE m1[a] = m[a]
    <3>1. CASE m[a] = (x[i].was)[a]
      BY <2>2, <3>1
    <3>2. CASE SetIn(c, a, at, p - 1)
      <4>1. PICK r \in at .. p - 1 : Sets(c, a, r)
        BY <3>2 DEF SetIn
      <4>2. r \in 1 .. Len(c) /\ r \in at .. p
        BY <1>1, <1>3
      <4>3. Sets(k, a, r)
        BY <4>1, <4>2 DEF Passes, Sets
      <4> QED
        BY <4>2, <4>3 DEF SetIn
    <3> QED
      BY <1>2, <3>1, <3>2 DEF Since
  <2> QED
    BY <2>1, <2>2
<1> QED
  BY <1>2, <1>4, <1>5 DEF Since

\* Attributes are set, kept, saved or come back.
Steady(c, p, b, x, k, gs, g0, e, hs, g1) ==
  \A i \in 1 .. Len(x) : Running(x[i]) =>
    /\ e[Place(c, x[i])].depth = b[Place(c, x[i])].depth
    /\ \/ \A a \in Pen : g1[a] = g0[a] \/ Sets(k, a, p)
       \/ \E m \in b[Place(c, x[i])].depth + 1 .. Len(gs) : \A a \in Pen : g1[a] = gs[m][a]
    /\ \A m \in b[Place(c, x[i])].depth + 1 .. Len(hs) :
         \/ m \in 1 .. Len(gs) /\ hs[m] = gs[m]
         \/ \A a \in Pen : hs[m][a] = g0[a]

\* A step that leaves the boxes
LEMMA ChangedStep ==
  ASSUME NEW c, NEW p \in Nat, NEW b, NEW x, Structure(c, p, b, x), NEW k, NEW y, Passes(c, k, p, y),
         NEW gs, NEW g0, Changed(c, p, b, x, gs, g0), NEW e, NEW hs, NEW g1, Len(gs) \in Nat, Len(hs) \in Nat,
         Steady(c, p, b, x, k, gs, g0, e, hs, g1)
  PROVE  Changed(k, p + 1, e, x, hs, g1)
<1> SUFFICES ASSUME NEW i \in 1 .. Len(x), Running(x[i])
             PROVE  /\ Since(k, p + 1, x[i], g1)
                    /\ \A m \in e[Place(k, x[i])].depth + 1 .. Len(hs) : Since(k, p + 1, x[i], hs[m])
  BY DEF Changed
<1>s. /\ e[Place(c, x[i])].depth = b[Place(c, x[i])].depth
      /\ \/ \A a \in Pen : g1[a] = g0[a] \/ Sets(k, a, p)
         \/ \E m \in b[Place(c, x[i])].depth + 1 .. Len(gs) : \A a \in Pen : g1[a] = gs[m][a]
      /\ \A m \in b[Place(c, x[i])].depth + 1 .. Len(hs) :
           \/ m \in 1 .. Len(gs) /\ hs[m] = gs[m]
           \/ \A a \in Pen : hs[m][a] = g0[a]
  BY DEF Steady
<1>1. PICK j : j = Place(c, x[i])
  OBVIOUS
<1>2. Place(k, x[i]) = j
  <2>1. PlacesStay(c, k, p, b, x)
    BY PlaceOn
  <2> QED
    BY <1>1, <2>1 DEF PlacesStay
<1>3. Since(c, p, x[i], g0) /\ \A m \in b[j].depth + 1 .. Len(gs) : Since(c, p, x[i], gs[m])
  BY <1>1 DEF Changed
<1>4. \A m, m1 : Since(c, p, x[i], m) /\ (\A a \in Pen : m1[a] = m[a] \/ Sets(k, a, p)) => Since(k, p + 1, x[i], m1)
  BY SinceOn
<1>5. Since(k, p + 1, x[i], g1)
  <2>1. CASE \A a \in Pen : g1[a] = g0[a] \/ Sets(k, a, p)
    BY <1>3, <1>4, <2>1
  <2>2. CASE \E m \in b[j].depth + 1 .. Len(gs) : \A a \in Pen : g1[a] = gs[m][a]
    <3>1. PICK m \in b[j].depth + 1 .. Len(gs) : \A a \in Pen : g1[a] = gs[m][a]
      BY <2>2
    <3> QED
      BY <1>3, <1>4, <3>1
  <2> QED
    BY <1>1, <1>s, <2>1, <2>2
<1>6. ASSUME NEW m \in e[j].depth + 1 .. Len(hs) PROVE Since(k, p + 1, x[i], hs[m])
  <2>1. e[j].depth = b[j].depth
    BY <1>1, <1>s
  <2>2. m \in b[j].depth + 1 .. Len(hs)
    BY <2>1
  <2>3. CASE m \in 1 .. Len(gs) /\ hs[m] = gs[m]
    <3>1. m \in b[j].depth + 1 .. Len(gs)
      BY <2>2, <2>3
    <3> QED
      BY <1>3, <1>4, <2>3, <3>1
  <2>4. CASE \A a \in Pen : hs[m][a] = g0[a]
    BY <1>3, <1>4, <2>4
  <2> QED
    BY <1>1, <1>s, <2>2, <2>3, <2>4
<1> QED
  BY <1>2, <1>5, <1>6

LEMMA ChangedBox ==
  ASSUME NEW c, NEW p \in Nat, NEW b, NEW x, NEW gs, NEW g1, Changed(c, p, b, x, gs, g1), Len(gs) \in Nat,
         NEW n, NEW w, Added(x, n, w), b[Place(c, w)].depth = Len(gs),
         \A a \in Pen : (w.was)[a] = g1[a]
  PROVE  Changed(c, p, b, n, gs, g1)
<1>1. Len(x) \in Nat /\ Len(n) = Len(x) + 1 /\ n[Len(x) + 1] = w /\ \A i \in 1 .. Len(x) : n[i] = x[i]
  BY DEF Added, Listed
<1> SUFFICES ASSUME NEW i \in 1 .. Len(n), Running(n[i])
             PROVE  /\ Since(c, p, n[i], g1)
                    /\ \A m \in b[Place(c, n[i])].depth + 1 .. Len(gs) : Since(c, p, n[i], gs[m])
  BY DEF Changed
<1>2. CASE i \in 1 .. Len(x)
  BY <1>1, <1>2 DEF Changed
<1>3. CASE i \notin 1 .. Len(x)
  <2>1. i = Len(x) + 1
    BY <1>1, <1>3
  <2>2. n[i] = w
    BY <1>1, <2>1
  <2>3. Since(c, p, w, g1)
    BY DEF Since
  <2>4. b[Place(c, w)].depth + 1 .. Len(gs) = {}
    OBVIOUS
  <2> QED
    BY <2>2, <2>3, <2>4
<1> QED
  BY <1>2, <1>3

LEMMA ChangedPop ==
  ASSUME NEW c, NEW p, NEW b, NEW x, NEW gs, NEW g1, Changed(c, p, b, x, gs, g1), NEW n, Taken(x, n)
  PROVE  Changed(c, p, b, n, gs, g1)
<1>1. Len(x) \in Nat \ {0} /\ \A i \in 1 .. Len(n) : i \in 1 .. Len(x) /\ n[i] = x[i]
  BY DEF Taken
<1> QED
  BY <1>1 DEF Changed
-----------------------------------------------------------------------------
(* The passes of boxes, the clips, and what blocks have saved.              *)

LEMMA RunsBox ==
  ASSUME NEW x, NEW r, Runs(x, r), NEW n, NEW w, Added(x, n, w), IsRecord(w), ~ w.second, NEW q \in BOOLEAN,
         w.device <=> (q /\ r)
  PROVE  Runs(n, r /\ ~ q)
<1>1. /\ Len(x) \in Nat /\ Len(n) = Len(x) + 1 /\ n[Len(x) + 1] = w
      /\ \A i \in 1 .. Len(x) : i \in 1 .. Len(n) /\ n[i] = x[i]
  BY DEF Added, Listed
<1>2. Len(n) \in 1 .. Len(n) /\ n[Len(n)] = w
  BY <1>1
<1>3. r \in BOOLEAN /\ (r /\ ~ q) \in BOOLEAN
  BY DEF Runs
<1>4. ASSUME NEW i \in 1 .. Len(n) PROVE n[i] = w \/ (i \in 1 .. Len(x) /\ n[i] = x[i])
  BY <1>1
<1>r. \A i \in 1 .. Len(n) : IsRecord(n[i])
  BY <1>4 DEF Runs
<1>5. \A i \in 1 .. Len(n) : n[i].second => n[i].device
  BY <1>4 DEF Runs
<1>6. r /\ ~ q => \A i \in 1 .. Len(n) : ~ Running(n[i])
  BY <1>4 DEF Runs, Running
<1>7. ~ (r /\ ~ q) => \E i \in 1 .. Len(n) : Running(n[i])
  <2>1. CASE ~ r
    BY <1>1, <2>1 DEF Runs
  <2>2. CASE r /\ q
    BY <1>2, <2>2 DEF Running
  <2> QED
    BY <1>3, <2>1, <2>2
<1>8. ASSUME NEW i \in 1 .. Len(n), Running(n[i]), NEW h \in i + 1 .. Len(n) PROVE ~ n[h].device
  <2>1. CASE i \in 1 .. Len(x)
    <3>1. n[i] = x[i] /\ ~ r
      BY <1>1, <1>8, <2>1 DEF Runs
    <3>2. CASE h = Len(x) + 1
      BY <1>1, <3>1, <3>2
    <3>3. CASE h # Len(x) + 1
      <4>1. h \in i + 1 .. Len(x) /\ h \in 1 .. Len(x)
        BY <1>1, <2>1, <3>3
      <4>2. ~ x[h].device
        BY <1>8, <2>1, <3>1, <4>1 DEF Runs
      <4> QED
        BY <1>1, <4>1, <4>2
    <3> QED
      BY <3>2, <3>3
  <2>2. CASE i \notin 1 .. Len(x)
    <3>1. i = Len(n)
      BY <1>1, <2>2
    <3> QED
      BY <1>1, <3>1
  <2> QED
    BY <2>1, <2>2
<1> QED
  BY <1>3, <1>r, <1>5, <1>6, <1>7, <1>8 DEF Runs

LEMMA RunsPop ==
  ASSUME NEW x, NEW r, Runs(x, r), NEW n, Taken(x, n), ~ Running(x[Len(x)])
  PROVE  Runs(n, r)
<1>1. /\ Len(x) \in Nat \ {0} /\ Len(n) = Len(x) - 1 /\ \A i \in 1 .. Len(n) : i \in 1 .. Len(x) /\ n[i] = x[i]
  BY DEF Taken
<1>2. \A i \in 1 .. Len(x) : Running(x[i]) => i \in 1 .. Len(n)
  <2>1. \A i \in 1 .. Len(x) : i # Len(x) => i \in 1 .. Len(n)
    BY <1>1
  <2> QED
    BY <2>1
<1>3. r \in BOOLEAN
  BY DEF Runs
<1>r. \A i \in 1 .. Len(n) : IsRecord(n[i])
  BY <1>1 DEF Runs
<1>4. \A i \in 1 .. Len(n) : n[i].second => n[i].device
  BY <1>1 DEF Runs
<1>5. r => \A i \in 1 .. Len(n) : ~ Running(n[i])
  BY <1>1 DEF Runs
<1>6. ~ r => \E i \in 1 .. Len(n) : Running(n[i])
  BY <1>1, <1>2 DEF Runs
<1>7. ASSUME NEW i \in 1 .. Len(n), Running(n[i]), NEW h \in i + 1 .. Len(n) PROVE ~ n[h].device
  <2>1. h \in i + 1 .. Len(x) /\ h \in 1 .. Len(n) /\ i \in 1 .. Len(x) /\ n[i] = x[i] /\ n[h] = x[h]
    BY <1>1
  <2> QED
    BY <1>7, <2>1 DEF Runs
<1> QED
  BY <1>3, <1>r, <1>4, <1>5, <1>6, <1>7 DEF Runs

\* The first pass ends.
LEMMA RunsBack ==
  ASSUME NEW x, NEW r, Runs(x, r), Len(x) \in Nat \ {0}, Running(x[Len(x)]),
         NEW n, Len(n) = Len(x), n[Len(x)].second, n[Len(x)].device, IsRecord(n[Len(x)]),
         \A i \in 1 .. Len(x) : i # Len(x) => n[i] = x[i]
  PROVE  Runs(n, TRUE) /\ ~ r
<1>1. Len(x) \in 1 .. Len(x)
  OBVIOUS
<1>2. ~ r
  BY <1>1 DEF Runs
<1>3. ASSUME NEW i \in 1 .. Len(n) PROVE ~ Running(n[i])
  <2>1. CASE i = Len(x)
    BY <2>1 DEF Running
  <2>2. CASE i # Len(x)
    <3>1. n[i] = x[i] /\ Len(x) \in i + 1 .. Len(x)
      BY <2>2
    <3>2. x[Len(x)].device
      BY DEF Running
    <3> QED
      BY <3>1, <3>2 DEF Runs
  <2> QED
    BY <2>1, <2>2
<1>r. \A i \in 1 .. Len(n) : IsRecord(n[i])
  BY DEF Runs
<1>4. \A i \in 1 .. Len(n) : n[i].second => n[i].device
  BY DEF Runs
<1> QED
  BY <1>2, <1>3, <1>r, <1>4 DEF Runs

\* The clips among blocks, each of which has saved a state of the device
Clips(b) == {j \in DOMAIN b : b[j].type = "clip"}
ClipsIn(c, b, x, n, r) ==
  /\ r => n = UpTo(Clips(b), Len(b))
  /\ \A i \in 1 .. Len(x) : Running(x[i]) => n = UpTo(Clips(b), Place(c, x[i]))

LEMMA ClipsLike ==
  ASSUME NEW b, Listed(b), NEW e, Listed(e), NEW n \in Nat, n <= Len(b), n <= Len(e),
         \A j \in 1 .. n : e[j] = b[j]
  PROVE  \A m \in 0 .. n : UpTo(Clips(e), m) = UpTo(Clips(b), m)
<1> SUFFICES ASSUME NEW m \in 0 .. n PROVE UpTo(Clips(e), m) = UpTo(Clips(b), m)
  OBVIOUS
<1>1. DOMAIN b = 1 .. Len(b) /\ DOMAIN e = 1 .. Len(e) /\ Len(b) \in Nat /\ Len(e) \in Nat
  BY DEF Listed
<1>2. m \in Nat /\ \A i \in 1 .. m : i \in 1 .. n /\ i \in DOMAIN b /\ i \in DOMAIN e
  BY <1>1
<1>3. \A i \in 1 .. m : i \in Clips(e) <=> i \in Clips(b)
  BY <1>2 DEF Clips
<1> QED
  BY <1>2, <1>3, UpToSame

LEMMA ClipsAdded ==
  ASSUME NEW b, NEW e, NEW z, Added(b, e, z)
  PROVE  /\ \A m \in 0 .. Len(b) : UpTo(Clips(e), m) = UpTo(Clips(b), m)
         /\ UpTo(Clips(b), Len(b)) \in Nat
         /\ UpTo(Clips(e), Len(e)) = UpTo(Clips(b), Len(b)) + (IF z.type = "clip" THEN 1 ELSE 0)
<1>1. Listed(b) /\ Listed(e) /\ Len(b) \in Nat /\ Len(e) = Len(b) + 1 /\ e[Len(b) + 1] = z /\ \A j \in 1 .. Len(b) : e[j] = b[j]
  BY DEF Added, Listed
<1>2. \A m \in 0 .. Len(b) : UpTo(Clips(e), m) = UpTo(Clips(b), m)
  BY <1>1, ClipsLike
<1>3. UpTo(Clips(e), Len(b) + 1) = UpTo(Clips(e), Len(b)) + (IF Len(b) + 1 \in Clips(e) THEN 1 ELSE 0)
  BY <1>1, UpToIs
<1>4. Len(b) + 1 \in Clips(e) <=> z.type = "clip"
  <2>1. Len(b) + 1 \in DOMAIN e
    BY <1>1 DEF Listed
  <2> QED
    BY <1>1, <2>1 DEF Clips
<1>5. UpTo(Clips(b), Len(b)) \in Nat /\ UpTo(Clips(e), Len(b)) = UpTo(Clips(b), Len(b))
  BY <1>1, <1>2, UpToIs
<1> QED
  BY <1>1, <1>2, <1>3, <1>4, <1>5

LEMMA ClipsTaken ==
  ASSUME NEW b, NEW e, Taken(b, e)
  PROVE  /\ \A m \in 0 .. Len(e) : UpTo(Clips(e), m) = UpTo(Clips(b), m)
         /\ UpTo(Clips(e), Len(e)) \in Nat
         /\ UpTo(Clips(b), Len(b)) = UpTo(Clips(e), Len(e)) + (IF b[Len(b)].type = "clip" THEN 1 ELSE 0)
<1>1. /\ Listed(b) /\ Listed(e) /\ Len(e) \in Nat /\ Len(b) = Len(e) + 1
      /\ Added(e, b, b[Len(b)])
  BY DEF Added, Listed, Taken
<1> QED
  BY <1>1, ClipsAdded

\* What the blocks have saved: their END finds the stack as high as BEGIN left it, or
\* the script is refused.
Depths(b, n) ==
  /\ \A j \in 1 .. Len(b) : b[j].depth \in 0 .. n
  /\ \A j \in 1 .. Len(b) : \A h \in 1 .. j - 1 : b[h].depth <= b[j].depth
  /\ \A j \in 1 .. Len(b) : b[j].type \in {"scale", "translate"} =>
       b[j].depth > 0 /\ \A h \in 1 .. j - 1 : b[h].depth < b[j].depth

LEMMA DepthsBegin ==
  ASSUME NEW b, NEW n \in Nat, Depths(b, n), NEW e, NEW z, Added(b, e, z),
         NEW m \in {n, n + 1}, z.depth = m, z.type \in {"scale", "translate"} => m = n + 1
  PROVE  Depths(e, m)
<1>1. Len(b) \in Nat /\ Len(e) = Len(b) + 1 /\ e[Len(b) + 1] = z /\ \A j \in 1 .. Len(b) : e[j] = b[j]
  BY DEF Added, Listed
<1>2. \A j \in 1 .. Len(b) : b[j].depth \in 0 .. n
  BY DEF Depths
<1>3. ASSUME NEW j \in 1 .. Len(e)
      PROVE  /\ e[j].depth \in 0 .. m /\ \A h \in 1 .. j - 1 : e[h].depth <= e[j].depth
             /\ e[j].type \in {"scale", "translate"} =>
                  e[j].depth > 0 /\ \A h \in 1 .. j - 1 : e[h].depth < e[j].depth
  <2>1. CASE j = Len(b) + 1
    <3>1. e[j] = z /\ \A h \in 1 .. j - 1 : h \in 1 .. Len(b) /\ e[h] = b[h]
      BY <1>1, <2>1
    <3>2. \A h \in 1 .. j - 1 : e[h].depth \in 0 .. n
      BY <1>2, <3>1
    <3> QED
      BY <3>1, <3>2
  <2>2. CASE j # Len(b) + 1
    <3>1. j \in 1 .. Len(b) /\ e[j] = b[j] /\ \A h \in 1 .. j - 1 : h \in 1 .. Len(b) /\ e[h] = b[h]
      BY <1>1, <2>2
    <3>2. b[j].depth \in 0 .. n
      BY <1>2, <3>1
    <3>3. e[j].depth \in 0 .. m
      BY <3>1, <3>2
    <3> QED
      BY <3>1, <3>3 DEF Depths
  <2> QED
    BY <2>1, <2>2
<1> QED
  BY <1>3 DEF Depths

LEMMA DepthsEnd ==
  ASSUME NEW b, NEW n \in Nat, Depths(b, n), NEW e, Taken(b, e), b[Len(b)].depth = n,
         NEW m, m = n \/ (m = n - 1 /\ b[Len(b)].type \in {"scale", "translate"})
  PROVE  Depths(e, m) /\ m \in Nat
<1>1. Len(b) \in Nat \ {0} /\ Len(e) = Len(b) - 1 /\ \A j \in 1 .. Len(b) - 1 : e[j] = b[j]
  BY DEF Taken
<1>2. Len(b) \in 1 .. Len(b)
  BY <1>1
<1>3. m \in Nat
  BY <1>2 DEF Depths
<1>4. ASSUME NEW j \in 1 .. Len(e) PROVE e[j].depth \in 0 .. m
  <2>1. j \in 1 .. Len(b) - 1 /\ j \in 1 .. Len(b) /\ e[j] = b[j]
    BY <1>1
  <2>2. b[j].depth \in 0 .. n
    BY <2>1 DEF Depths
  <2>3. CASE m = n
    BY <2>1, <2>2, <2>3
  <2>4. CASE m = n - 1 /\ b[Len(b)].type \in {"scale", "translate"}
    <3>1. b[j].depth < b[Len(b)].depth
      BY <1>2, <2>1, <2>4 DEF Depths
    <3> QED
      BY <2>1, <2>2, <2>4, <3>1
  <2> QED
    BY <2>3, <2>4
<1>5. \A j \in 1 .. Len(e) : j \in 1 .. Len(b) /\ e[j] = b[j] /\ \A h \in 1 .. j - 1 : e[h] = b[h]
  BY <1>1
<1> QED
  BY <1>3, <1>4, <1>5 DEF Depths

LEMMA DepthsPop ==
  ASSUME NEW b, NEW n \in Nat, Depths(b, n), NEW m \in Nat, n = m + 1,
         Len(b) \in Nat, Len(b) > 0 => n > b[Len(b)].depth
  PROVE  Depths(b, m)
<1>1. ASSUME NEW j \in 1 .. Len(b) PROVE b[j].depth \in 0 .. m
  <2>1. Len(b) \in 1 .. Len(b) /\ b[j].depth \in 0 .. n /\ b[Len(b)].depth \in 0 .. n
    BY DEF Depths
  <2>2. b[j].depth <= b[Len(b)].depth
    <3>1. CASE j = Len(b)
      BY <2>1, <3>1
    <3>2. CASE j # Len(b)
      <4>1. j \in 1 .. Len(b) - 1
        BY <3>2
      <4> QED
        BY <2>1, <4>1 DEF Depths
    <3> QED
      BY <3>1, <3>2
  <2> QED
    BY <2>1, <2>2
<1> QED
  BY <1>1 DEF Depths

LEMMA DepthsPush == ASSUME NEW b, NEW n \in Nat, Depths(b, n) PROVE Depths(b, n + 1)
<1>1. \A j \in 1 .. Len(b) : b[j].depth \in 0 .. n + 1
  BY DEF Depths
<1> QED
  BY <1>1 DEF Depths
-----------------------------------------------------------------------------
(* The invariant, of the values of the variables.                           *)

Models(gs, m) == Listed(gs) /\ \A i \in 1 .. Len(gs) : GModel(gs[i]) /\ gs[i].cap = m.cap
States(sv, d) == Listed(sv) /\ \A i \in 1 .. Len(sv) : Device(sv[i]) /\ sv[i].cap = d.cap
Inv(c, p, b, x, gs, sv, s) ==
  /\ Structure(c, p, b, x)
  /\ State(s) /\ Models(gs, s.g) /\ States(sv, s.dev)
  /\ Runs(x, s.real) /\ ClipsIn(c, b, x, Len(sv), s.real) /\ Depths(b, Len(gs))
  /\ Agree(c, p, x, s.g, s.dev, s.real) /\ Changed(c, p, b, x, gs, s.g)

\* What a step does to the attributes
Moves(s, t, k, p) ==
  /\ State(t) /\ t.real = s.real
  /\ s.real => /\ \A a \in Pen : \/ t.dev[a] = t.g[a]
                                 \/ t.g[a] = s.g[a] /\ t.dev[a] = s.dev[a] /\ ~ Sets(k, a, p)
               /\ s.dev.fill = s.g.fill => t.dev.fill = t.g.fill
               /\ s.dev.image = s.g.image => t.dev.image = t.g.image
  /\ ~ s.real => \A a \in Pen \cup {"fill", "image"} : t.dev[a] = s.dev[a]
\* and to the stack of GLE and that of PostScript
Stacks(c, b, x, gs, hs, s, t, k, p) ==
  \/ hs = gs /\ \A a \in Pen : t.g[a] = s.g[a] \/ Sets(k, a, p)
  \/ \E m : Added(gs, hs, m) /\ GModel(m) /\ \A a \in Pen : m[a] = s.g[a] /\ t.g[a] = s.g[a]
  \/ /\ Taken(gs, hs) /\ \A a \in Pen : t.g[a] = gs[Len(gs)][a]
     /\ \A i \in 1 .. Len(x) : b[Place(c, x[i])].depth < Len(gs)
SavesOf(sv, tv, s) ==
  \/ tv = sv
  \/ \E d : Added(sv, tv, d) /\ Device(d) /\ d.cap = s.dev.cap
  \/ Taken(sv, tv)
SameCaps(s, t) == t.g.cap = s.g.cap /\ t.dev.cap = s.dev.cap

LEMMA MovesIs ==
  ASSUME NEW s, NEW t, Follows(s, t), NEW k, NEW p, \A a \in Pen : ~ Sets(k, a, p)
  PROVE  Moves(s, t, k, p) /\ SameCaps(s, t) /\ \A a \in Pen : t.g[a] = s.g[a]
BY DEF Follows, Moves, SameCaps, Pen

LEMMA ModelsAdd ==
  ASSUME NEW gs, NEW m, Models(gs, m), NEW hs, NEW n, Added(gs, hs, n), GModel(n), n.cap = m.cap
  PROVE  Models(hs, m)
<1>1. Listed(gs) /\ Listed(hs) /\ Len(gs) \in Nat /\ Len(hs) = Len(gs) + 1
  BY DEF Added, Listed
<1>2. \A i \in 1 .. Len(hs) : hs[i] = n \/ (i \in 1 .. Len(gs) /\ hs[i] = gs[i])
  BY <1>1 DEF Added
<1> QED
  BY <1>1, <1>2 DEF Models

LEMMA StatesAdd ==
  ASSUME NEW gs, NEW m, States(gs, m), NEW hs, NEW n, Added(gs, hs, n), Device(n), n.cap = m.cap
  PROVE  States(hs, m)
<1>1. Listed(gs) /\ Listed(hs) /\ Len(gs) \in Nat /\ Len(hs) = Len(gs) + 1
  BY DEF Added, Listed
<1>2. \A i \in 1 .. Len(hs) : hs[i] = n \/ (i \in 1 .. Len(gs) /\ hs[i] = gs[i])
  BY <1>1 DEF Added
<1> QED
  BY <1>1, <1>2 DEF States

LEMMA StackTake ==
  ASSUME NEW gs, NEW m, NEW hs, Taken(gs, hs)
  PROVE  (Models(gs, m) => Models(hs, m)) /\ (States(gs, m) => States(hs, m))
<1>1. \A i \in 1 .. Len(hs) : i \in 1 .. Len(gs) /\ hs[i] = gs[i]
  BY DEF Taken
<1>2. Listed(hs)
  BY DEF Taken
<1> QED
  BY <1>1, <1>2 DEF Models, States

\* A step that leaves the boxes
LEMMA InvStep ==
  ASSUME NEW c, NEW p \in Nat, NEW b, NEW x, NEW gs, NEW sv, NEW s, Inv(c, p, b, x, gs, sv, s),
         NEW k, NEW y, Passes(c, k, p, y),
         NEW e, Structure(k, p + 1, e, x),
         \A i \in 1 .. Len(x) : e[Place(c, x[i])].depth = b[Place(c, x[i])].depth,
         NEW hs, NEW tv, NEW t, Moves(s, t, k, p), Stacks(c, b, x, gs, hs, s, t, k, p), SavesOf(sv, tv, s),
         SameCaps(s, t) \/ (Len(gs) = 0 /\ Len(sv) = 0 /\ hs = gs /\ tv = sv),
         Depths(e, Len(hs)), ClipsIn(k, e, x, Len(tv), s.real)
  PROVE  Inv(k, p + 1, e, x, hs, tv, t)
<1>1. State(t) /\ t.real = s.real
  BY DEF Moves
<1>2. Structure(c, p, b, x) /\ Runs(x, s.real) /\ Agree(c, p, x, s.g, s.dev, s.real) /\ Changed(c, p, b, x, gs, s.g)
  BY DEF Inv
<1>3. Agree(k, p + 1, x, t.g, t.dev, s.real)
  <2>1. /\ s.real => /\ \A a \in Pen : t.dev[a] = t.g[a] \/ (t.g[a] = s.g[a] /\ t.dev[a] = s.dev[a] /\ ~ Sets(k, a, p))
                     /\ s.dev.fill = s.g.fill => t.dev.fill = t.g.fill
                     /\ s.dev.image = s.g.image => t.dev.image = t.g.image
        /\ ~ s.real => \A a \in Pen \cup {"fill", "image"} : t.dev[a] = s.dev[a]
    BY DEF Moves
  <2>2. PICK g0, d0, g1, d1, r : g0 = s.g /\ d0 = s.dev /\ g1 = t.g /\ d1 = t.dev /\ r = s.real
    OBVIOUS
  <2>3. /\ r => /\ \A a \in Pen : d1[a] = g1[a] \/ (g1[a] = g0[a] /\ d1[a] = d0[a] /\ ~ Sets(k, a, p))
                /\ d0.fill = g0.fill => d1.fill = g1.fill
                /\ d0.image = g0.image => d1.image = g1.image
        /\ ~ r => \A a \in Pen \cup {"fill", "image"} : d1[a] = d0[a]
    BY <2>1, <2>2
  <2>4. Agree(c, p, x, g0, d0, r) /\ Runs(x, r)
    BY <1>2, <2>2
  <2>5. Agree(k, p + 1, x, g1, d1, r)
    BY <1>2, <2>3, <2>4, AgreeStep
  <2> QED
    BY <2>2, <2>5
<1>4. Models(gs, s.g) /\ States(sv, s.dev) /\ Listed(gs) /\ Listed(sv) /\ Len(gs) \in Nat
  BY DEF Inv, Models, States, Listed
<1>5. Len(hs) \in Nat
  BY <1>4 DEF Stacks, Added, Taken, Listed
<1>6. Changed(k, p + 1, e, x, hs, t.g)
  <2>1. PICK g0, g1 : g0 = s.g /\ g1 = t.g
    OBVIOUS
  <2>2. ASSUME NEW i \in 1 .. Len(x), Running(x[i])
        PROVE  /\ e[Place(c, x[i])].depth = b[Place(c, x[i])].depth
               /\ \/ \A a \in Pen : g1[a] = g0[a] \/ Sets(k, a, p)
                  \/ \E m \in b[Place(c, x[i])].depth + 1 .. Len(gs) : \A a \in Pen : g1[a] = gs[m][a]
               /\ \A m \in b[Place(c, x[i])].depth + 1 .. Len(hs) :
                    \/ m \in 1 .. Len(gs) /\ hs[m] = gs[m]
                    \/ \A a \in Pen : hs[m][a] = g0[a]
    <3>1. PICK n : n = b[Place(c, x[i])].depth
      OBVIOUS
    <3>2. n \in Nat
      <4>1. PlacesStay(c, k, p, b, x)
        BY <1>2, PlaceOn
      <4>2. Place(c, x[i]) \in 1 .. Len(b)
        BY <4>1 DEF PlacesStay
      <4>3. b[Place(c, x[i])].depth \in 0 .. Len(gs)
        BY <4>2 DEF Inv, Depths
      <4> QED
        BY <3>1, <4>3
    <3>3. CASE hs = gs /\ \A a \in Pen : t.g[a] = s.g[a] \/ Sets(k, a, p)
      <4>1. \A m \in n + 1 .. Len(hs) : m \in 1 .. Len(gs) /\ hs[m] = gs[m]
        BY <1>4, <3>2, <3>3
      <4> QED
        BY <2>1, <3>1, <3>3, <4>1
    <3>4. CASE \E m : Added(gs, hs, m) /\ GModel(m) /\ \A a \in Pen : m[a] = s.g[a] /\ t.g[a] = s.g[a]
      <4>1. PICK m : Added(gs, hs, m) /\ \A a \in Pen : m[a] = s.g[a] /\ t.g[a] = s.g[a]
        BY <3>4
      <4>2. \A h \in n + 1 .. Len(hs) : (h \in 1 .. Len(gs) /\ hs[h] = gs[h]) \/ hs[h] = m
        BY <1>4, <3>2, <4>1 DEF Added
      <4> QED
        BY <2>1, <3>1, <4>1, <4>2
    <3>5. CASE /\ Taken(gs, hs) /\ \A a \in Pen : t.g[a] = gs[Len(gs)][a]
               /\ \A h \in 1 .. Len(x) : b[Place(c, x[h])].depth < Len(gs)
      <4>1. n < Len(gs)
        BY <3>1, <3>5
      <4>2. Len(gs) \in n + 1 .. Len(gs)
        BY <1>4, <3>2, <4>1
      <4>3. \A h \in n + 1 .. Len(hs) : h \in 1 .. Len(gs) /\ hs[h] = gs[h]
        BY <1>4, <3>2, <3>5 DEF Taken
      <4> QED
        BY <2>1, <3>1, <3>5, <4>2, <4>3
    <3> QED
      BY <3>3, <3>4, <3>5 DEF Stacks
  <2>3. Changed(c, p, b, x, gs, g0)
    BY <1>2, <2>1
  <2>4. Changed(k, p + 1, e, x, hs, g1)
    <3>1. Steady(c, p, b, x, k, gs, g0, e, hs, g1)
      BY <2>2 DEF Steady
    <3> QED
      BY <1>2, <1>4, <1>5, <2>3, <3>1, ChangedStep
  <2> QED
    BY <2>1, <2>4
<1>7. CASE SameCaps(s, t)
  <2>1. Models(hs, s.g)
    <3>1. CASE \E m : Added(gs, hs, m) /\ GModel(m) /\ \A a \in Pen : m[a] = s.g[a] /\ t.g[a] = s.g[a]
      <4>1. PICK m : Added(gs, hs, m) /\ GModel(m) /\ m.cap = s.g.cap
        BY <3>1 DEF Pen
      <4> QED
        BY <1>4, <4>1, ModelsAdd
    <3> QED
      BY <1>4, <3>1, StackTake DEF Stacks
  <2>2. States(tv, s.dev)
    <3>1. CASE \E d : Added(sv, tv, d) /\ Device(d) /\ d.cap = s.dev.cap
      BY <1>4, <3>1, StatesAdd
    <3> QED
      BY <1>4, <3>1, StackTake DEF SavesOf
  <2>3. Models(hs, t.g) /\ States(tv, t.dev)
    BY <1>7, <2>1, <2>2 DEF SameCaps, Models, States
  <2> QED
    BY <1>1, <1>2, <1>3, <1>6, <2>3 DEF Inv
<1>8. CASE Len(gs) = 0 /\ Len(sv) = 0 /\ hs = gs /\ tv = sv
  <2>1. Models(hs, t.g) /\ States(tv, t.dev)
    BY <1>4, <1>8 DEF Models, States
  <2> QED
    BY <1>1, <1>2, <1>3, <1>6, <2>1 DEF Inv
<1> QED
  BY <1>7, <1>8

LEMMA ClipsOn ==
  ASSUME NEW c, NEW p \in Nat, NEW b, NEW x, Structure(c, p, b, x), NEW k, NEW y, Passes(c, k, p, y),
         NEW n, NEW r, Runs(x, r), ClipsIn(c, b, x, n, r), NEW e, NEW m,
         \A i \in 1 .. Len(x) : UpTo(Clips(e), Place(c, x[i])) = UpTo(Clips(b), Place(c, x[i])),
         r => m = UpTo(Clips(e), Len(e)), ~ r => m = n
  PROVE  ClipsIn(k, e, x, m, r)
<1>1. PlacesStay(c, k, p, b, x)
  BY PlaceOn
<1>2. ASSUME NEW i \in 1 .. Len(x), Running(x[i]) PROVE m = UpTo(Clips(e), Place(k, x[i]))
  <2>1. m = n
    BY <1>2 DEF Runs
  <2> QED
    BY <1>1, <1>2, <2>1 DEF ClipsIn, PlacesStay
<1> QED
  BY <1>2 DEF ClipsIn

\* A command that neither begins nor ends a block
LEMMA InvPlain ==
  ASSUME NEW c, NEW p \in Nat, NEW b, NEW x, NEW gs, NEW sv, NEW s, Inv(c, p, b, x, gs, sv, s),
         NEW k, NEW y, Passes(c, k, p, y), Turn(y) = 0,
         NEW hs, NEW t, Moves(s, t, k, p), Stacks(c, b, x, gs, hs, s, t, k, p), Depths(b, Len(hs)),
         SameCaps(s, t) \/ (Len(gs) = 0 /\ Len(sv) = 0 /\ hs = gs)
  PROVE  Inv(k, p + 1, b, x, hs, sv, t)
<1>1. Structure(c, p, b, x) /\ Runs(x, s.real) /\ ClipsIn(c, b, x, Len(sv), s.real)
  BY DEF Inv
<1>2. Structure(k, p + 1, b, x)
  BY <1>1, StructurePlain
<1>3. SavesOf(sv, sv, s)
  BY DEF SavesOf
<1>4. ClipsIn(k, b, x, Len(sv), s.real)
  <2>1. s.real => Len(sv) = UpTo(Clips(b), Len(b))
    BY <1>1 DEF ClipsIn
  <2>2. PICK r : r = s.real
    OBVIOUS
  <2>3. ClipsIn(k, b, x, Len(sv), r)
    BY <1>1, <2>1, <2>2, ClipsOn
  <2> QED
    BY <2>2, <2>3
<1> QED
  BY <1>2, <1>3, <1>4, InvStep

\* A block that is not one of a box begins.
LEMMA InvBegin ==
  ASSUME NEW c, NEW p \in Nat, NEW b, NEW x, NEW gs, NEW sv, NEW s, Inv(c, p, b, x, gs, sv, s),
         NEW k, NEW y \in Blocks \ Boxy, Passes(c, k, p, y), NEW e, NEW z, Added(b, e, z), z.type = y,
         NEW hs, NEW tv, NEW t, Moves(s, t, k, p), Stacks(c, b, x, gs, hs, s, t, k, p), SameCaps(s, t),
         z.depth = Len(hs), Len(hs) = Len(gs) \/ Len(hs) = Len(gs) + 1,
         y \in {"scale", "translate"} => Len(hs) = Len(gs) + 1,
         IF y = "clip" /\ s.real THEN \E d : Added(sv, tv, d) /\ Device(d) /\ d.cap = s.dev.cap ELSE tv = sv
  PROVE  Inv(k, p + 1, e, x, hs, tv, t)
<1>1. Structure(c, p, b, x) /\ Runs(x, s.real) /\ ClipsIn(c, b, x, Len(sv), s.real) /\ Depths(b, Len(gs))
  BY DEF Inv
<1>n. Len(gs) \in Nat /\ Len(sv) \in Nat
  BY DEF Inv, Models, States, Listed
<1>b. Len(b) \in Nat /\ Len(e) = Len(b) + 1 /\ e[Len(b) + 1] = z /\ \A j \in 1 .. Len(b) : e[j] = b[j]
  BY DEF Added, Listed
<1>2. Structure(k, p + 1, e, x)
  BY <1>1, StructureBegin
<1>3. SavesOf(sv, tv, s)
  BY DEF SavesOf
<1>p. PlacesStay(c, k, p, b, x)
  BY <1>1, PlaceOn
<1>4. \A i \in 1 .. Len(x) : e[Place(c, x[i])].depth = b[Place(c, x[i])].depth
  BY <1>b, <1>p DEF PlacesStay
<1>5. ClipsIn(k, e, x, Len(tv), s.real)
  <2>1. /\ \A m \in 0 .. Len(b) : UpTo(Clips(e), m) = UpTo(Clips(b), m)
        /\ UpTo(Clips(b), Len(b)) \in Nat
        /\ UpTo(Clips(e), Len(e)) = UpTo(Clips(b), Len(b)) + (IF z.type = "clip" THEN 1 ELSE 0)
    BY ClipsAdded
  <2>2. \A i \in 1 .. Len(x) : UpTo(Clips(e), Place(c, x[i])) = UpTo(Clips(b), Place(c, x[i]))
    <3>1. \A i \in 1 .. Len(x) : Place(c, x[i]) \in 0 .. Len(b)
      BY <1>b, <1>p DEF PlacesStay
    <3> QED
      BY <2>1, <3>1
  <2>3. s.real => Len(tv) = UpTo(Clips(e), Len(e))
    <3>1. s.real => Len(sv) = UpTo(Clips(b), Len(b))
      BY <1>1 DEF ClipsIn
    <3>2. s.real /\ y = "clip" => Len(tv) = Len(sv) + 1
      BY DEF Added
    <3>3. y # "clip" => tv = sv
      OBVIOUS
    <3>4. CASE y = "clip"
      BY <2>1, <3>1, <3>2, <3>4
    <3>5. CASE y # "clip"
      BY <2>1, <3>1, <3>3, <3>5
    <3> QED
      BY <3>4, <3>5
  <2>4. ~ s.real => Len(tv) = Len(sv)
    OBVIOUS
  <2>5. PICK r, n, m : r = s.real /\ n = Len(sv) /\ m = Len(tv)
    OBVIOUS
  <2>6. ClipsIn(k, e, x, m, r)
    BY <1>1, <2>2, <2>3, <2>4, <2>5, ClipsOn
  <2> QED
    BY <2>5, <2>6
<1>6. Depths(e, Len(hs))
  <2>1. z.type \in {"scale", "translate"} => Len(hs) = Len(gs) + 1
    OBVIOUS
  <2>2. Len(hs) \in {Len(gs), Len(gs) + 1}
    OBVIOUS
  <2> QED
    BY <1>1, <1>n, <2>1, <2>2, DepthsBegin
<1> QED
  BY <1>2, <1>3, <1>4, <1>5, <1>6, InvStep

\* A block that is not one of a box ends.
LEMMA InvEnd ==
  ASSUME NEW c, NEW p \in Nat, NEW b, NEW x, NEW gs, NEW sv, NEW s, Inv(c, p, b, x, gs, sv, s),
         NEW k, Passes(c, k, p, "end"), NEW e, Taken(b, e), b[Len(b)].type \notin Boxy,
         b[Len(b)].depth = Len(gs),
         NEW hs, NEW tv, NEW t, Moves(s, t, k, p), SameCaps(s, t),
         IF b[Len(b)].type \in {"scale", "translate"}
         THEN Taken(gs, hs) /\ \A a \in Pen : t.g[a] = gs[Len(gs)][a]
         ELSE hs = gs /\ \A a \in Pen : t.g[a] = s.g[a],
         IF b[Len(b)].type = "clip" /\ s.real THEN Taken(sv, tv) ELSE tv = sv
  PROVE  Inv(k, p + 1, e, x, hs, tv, t)
<1>1. Structure(c, p, b, x) /\ Runs(x, s.real) /\ ClipsIn(c, b, x, Len(sv), s.real) /\ Depths(b, Len(gs))
  BY DEF Inv
<1>n. Len(gs) \in Nat /\ Len(sv) \in Nat
  BY DEF Inv, Models, States, Listed
<1>b. Len(b) \in Nat \ {0} /\ Len(e) = Len(b) - 1 /\ \A j \in 1 .. Len(b) - 1 : e[j] = b[j]
  BY DEF Taken
<1>2. Structure(k, p + 1, e, x)
  BY <1>1, StructureEnd
<1>3. SavesOf(sv, tv, s)
  BY DEF SavesOf
<1>p. PlacesStay(c, k, p, b, x)
  BY <1>1, PlaceOn
<1>q. \A i \in 1 .. Len(x) : Place(c, x[i]) \in 1 .. Len(b) - 1
  <2>1. \A i \in 1 .. Len(x) : Place(c, x[i]) \in 1 .. Len(b) /\ Place(c, x[i]) # Len(b)
    BY <1>p DEF PlacesStay
  <2> QED
    BY <1>b, <2>1
<1>4. \A i \in 1 .. Len(x) : e[Place(c, x[i])].depth = b[Place(c, x[i])].depth
  BY <1>b, <1>q
<1>s. Stacks(c, b, x, gs, hs, s, t, k, p)
  <2>1. CASE b[Len(b)].type \in {"scale", "translate"}
    <3>1. Len(b) \in 1 .. Len(b)
      BY <1>b
    <3>2. \A h \in 1 .. Len(b) - 1 : b[h].depth < Len(gs)
      BY <1>1, <2>1, <3>1 DEF Depths
    <3> QED
      BY <1>q, <2>1, <3>2 DEF Stacks
  <2>2. CASE b[Len(b)].type \notin {"scale", "translate"}
    BY <2>2 DEF Stacks
  <2> QED
    BY <2>1, <2>2
<1>5. ClipsIn(k, e, x, Len(tv), s.real)
  <2>1. /\ \A m \in 0 .. Len(e) : UpTo(Clips(e), m) = UpTo(Clips(b), m)
        /\ UpTo(Clips(e), Len(e)) \in Nat
        /\ UpTo(Clips(b), Len(b)) = UpTo(Clips(e), Len(e)) + (IF b[Len(b)].type = "clip" THEN 1 ELSE 0)
    BY ClipsTaken
  <2>2. \A i \in 1 .. Len(x) : UpTo(Clips(e), Place(c, x[i])) = UpTo(Clips(b), Place(c, x[i]))
    <3>1. \A i \in 1 .. Len(x) : Place(c, x[i]) \in 0 .. Len(e)
      BY <1>b, <1>q
    <3> QED
      BY <2>1, <3>1
  <2>3. s.real => Len(tv) = UpTo(Clips(e), Len(e))
    <3>1. s.real => Len(sv) = UpTo(Clips(b), Len(b))
      BY <1>1 DEF ClipsIn
    <3>2. s.real /\ b[Len(b)].type = "clip" => Len(tv) = Len(sv) - 1
      BY DEF Taken
    <3>3. b[Len(b)].type # "clip" => tv = sv
      OBVIOUS
    <3>4. CASE b[Len(b)].type = "clip"
      BY <2>1, <3>1, <3>2, <3>4
    <3>5. CASE b[Len(b)].type # "clip"
      BY <2>1, <3>1, <3>3, <3>5
    <3> QED
      BY <3>4, <3>5
  <2>4. ~ s.real => Len(tv) = Len(sv)
    OBVIOUS
  <2>5. PICK r, n, m : r = s.real /\ n = Len(sv) /\ m = Len(tv)
    OBVIOUS
  <2>6. ClipsIn(k, e, x, m, r)
    BY <1>1, <2>2, <2>3, <2>4, <2>5, ClipsOn
  <2> QED
    BY <2>5, <2>6
<1>6. Depths(e, Len(hs))
  <2>1. Len(hs) = Len(gs) \/ (Len(hs) = Len(gs) - 1 /\ b[Len(b)].type \in {"scale", "translate"})
    BY DEF Taken
  <2> QED
    BY <1>1, <1>n, <2>1, DepthsEnd
<1> QED
  BY <1>2, <1>3, <1>4, <1>s, <1>5, <1>6, InvStep

\* A box begins; q: its content is drawn twice, if there is a device.
LEMMA InvBox ==
  ASSUME NEW c, NEW p \in Nat, NEW b, NEW x, NEW gs, NEW sv, NEW s, Inv(c, p, b, x, gs, sv, s),
         NEW k, NEW y \in Boxy, Passes(c, k, p, y), NEW e, NEW z, Added(b, e, z), z.type = y, z.depth = Len(gs),
         NEW n, NEW w, Added(x, n, w), w.at = p + 1, IsRecord(w), ~ w.second, NEW q \in BOOLEAN, w.device <=> (q /\ s.real),
         NEW t, State(t), t.real = (s.real /\ ~ q),
         \A a \in Pen \cup {"fill", "image"} : (w.was)[a] = s.g[a] /\ t.g[a] = s.g[a] /\ t.dev[a] = s.dev[a],
         \A a \in Pen : ~ Sets(k, a, p)
  PROVE  Inv(k, p + 1, e, n, gs, sv, t)
<1>1. /\ Structure(c, p, b, x) /\ Runs(x, s.real) /\ ClipsIn(c, b, x, Len(sv), s.real) /\ Depths(b, Len(gs))
      /\ Agree(c, p, x, s.g, s.dev, s.real) /\ Changed(c, p, b, x, gs, s.g)
  BY DEF Inv
<1>n. Len(gs) \in Nat /\ Len(sv) \in Nat
  BY DEF Inv, Models, States, Listed
<1>b. /\ Len(b) \in Nat /\ Len(e) = Len(b) + 1 /\ e[Len(b) + 1] = z /\ \A j \in 1 .. Len(b) : e[j] = b[j]
      /\ Len(x) \in Nat /\ Len(n) = Len(x) + 1 /\ n[Len(x) + 1] = w /\ \A i \in 1 .. Len(x) : n[i] = x[i]
  BY DEF Added, Listed
<1>2. Structure(k, p + 1, e, n) /\ Place(k, w) = Len(b) + 1
  BY <1>1, StructureBeginBox
<1>p. PlacesStay(c, k, p, b, x)
  BY <1>1, PlaceOn
<1>3. PICK g0, d0, g1, d1, r, u : g0 = s.g /\ d0 = s.dev /\ g1 = t.g /\ d1 = t.dev /\ r = s.real /\ u = t.real
  OBVIOUS
<1>a. /\ \A a \in Pen \cup {"fill", "image"} : (w.was)[a] = g1[a] /\ g1[a] = g0[a] /\ d1[a] = d0[a]
      /\ Runs(x, r) /\ r \in BOOLEAN /\ u = (r /\ ~ q) /\ (w.device <=> (q /\ r))
  BY <1>1, <1>3 DEF Runs
<1>4. Agree(k, p + 1, n, g1, d1, u)
  <2>1. g1.fill = g0.fill /\ d1.fill = d0.fill /\ g1.image = g0.image /\ d1.image = d0.image
    BY <1>a
  <2>2. /\ r => /\ \A a \in Pen : d1[a] = g1[a] \/ (g1[a] = g0[a] /\ d1[a] = d0[a] /\ ~ Sets(k, a, p))
                /\ d0.fill = g0.fill => d1.fill = g1.fill
                /\ d0.image = g0.image => d1.image = g1.image
        /\ ~ r => \A a \in Pen \cup {"fill", "image"} : d1[a] = d0[a]
    BY <1>a, <2>1
  <2>3. Agree(c, p, x, g0, d0, r)
    BY <1>1, <1>3
  <2>4. Agree(k, p + 1, x, g1, d1, r)
    BY <1>1, <1>a, <2>2, <2>3, AgreeStep
  <2>5. u => r
    BY <1>a
  <2>6. w.device => r
    BY <1>a
  <2>7. \A a \in Pen \cup {"fill", "image"} : (w.was)[a] = g1[a]
    BY <1>a
  <2>8. PICK o : o = p + 1
    OBVIOUS
  <2>9. Agree(k, o, x, g1, d1, r) /\ w.at = o
    BY <2>4, <2>8
  <2>10. Agree(k, o, n, g1, d1, u)
    BY <1>a, <2>5, <2>6, <2>7, <2>9, AgreeBox
  <2> QED
    BY <2>8, <2>10
<1>5. Changed(k, p + 1, e, n, gs, g1)
  <2>1. Changed(c, p, b, x, gs, g0)
    BY <1>1, <1>3
  <2>2. \A a \in Pen : g1[a] = g0[a] /\ (w.was)[a] = g1[a]
    BY <1>a
  <2>3. \A i \in 1 .. Len(x) : e[Place(c, x[i])].depth = b[Place(c, x[i])].depth
    BY <1>b, <1>p DEF PlacesStay
  <2>4. ASSUME NEW i \in 1 .. Len(x) PROVE \A m \in b[Place(c, x[i])].depth + 1 .. Len(gs) : m \in 1 .. Len(gs)
    <3>1. PICK h : h = Place(c, x[i])
      OBVIOUS
    <3>2. b[h].depth \in 0 .. Len(gs)
      BY <1>1, <1>p, <3>1 DEF PlacesStay, Depths
    <3> QED
      BY <1>n, <3>1, <3>2
  <2>5. Steady(c, p, b, x, k, gs, g0, e, gs, g1)
    BY <2>2, <2>3, <2>4 DEF Steady
  <2>6. Changed(k, p + 1, e, x, gs, g1)
    BY <1>1, <1>n, <2>1, <2>5, ChangedStep
  <2>7. e[Place(k, w)].depth = Len(gs)
    BY <1>2, <1>b
  <2>8. \A a \in Pen : (w.was)[a] = g1[a]
    BY <2>2
  <2>9. p + 1 \in Nat
    OBVIOUS
  <2> QED
    BY <1>n, <2>6, <2>7, <2>8, <2>9, ChangedBox
<1>6. Runs(n, u)
  BY <1>a, RunsBox
<1>7. ClipsIn(k, e, n, Len(sv), u)
  <2>1. /\ \A m \in 0 .. Len(b) : UpTo(Clips(e), m) = UpTo(Clips(b), m)
        /\ UpTo(Clips(b), Len(b)) \in Nat
        /\ UpTo(Clips(e), Len(e)) = UpTo(Clips(b), Len(b)) + (IF z.type = "clip" THEN 1 ELSE 0)
    BY ClipsAdded
  <2>0. z.type # "clip"
    BY DEF Boxy
  <2>2. UpTo(Clips(e), Len(e)) = UpTo(Clips(b), Len(b))
    BY <2>0, <2>1
  <2>3. r => Len(sv) = UpTo(Clips(b), Len(b))
    BY <1>1, <1>3 DEF ClipsIn
  <2>4. ASSUME NEW i \in 1 .. Len(n), Running(n[i]) PROVE Len(sv) = UpTo(Clips(e), Place(k, n[i]))
    <3>1. CASE i \in 1 .. Len(x)
      <4>1. n[i] = x[i] /\ Place(k, x[i]) = Place(c, x[i]) /\ Place(c, x[i]) \in 0 .. Len(b)
        BY <1>b, <1>p, <3>1 DEF PlacesStay
      <4>2. Len(sv) = UpTo(Clips(b), Place(c, x[i]))
        BY <1>1, <2>4, <3>1, <4>1 DEF ClipsIn
      <4> QED
        BY <2>1, <4>1, <4>2
    <3>2. CASE i \notin 1 .. Len(x)
      <4>1. i = Len(x) + 1
        BY <1>b, <3>2
      <4>2. n[i] = w /\ r /\ Place(k, n[i]) = Len(e)
        BY <1>2, <1>a, <1>b, <2>4, <4>1 DEF Running
      <4> QED
        BY <2>2, <2>3, <4>2
    <3> QED
      BY <3>1, <3>2
  <2>5. u => Len(sv) = UpTo(Clips(e), Len(e))
    BY <1>a, <2>2, <2>3
  <2> QED
    BY <2>4, <2>5 DEF ClipsIn
<1>8. Depths(e, Len(gs))
  <2>1. z.type \notin {"scale", "translate"} /\ Len(gs) \in {Len(gs), Len(gs) + 1}
    BY DEF Boxy
  <2> QED
    BY <1>1, <1>n, <2>1, DepthsBegin
<1>9. Models(gs, t.g) /\ States(sv, t.dev)
  <2>1. t.g.cap = s.g.cap /\ t.dev.cap = s.dev.cap
    BY DEF Pen
  <2> QED
    BY <2>1 DEF Inv, Models, States
<1> QED
  BY <1>2, <1>3, <1>4, <1>5, <1>6, <1>7, <1>8, <1>9 DEF Inv

\* A box ends that is not in its first pass.
LEMMA InvPop ==
  ASSUME NEW c, NEW p \in Nat, NEW b, NEW x, NEW gs, NEW sv, NEW s, Inv(c, p, b, x, gs, sv, s),
         NEW k, Passes(c, k, p, "end"), NEW e, Taken(b, e), b[Len(b)].type \in Boxy, b # <<>>, b[Len(b)].depth = Len(gs),
         NEW n, Taken(x, n), ~ Running(x[Len(x)]),
         NEW t, Moves(s, t, k, p), SameCaps(s, t), \A a \in Pen : t.g[a] = s.g[a]
  PROVE  Inv(k, p + 1, e, n, gs, sv, t)
<1>1. /\ Structure(c, p, b, x) /\ Runs(x, s.real) /\ ClipsIn(c, b, x, Len(sv), s.real) /\ Depths(b, Len(gs))
      /\ Agree(c, p, x, s.g, s.dev, s.real) /\ Changed(c, p, b, x, gs, s.g)
  BY DEF Inv
<1>n. Len(gs) \in Nat /\ Len(sv) \in Nat
  BY DEF Inv, Models, States, Listed
<1>b. /\ Len(b) \in Nat \ {0} /\ Len(e) = Len(b) - 1 /\ \A j \in 1 .. Len(b) - 1 : e[j] = b[j]
      /\ Len(x) \in Nat \ {0} /\ Len(n) = Len(x) - 1 /\ \A i \in 1 .. Len(n) : i \in 1 .. Len(x) /\ n[i] = x[i] /\ i # Len(x)
  BY DEF Taken
<1>2. Structure(k, p + 1, e, n)
  BY <1>1, StructureEndBox
<1>p. PlacesStay(c, k, p, b, x)
  BY <1>1, PlaceOn
<1>q. \A i \in 1 .. Len(n) : Place(c, x[i]) \in 1 .. Len(b) - 1
  <2>1. LastFits(c, b, x)
    BY <1>1, LastBox
  <2>2. \A i \in 1 .. Len(n) : Place(c, x[i]) \in 1 .. Len(b) /\ Place(c, x[i]) # Len(b)
    BY <1>b, <1>p, <2>1 DEF PlacesStay, LastFits
  <2> QED
    BY <1>b, <2>2
<1>3. PICK g0, d0, g1, d1, r : g0 = s.g /\ d0 = s.dev /\ g1 = t.g /\ d1 = t.dev /\ r = s.real
  OBVIOUS
<1>r. Runs(x, r)
  BY <1>1, <1>3
<1>4. Agree(k, p + 1, n, g1, d1, r)
  <2>1. /\ s.real => /\ \A a \in Pen : t.dev[a] = t.g[a] \/ (t.g[a] = s.g[a] /\ t.dev[a] = s.dev[a] /\ ~ Sets(k, a, p))
                     /\ s.dev.fill = s.g.fill => t.dev.fill = t.g.fill
                     /\ s.dev.image = s.g.image => t.dev.image = t.g.image
        /\ ~ s.real => \A a \in Pen \cup {"fill", "image"} : t.dev[a] = s.dev[a]
    BY DEF Moves
  <2>2. /\ r => /\ \A a \in Pen : d1[a] = g1[a] \/ (g1[a] = g0[a] /\ d1[a] = d0[a] /\ ~ Sets(k, a, p))
                /\ d0.fill = g0.fill => d1.fill = g1.fill
                /\ d0.image = g0.image => d1.image = g1.image
        /\ ~ r => \A a \in Pen \cup {"fill", "image"} : d1[a] = d0[a]
    BY <1>3, <2>1
  <2>3. Agree(c, p, x, g0, d0, r)
    BY <1>1, <1>3
  <2>4. Agree(k, p + 1, x, g1, d1, r)
    BY <1>1, <1>r, <2>2, <2>3, AgreeStep
  <2> QED
    BY <1>1, <1>r, <2>4, AgreePop
<1>5. Changed(k, p + 1, e, n, gs, g1)
  <2>1. Changed(c, p, b, x, gs, g0)
    BY <1>1, <1>3
  <2>2. \A a \in Pen : g1[a] = g0[a]
    BY <1>3
  <2>4. ASSUME NEW i \in 1 .. Len(x) PROVE \A m \in b[Place(c, x[i])].depth + 1 .. Len(gs) : m \in 1 .. Len(gs)
    <3>1. PICK h : h = Place(c, x[i])
      OBVIOUS
    <3>2. b[h].depth \in 0 .. Len(gs)
      BY <1>1, <1>p, <3>1 DEF PlacesStay, Depths
    <3> QED
      BY <1>n, <3>1, <3>2
  <2>5. Steady(c, p, b, x, k, gs, g0, b, gs, g1)
    BY <2>2, <2>4 DEF Steady
  <2>6. Changed(k, p + 1, b, x, gs, g1)
    BY <1>1, <1>n, <2>1, <2>5, ChangedStep
  <2>7. Changed(k, p + 1, b, n, gs, g1)
    BY <2>6, ChangedPop
  <2>8. \A i \in 1 .. Len(n) : e[Place(k, n[i])] = b[Place(k, n[i])]
    BY <1>b, <1>p, <1>q DEF PlacesStay
  <2> QED
    BY <2>7, <2>8 DEF Changed
<1>6. Runs(n, r)
  BY <1>r, RunsPop
<1>7. ClipsIn(k, e, n, Len(sv), r)
  <2>1. /\ \A m \in 0 .. Len(e) : UpTo(Clips(e), m) = UpTo(Clips(b), m)
        /\ UpTo(Clips(e), Len(e)) \in Nat
        /\ UpTo(Clips(b), Len(b)) = UpTo(Clips(e), Len(e)) + (IF b[Len(b)].type = "clip" THEN 1 ELSE 0)
    BY ClipsTaken
  <2>0. b[Len(b)].type # "clip"
    BY DEF Boxy
  <2>2. UpTo(Clips(e), Len(e)) = UpTo(Clips(b), Len(b))
    BY <2>0, <2>1
  <2>3. r => Len(sv) = UpTo(Clips(e), Len(e))
    BY <1>1, <1>3, <2>2 DEF ClipsIn
  <2>4. ASSUME NEW i \in 1 .. Len(n), Running(n[i]) PROVE Len(sv) = UpTo(Clips(e), Place(k, n[i]))
    <3>1. i \in 1 .. Len(x) /\ n[i] = x[i] /\ Place(k, n[i]) = Place(c, x[i]) /\ Place(c, x[i]) \in 0 .. Len(e)
      BY <1>b, <1>p, <1>q DEF PlacesStay
    <3>2. Len(sv) = UpTo(Clips(b), Place(c, x[i]))
      BY <1>1, <2>4, <3>1 DEF ClipsIn
    <3> QED
      BY <2>1, <3>1, <3>2
  <2> QED
    BY <2>3, <2>4 DEF ClipsIn
<1>8. Depths(e, Len(gs))
  BY <1>1, <1>n, DepthsEnd
<1>9. State(t) /\ Models(gs, t.g) /\ States(sv, t.dev) /\ t.real = s.real
  BY DEF Inv, Models, States, Moves, SameCaps
<1> QED
  BY <1>2, <1>3, <1>4, <1>5, <1>6, <1>7, <1>8, <1>9 DEF Inv

\* The first pass of a filled box ends, and its content is drawn again.
Again(x, n) ==
  /\ Listed(n) /\ Len(n) = Len(x)
  /\ n[Len(x)].second /\ n[Len(x)].device /\ IsRecord(n[Len(x)])
  /\ \A i \in 1 .. Len(x) : n[i].at = x[i].at /\ (i # Len(x) => n[i] = x[i])

LEMMA InvBack ==
  ASSUME NEW c, NEW p \in Nat, NEW b, NEW x, NEW gs, NEW sv, NEW s, Inv(c, p, b, x, gs, sv, s),
         NEW k, Passes(c, k, p, "end"), b # <<>>, b[Len(b)].type \in Boxy, Running(x[Len(x)]),
         NEW n, Again(x, n),
         NEW t, State(t), t.real = TRUE, \A a \in Pen : t.g[a] = s.g[a] /\ t.dev[a] = s.dev[a],
         t.dev.fill = t.g.fill,
         s.dev.image = (x[Len(x)].was).image => t.dev.image = t.g.image
  PROVE  Inv(k, x[Len(x)].at, b, n, gs, sv, t)
<1>1. /\ Structure(c, p, b, x) /\ Runs(x, s.real) /\ ClipsIn(c, b, x, Len(sv), s.real) /\ Depths(b, Len(gs))
      /\ Agree(c, p, x, s.g, s.dev, s.real) /\ Changed(c, p, b, x, gs, s.g)
  BY DEF Inv
<1>2. /\ Len(b) \in Nat \ {0} /\ Len(x) \in Nat \ {0} /\ Place(c, x[Len(x)]) = Len(b)
  <2>1. LastFits(c, b, x)
    BY <1>1, LastBox
  <2> QED
    BY <2>1 DEF LastFits
<1>0. Listed(n) /\ Len(n) = Len(x) /\ n[Len(x)].second /\ n[Len(x)].device /\ IsRecord(n[Len(x)])
  BY DEF Again
<1>3. \A i \in 1 .. Len(x) : n[i].at = x[i].at /\ (i # Len(x) => n[i] = x[i])
  BY DEF Again
<1>4. Structure(k, x[Len(x)].at, b, n)
  BY <1>0, <1>1, <1>3, StructureBack
<1>5. Runs(n, TRUE) /\ ~ s.real
  <2>1. \A i \in 1 .. Len(x) : i # Len(x) => n[i] = x[i]
    BY <1>3
  <2>2. PICK r : r = s.real
    OBVIOUS
  <2>3. Runs(n, TRUE) /\ ~ r
    BY <1>0, <1>1, <1>2, <2>1, <2>2, RunsBack
  <2> QED
    BY <2>2, <2>3
<1>6. \A i \in 1 .. Len(n) : ~ Running(n[i])
  BY <1>5 DEF Runs
<1>7. ClipsIn(k, b, n, Len(sv), TRUE)
  <2>1. Len(x) \in 1 .. Len(x)
    BY <1>2
  <2>2. Len(sv) = UpTo(Clips(b), Len(b))
    BY <1>1, <1>2, <2>1 DEF ClipsIn
  <2> QED
    BY <1>6, <2>2 DEF ClipsIn
<1>8. Models(gs, t.g) /\ States(sv, t.dev)
  <2>1. t.g.cap = s.g.cap /\ t.dev.cap = s.dev.cap
    BY DEF Pen
  <2> QED
    BY <2>1 DEF Inv, Models, States
<1>9. PICK z, at : z = x[Len(x)] /\ at = z.at
  OBVIOUS
<1>10. /\ AgreeFrom(c, at, x, z.was, s.dev) /\ Since(c, p, z, s.g)
       /\ Len(x) \in 1 .. Len(x) /\ at \in 2 .. p
       /\ Place(k, z) = Len(b)
  <2>1. Len(x) \in 1 .. Len(x)
    BY <1>2
  <2>2. PlacesStay(c, k, p, b, x)
    BY <1>1, PlaceOn
  <2> QED
    BY <1>1, <1>2, <1>9, <2>1, <2>2 DEF Agree, Changed, PlacesStay
<1>11. ASSUME NEW a \in Pen PROVE t.dev[a] = t.g[a] \/ ToCome(k, n, a, at)
  <2>1. CASE ToCome(c, x, a, at)
    <3>1. at \in Nat \ {0}
      BY <1>10
    <3>2. ToCome(k, x, a, at)
      BY <1>1, <2>1, <3>1, ToComeKept
    <3>3. \A i \in 1 .. Len(x) : x[i].second => i \in 1 .. Len(n) /\ n[i].second /\ n[i].at = x[i].at
      BY <1>0, <1>3
    <3> QED
      BY <3>2, <3>3, ToComeMore
  <2>2. CASE SetIn(c, a, at, p - 1)
    <3>1. Listed(c) /\ p \in 1 .. Len(c) + 1 /\ Len(c) \in Nat /\ Level(c, p) = Len(b) /\ IsBox(c, p, b, z)
      BY <1>1, <1>9, <1>10 DEF Structure, BlocksIn, BoxesIn, Listed
    <3>2. \A r \in (at - 1) + 1 .. p : Level(c, r) >= Len(b)
      BY <1>2, <1>9, <3>1 DEF IsBox, Began
    <3>3. \A r \in at .. p : r \in (at - 1) + 1 .. p /\ r \in 1 .. Len(c) + 1
      BY <1>10, <3>1
    <3>4. \A r \in at .. p : Level(k, r) >= Len(b)
      BY <3>2, <3>3 DEF Passes
    <3>5. k[p] = "end" /\ p \in 1 .. Len(k) /\ Level(k, p) = Len(b)
      BY <3>1 DEF Passes
    <3>6. EndsAt(k, n[Len(x)], p)
      <4>1. n[Len(x)].at = at /\ Place(k, n[Len(x)]) = Len(b)
        BY <1>3, <1>9, <1>10 DEF Place
      <4> QED
        BY <3>4, <3>5, <4>1 DEF EndsAt
    <3>7. SetIn(k, a, at, p - 1)
      <4>1. PICK r \in at .. p - 1 : Sets(c, a, r)
        BY <2>2 DEF SetIn
      <4>2. r \in 1 .. Len(c)
        BY <1>10, <3>1
      <4>3. Sets(k, a, r)
        BY <4>1, <4>2 DEF Passes, Sets
      <4> QED
        BY <4>3 DEF SetIn
    <3>8. p \in at .. Len(k)
      BY <1>10, <3>5
    <3> QED
      BY <1>0, <1>10, <3>6, <3>7, <3>8 DEF ToCome
  <2>3. CASE s.dev[a] = (z.was)[a] /\ s.g[a] = (z.was)[a]
    BY <2>3
  <2> QED
    BY <1>9, <1>10, <2>1, <2>2, <2>3 DEF AgreeFrom, Since
<1>12. AgreeFrom(k, at, n, t.g, t.dev)
  BY <1>9, <1>10, <1>11 DEF AgreeFrom
<1>13. Agree(k, at, n, t.g, t.dev, TRUE)
  BY <1>6, <1>12 DEF Agree
<1>14. Changed(k, at, b, n, gs, t.g)
  BY <1>6 DEF Changed
<1> QED
  BY <1>1, <1>4, <1>5, <1>7, <1>8, <1>9, <1>13, <1>14 DEF Inv
-----------------------------------------------------------------------------
(* The steps.  What a script may do although the code does not cope with it *)
(* is left out where it matters: caps that change within a state that is     *)
(* saved (g_set_state does not send them), a matrix that changes within a    *)
(* clip, or in a filled box without a block (their matrix is not that of     *)
(* GLE), and blocks and saved states that cross.                             *)

Coped == {"cap", "clip", "replay", "cross"} \cap Lapses = {}
IInv == Inv(code, pc, blocks, boxes, gsave, saved, Now)

LEMMA IInvIs ==
  ASSUME IInv
  PROVE  /\ pc \in Nat /\ pc \in 1 .. Len(code) + 1 /\ Listed(code) /\ Listed(blocks) /\ Listed(boxes) /\ Listed(gsave) /\ Listed(saved)
         /\ State(Now) /\ Len(gsave) \in Nat /\ Len(blocks) \in Nat /\ real \in BOOLEAN
         /\ Now.g = g /\ Now.dev = dev /\ Now.real = real
<1>1. Listed(code) /\ pc \in 1 .. Len(code) + 1 /\ Listed(blocks) /\ Listed(boxes) /\ Listed(gsave) /\ Listed(saved)
  BY DEF IInv, Inv, Structure, BlocksIn, BoxesIn, Models, States
<1>2. Now.g = g /\ Now.dev = dev /\ Now.real = real
  BY DEF Now
<1>3. State(Now) /\ real \in BOOLEAN
  BY <1>2 DEF IInv, Inv, Runs
<1> QED
  BY <1>1, <1>2, <1>3 DEF Listed

LEMMA NowIs == ASSUME NEW t, Becomes(t), State(t) PROVE Now' = t
BY DEF Becomes, State, Now

LEMMA MeetsIs == ASSUME IInv, NEW y, NEW room, Meets(y, room) PROVE Passes(code, code', pc, y)
<1>1. pc \in 1 .. Len(code) + 1 /\ Listed(code)
  BY IInvIs
<1>2. IF pc <= Len(code) THEN code[pc] = y /\ code' = code ELSE code' = Append(code, y)
  BY DEF Meets
<1>3. PICK k : k = code'
  OBVIOUS
<1>4. IF pc <= Len(code) THEN code[pc] = y /\ k = code ELSE k = Append(code, y)
  BY <1>2, <1>3
<1>5. Passes(code, k, pc, y)
  BY <1>1, <1>4, PassesIs
<1> QED
  BY <1>3, <1>5

LEMMA EndsIs ==
  ASSUME IInv, NEW type, Ends(type), Coped
  PROVE  /\ Passes(code, code', pc, "end")
         /\ blocks # <<>> /\ blocks[Len(blocks)].type = type /\ blocks[Len(blocks)].depth = Len(gsave)
         /\ Taken(blocks, Front(blocks))
<1>1. pc \in 1 .. Len(code) + 1 /\ Listed(code) /\ Listed(blocks)
  BY IInvIs
<1>2. IF pc <= Len(code) THEN code[pc] = "end" /\ code' = code ELSE code' = Append(code, "end")
  BY DEF Ends
<1>3. PICK k : k = code'
  OBVIOUS
<1>4. IF pc <= Len(code) THEN code[pc] = "end" /\ k = code ELSE k = Append(code, "end")
  BY <1>2, <1>3
<1>5. Passes(code, k, pc, "end")
  BY <1>1, <1>4, PassesIs
<1>6. blocks # <<>>
  BY DEF Ends
<1>7. Taken(blocks, Front(blocks)) /\ Last(blocks) = blocks[Len(blocks)]
  BY <1>1, <1>6, TakenIs
<1>8. Last(blocks).type = type /\ Len(gsave) = Last(blocks).depth
  BY DEF Ends, Coped
<1> QED
  BY <1>3, <1>5, <1>6, <1>7, <1>8

LEMMA SettingsIs ==
  /\ DOMAIN Settings = {"red", "wide", "round", "yellow"}
  /\ Settings["red"] = <<"color", "red">> /\ Settings["wide"] = <<"width", 2>>
  /\ Settings["round"] = <<"cap", "round">> /\ Settings["yellow"] = <<"fill", "yellow">>
BY DEF Settings

LEMMA NotSet ==
  ASSUME NEW c, NEW p, NEW k, NEW y, Passes(c, k, p, y), y \notin {"red", "wide", "round", "yellow"}
  PROVE  \A a \in Pen : ~ Sets(k, a, p)
BY SettingsIs DEF Passes, Sets

LEMMA SameStacks ==
  ASSUME NEW c, NEW b, NEW x, NEW gs, NEW s, NEW t, NEW k, NEW p, \A a \in Pen : t.g[a] = s.g[a] \/ Sets(k, a, p)
  PROVE  Stacks(c, b, x, gs, gs, s, t, k, p)
BY DEF Stacks

LEMMA SetAttributeIs == ASSUME IInv, Coped, SetAttribute PROVE IInv'
<1>1. PICK command \in DOMAIN Settings :
        /\ Obeys(command) /\ Goes
        /\ command = "round" => "cap" \in Lapses \/ (gsave = <<>> /\ saved = <<>>)
        /\ LET attribute == Settings[command][1]
               value == Settings[command][2]
           IN Becomes(IF attribute = "fill" THEN SetFill(Now, value) ELSE Set(Now, attribute, value))
        /\ UNCHANGED <<blocks, gsave, boxes, path, saved>>
  BY DEF SetAttribute
<1>2. PICK attribute, value : attribute = Settings[command][1] /\ value = Settings[command][2]
  OBVIOUS
<1>3. PICK t : t = IF attribute = "fill" THEN SetFill(Now, value) ELSE Set(Now, attribute, value)
  OBVIOUS
<1>4. Becomes(t)
  BY <1>1, <1>2, <1>3
<1>5. Passes(code, code', pc, command)
  BY <1>1, MeetsIs DEF Obeys
<1>6. command \in {"red", "wide", "round", "yellow"}
  BY SettingsIs
<1>7. Turn(command) = 0
  BY <1>6 DEF Turn, Blocks
<1>8. /\ attribute \in Pen \cup {"fill"} /\ (attribute = "cap" => command = "round")
      /\ \A a : Sets(code', a, pc) <=> a = attribute
  <2>1. attribute \in Pen \cup {"fill"} /\ (attribute = "cap" => command = "round")
    BY <1>2, <1>6, SettingsIs DEF Pen
  <2>2. code'[pc] = command
    BY <1>5 DEF Passes
  <2> QED
    BY <1>2, <2>1, <2>2 DEF Sets
<1>9. PICK s, k : s = Now /\ k = code'
  OBVIOUS
<1>10. State(s) /\ Inv(code, pc, blocks, boxes, gsave, saved, s) /\ pc \in Nat
  BY <1>9, IInvIs DEF IInv
<1>11. Moves(s, t, k, pc) /\ (\A a \in Pen : t.g[a] = s.g[a] \/ Sets(k, a, pc)) /\ (attribute # "cap" => SameCaps(s, t))
  <2>1. CASE attribute = "fill"
    <3>1. t = SetFill(s, value)
      BY <1>3, <1>9, <2>1
    <3>2. Follows(s, t)
      BY <1>10, <3>1, SetFillIs
    <3>3. \A a \in Pen : ~ Sets(k, a, pc)
      BY <1>8, <1>9, <2>1 DEF Pen
    <3> QED
      BY <3>2, <3>3, MovesIs
  <2>2. CASE attribute # "fill"
    <3>1. t = Set(s, attribute, value) /\ attribute \in Pen
      BY <1>3, <1>8, <1>9, <2>2
    <3>2. /\ State(t) /\ t.real = s.real
          /\ \A b \in Pen \cup {"fill", "image"} :
               /\ t.g[b] = IF b = attribute THEN value ELSE s.g[b]
               /\ t.dev[b] = IF s.real /\ b = attribute THEN value ELSE s.dev[b]
      BY <1>10, <3>1, SetIs
    <3>3. \A a \in Pen : Sets(k, a, pc) <=> a = attribute
      BY <1>8, <1>9
    <3>4. attribute # "cap" => SameCaps(s, t)
      BY <3>2 DEF SameCaps, Pen
    <3>5. \A a \in Pen : t.g[a] = s.g[a] \/ Sets(k, a, pc)
      BY <3>2, <3>3
    <3>6. Moves(s, t, k, pc)
      <4>1. s.real => \A a \in Pen : t.dev[a] = t.g[a] \/ (t.g[a] = s.g[a] /\ t.dev[a] = s.dev[a] /\ ~ Sets(k, a, pc))
        BY <3>2, <3>3
      <4>2. t.g.fill = s.g.fill /\ t.dev.fill = s.dev.fill /\ t.g.image = s.g.image /\ t.dev.image = s.dev.image
        BY <3>1, <3>2 DEF Pen
      <4>3. ~ s.real => \A a \in Pen \cup {"fill", "image"} : t.dev[a] = s.dev[a]
        BY <3>2
      <4> QED
        BY <3>2, <4>1, <4>2, <4>3 DEF Moves
    <3> QED
      BY <3>4, <3>5, <3>6
  <2> QED
    BY <2>1, <2>2
<1>12. SameCaps(s, t) \/ (Len(gsave) = 0 /\ Len(saved) = 0 /\ gsave = gsave)
  BY <1>1, <1>8, <1>11 DEF Coped
<1>13. Depths(blocks, Len(gsave)) /\ Passes(code, k, pc, command)
  BY <1>5, <1>9, <1>10 DEF Inv
<1>14. Stacks(code, blocks, boxes, gsave, gsave, s, t, k, pc)
  BY <1>11, SameStacks
<1>15. Inv(code, pc, blocks, boxes, gsave, saved, s) => Inv(k, pc + 1, blocks, boxes, gsave, saved, t)
  BY <1>7, <1>10, <1>11, <1>12, <1>13, <1>14, InvPlain
<1>16. Now' = t
  BY <1>4, <1>11, NowIs DEF Moves
<1> QED
  BY <1>1, <1>9, <1>10, <1>15, <1>16 DEF IInv, Goes

\* A command that only draws, or changes the matrix
LEMMA PlainIs ==
  ASSUME IInv, NEW y, y \notin {"red", "wide", "round", "yellow"}, Turn(y) = 0, NEW room, Meets(y, room),
         NEW t, Follows(Now, t), Becomes(t), Goes, UNCHANGED <<blocks, gsave, boxes, saved>>
  PROVE  IInv'
<1>1. Passes(code, code', pc, y)
  BY MeetsIs
<1>2. PICK s, k : s = Now /\ k = code'
  OBVIOUS
<1>3. Passes(code, k, pc, y) /\ Follows(s, t) /\ Inv(code, pc, blocks, boxes, gsave, saved, s) /\ pc \in Nat
  BY <1>1, <1>2, IInvIs DEF IInv
<1>4. \A a \in Pen : ~ Sets(k, a, pc)
  BY <1>3, NotSet
<1>5. Moves(s, t, k, pc) /\ SameCaps(s, t) /\ \A a \in Pen : t.g[a] = s.g[a]
  BY <1>3, <1>4, MovesIs
<1>6. Stacks(code, blocks, boxes, gsave, gsave, s, t, k, pc)
  BY <1>5, SameStacks
<1>7. Depths(blocks, Len(gsave))
  BY <1>3 DEF Inv
<1>8. Inv(k, pc + 1, blocks, boxes, gsave, saved, t)
  BY <1>3, <1>5, <1>6, <1>7, InvPlain
<1>9. Now' = t
  BY <1>5, NowIs DEF Moves
<1> QED
  BY <1>2, <1>8, <1>9 DEF IInv, Goes

LEMMA DrawIs == ASSUME IInv, Draw PROVE IInv'
<1>1. State(Now) /\ Goes /\ UNCHANGED <<blocks, gsave, boxes, saved>>
  BY IInvIs DEF Draw
<1>2. /\ Follows(Now, Move(Now, g.cur + Unit)) /\ Follows(Now, LineTo(Now, g.cur + Unit))
      /\ Follows(Now, DrawCircle(Now))
  BY <1>1, MoveIs, LineToIs, DrawCircleIs, KeepsFollows
<1>3. Turn("move") = 0 /\ Turn("line") = 0 /\ Turn("circle") = 0
  BY DEF Turn, Blocks
<1>4. CASE Obeys("move") /\ Becomes(Move(Now, g.cur + Unit))
  BY <1>1, <1>2, <1>3, <1>4, PlainIs DEF Obeys
<1>5. CASE Obeys("line") /\ Becomes(LineTo(Now, g.cur + Unit))
  BY <1>1, <1>2, <1>3, <1>5, PlainIs DEF Obeys
<1>6. CASE Obeys("circle") /\ Becomes(DrawCircle(Now))
  BY <1>1, <1>2, <1>3, <1>6, PlainIs DEF Obeys
<1> QED
  BY <1>4, <1>5, <1>6 DEF Draw

LEMMA TransformIs == ASSUME IInv, Transform PROVE IInv'
<1>1. State(Now) /\ Goes /\ UNCHANGED <<blocks, gsave, boxes, saved>>
  BY IInvIs DEF Transform
<1>2. Follows(Now, Translate(Now)) /\ Follows(Now, Scale(Now))
  BY <1>1, TranslateIs, ScaleIs
<1>3. Turn("shift") = 0 /\ Turn("halve") = 0
  BY DEF Turn, Blocks
<1>4. CASE Obeys("shift") /\ Becomes(Translate(Now))
  BY <1>1, <1>2, <1>3, <1>4, PlainIs DEF Obeys
<1>5. CASE Obeys("halve") /\ Becomes(Scale(Now))
  BY <1>1, <1>2, <1>3, <1>5, PlainIs DEF Obeys
<1> QED
  BY <1>4, <1>5 DEF Transform

\* A state is saved, by GSAVE and by blocks.
LEMMA SaveIs ==
  ASSUME IInv, NEW m, GModel(m), gsave' = Append(gsave, m)
  PROVE  Added(gsave, gsave', m) /\ Len(gsave') = Len(gsave) + 1
<1>1. Listed(gsave)
  BY IInvIs
<1>2. PICK h : h = gsave'
  OBVIOUS
<1>3. Added(gsave, h, m)
  BY <1>1, <1>2, AddedIs
<1> QED
  BY <1>2, <1>3 DEF Added

LEMMA GSaveIs == ASSUME IInv, GSave PROVE IInv'
<1>1. PICK s, k, t, h : s = Now /\ k = code' /\ t = Saved(Now) /\ h = gsave'
  OBVIOUS
<1>2. Inv(code, pc, blocks, boxes, gsave, saved, s) /\ pc \in Nat /\ State(s) /\ Len(gsave) \in Nat
  BY <1>1, IInvIs DEF IInv
<1>3. Passes(code, k, pc, "gsave")
  BY <1>1, MeetsIs DEF GSave, Obeys
<1>4. (\A a \in Pen : ~ Sets(k, a, pc)) /\ Turn("gsave") = 0
  BY <1>3, NotSet DEF Turn, Blocks
<1>5. Follows(s, t)
  BY <1>1, <1>2, SavedIs, KeepsFollows
<1>6. Moves(s, t, k, pc) /\ SameCaps(s, t) /\ \A a \in Pen : t.g[a] = s.g[a]
  BY <1>4, <1>5, MovesIs
<1>7. Added(gsave, h, s.g) /\ GModel(s.g) /\ Len(h) = Len(gsave) + 1
  BY <1>1, <1>2, SaveIs DEF GSave, Save, State
<1>8. Stacks(code, blocks, boxes, gsave, h, s, t, k, pc)
  BY <1>6, <1>7 DEF Stacks
<1>9. Depths(blocks, Len(h))
  BY <1>2, <1>7, DepthsPush DEF Inv
<1>10. Inv(k, pc + 1, blocks, boxes, h, saved, t)
  BY <1>2, <1>3, <1>4, <1>6, <1>8, <1>9, InvPlain
<1>11. Now' = t
  BY <1>1, <1>6, NowIs DEF GSave, Moves
<1> QED
  BY <1>1, <1>10, <1>11 DEF IInv, GSave, Goes

\* The state of s comes back.
Restored(gs, hs, s, t) ==
  \/ gs = <<>> /\ hs = gs /\ \A a \in Pen : t.g[a] = s.g[a]
  \/ gs # <<>> /\ Taken(gs, hs) /\ \A a \in Pen : t.g[a] = gs[Len(gs)][a]

LEMMA RestoreIs ==
  ASSUME IInv, Restore, NEW k, \A a \in Pen : ~ Sets(k, a, pc)
  PROVE  \E t : Becomes(t) /\ Moves(Now, t, k, pc) /\ SameCaps(Now, t) /\ Restored(gsave, gsave', Now, t)
<1>1. PICK s, f : s = Now /\ f = Flush(Now)
  OBVIOUS
<1>2. Inv(code, pc, blocks, boxes, gsave, saved, s) /\ State(s) /\ Listed(gsave) /\ Len(gsave) \in Nat
  BY <1>1, IInvIs DEF IInv
<1>3. Keeps(s, f)
  BY <1>1, <1>2, FlushIs
<1>4. CASE gsave = <<>>
  <2>1. Becomes(f) /\ gsave' = gsave
    BY <1>1, <1>4 DEF Restore
  <2>2. Moves(s, f, k, pc) /\ SameCaps(s, f) /\ \A a \in Pen : f.g[a] = s.g[a]
    BY <1>3, KeepsFollows, MovesIs
  <2> QED
    BY <1>1, <1>4, <2>1, <2>2 DEF Restored
<1>5. CASE gsave # <<>>
  <2>1. PICK t, old, h : t = SetState(f, Last(gsave)) /\ old = Last(gsave) /\ h = Front(gsave)
    OBVIOUS
  <2>2. Becomes(t) /\ gsave' = h
    BY <1>1, <1>5, <2>1 DEF Restore
  <2>3. Taken(gsave, h) /\ old = gsave[Len(gsave)] /\ Len(gsave) \in 1 .. Len(gsave)
    BY <1>2, <1>5, <2>1, TakenIs DEF Taken
  <2>4. GModel(old) /\ old.cap = s.g.cap
    BY <1>2, <2>3 DEF Inv, Models
  <2>5. /\ State(t) /\ t.real = f.real
        /\ \A a \in Pen \cup {"fill", "image"} : t.g[a] = old[a]
        /\ t.dev.cap = f.dev.cap
        /\ f.real => t.dev.color = old.color /\ t.dev.width = old.width /\ t.dev.fill = old.fill
                     /\ (f.dev.image = f.g.image => t.dev.image = old.image)
        /\ ~ f.real => \A a \in Pen \cup {"fill", "image"} : t.dev[a] = f.dev[a]
    <3>1. State(f)
      BY <1>3 DEF Keeps
    <3> QED
      BY <2>1, <2>4, <3>1, SetStateIs
  <2>6. f.real = s.real /\ \A a \in Pen \cup {"fill", "image"} : f.g[a] = s.g[a] /\ f.dev[a] = s.dev[a]
    BY <1>3 DEF Keeps
  <2>7. f.dev.cap = s.dev.cap /\ f.dev.image = s.dev.image /\ f.g.image = s.g.image
        /\ t.g.cap = old.cap /\ t.g.color = old.color /\ t.g.width = old.width /\ t.g.fill = old.fill /\ t.g.image = old.image
    BY <2>5, <2>6 DEF Pen
  <2>8. SameCaps(s, t)
    BY <2>4, <2>5, <2>7 DEF SameCaps
  <2>9. Moves(s, t, k, pc)
    <3>1. ASSUME s.real, NEW a \in Pen
          PROVE  t.dev[a] = t.g[a] \/ (t.g[a] = s.g[a] /\ t.dev[a] = s.dev[a] /\ ~ Sets(k, a, pc))
      <4>1. CASE a = "cap"
        BY <4>1, <2>8 DEF SameCaps
      <4>2. CASE a \in {"color", "width"}
        BY <3>1, <4>2, <2>5, <2>6, <2>7
      <4> QED
        BY <4>1, <4>2 DEF Pen
    <3>2. s.real => t.dev.fill = t.g.fill /\ (s.dev.image = s.g.image => t.dev.image = t.g.image)
      BY <2>5, <2>6, <2>7
    <3>3. ~ s.real => \A a \in Pen \cup {"fill", "image"} : t.dev[a] = s.dev[a]
      BY <2>5, <2>6
    <3> QED
      BY <2>5, <2>6, <3>1, <3>2, <3>3 DEF Moves
  <2>10. \A a \in Pen : t.g[a] = gsave[Len(gsave)][a]
    BY <2>3, <2>5
  <2> QED
    BY <1>1, <1>5, <2>2, <2>3, <2>8, <2>9, <2>10 DEF Restored
<1> QED
  BY <1>4, <1>5

LEMMA GRestoreIs == ASSUME IInv, Coped, GRestore PROVE IInv'
<1>1. PICK s, k, h : s = Now /\ k = code' /\ h = gsave'
  OBVIOUS
<1>2. Inv(code, pc, blocks, boxes, gsave, saved, s) /\ pc \in Nat /\ Listed(blocks) /\ Len(blocks) \in Nat /\ Len(gsave) \in Nat
  BY <1>1, IInvIs DEF IInv
<1>3. Passes(code, k, pc, "grestore")
  BY <1>1, MeetsIs DEF GRestore, Obeys
<1>4. (\A a \in Pen : ~ Sets(k, a, pc)) /\ Turn("grestore") = 0
  BY <1>3, NotSet DEF Turn, Blocks
<1>5. PICK t : Becomes(t) /\ Moves(s, t, k, pc) /\ SameCaps(s, t) /\ Restored(gsave, h, s, t)
  BY <1>1, <1>4, RestoreIs DEF GRestore
<1>6. Len(blocks) > 0 => Len(gsave) > blocks[Len(blocks)].depth
  <2>1. blocks # <<>> => Len(gsave) > Last(blocks).depth
    BY DEF GRestore, Coped
  <2>2. Last(blocks) = blocks[Len(blocks)]
    BY DEF Last
  <2>3. blocks = <<>> => Len(blocks) = 0
    OBVIOUS
  <2> QED
    BY <1>2, <2>1, <2>2, <2>3
<1>7. Structure(code, pc, blocks, boxes) /\ Depths(blocks, Len(gsave))
  BY <1>2 DEF Inv
<1>8. Stacks(code, blocks, boxes, gsave, h, s, t, k, pc) /\ Depths(blocks, Len(h))
  <2>1. CASE gsave = <<>> /\ h = gsave /\ \A a \in Pen : t.g[a] = s.g[a]
    BY <1>7, <2>1, SameStacks
  <2>2. CASE gsave # <<>> /\ Taken(gsave, h) /\ \A a \in Pen : t.g[a] = gsave[Len(gsave)][a]
    <3>1. Len(h) \in Nat /\ Len(gsave) = Len(h) + 1
      BY <2>2 DEF Taken, Listed
    <3>2. Depths(blocks, Len(h))
      BY <1>2, <1>6, <1>7, <3>1, DepthsPop
    <3>3. PlacesStay(code, k, pc, blocks, boxes)
      BY <1>2, <1>3, <1>7, PlaceOn
    <3>4. ASSUME NEW i \in 1 .. Len(boxes) PROVE blocks[Place(code, boxes[i])].depth < Len(gsave)
      <4>1. PICK j : j = Place(code, boxes[i])
        OBVIOUS
      <4>2. j \in 1 .. Len(blocks)
        BY <3>3, <4>1 DEF PlacesStay
      <4>3. blocks[j].depth \in 0 .. Len(h)
        BY <3>2, <4>2 DEF Depths
      <4> QED
        BY <3>1, <4>1, <4>3
    <3> QED
      BY <2>2, <3>2, <3>4 DEF Stacks
  <2> QED
    BY <1>5, <2>1, <2>2 DEF Restored
<1>9. Inv(k, pc + 1, blocks, boxes, h, saved, t)
  BY <1>2, <1>3, <1>4, <1>5, <1>8, InvPlain
<1>10. Now' = t
  BY <1>5, NowIs DEF Moves
<1> QED
  BY <1>1, <1>9, <1>10 DEF IInv, GRestore, Goes

-----------------------------------------------------------------------------
(* Blocks.                                                                  *)

LEMMA BeginsIs ==
  ASSUME IInv, NEW y \in Blocks, NEW depth, Begins(y, depth)
  PROVE  /\ Passes(code, code', pc, y) /\ pc' = pc + 1
         /\ Added(blocks, blocks', [type |-> y, depth |-> depth])
         /\ \A a \in Pen : ~ Sets(code', a, pc)
<1>1. Passes(code, code', pc, y) /\ pc' = pc + 1
  BY MeetsIs DEF Begins, Goes
<1>2. Listed(blocks) /\ blocks' = Append(blocks, [type |-> y, depth |-> depth])
  BY IInvIs DEF Begins
<1>3. PICK e : e = blocks'
  OBVIOUS
<1>4. Added(blocks, e, [type |-> y, depth |-> depth])
  BY <1>2, <1>3, AddedIs
<1>5. y \notin {"red", "wide", "round", "yellow"}
  BY DEF Blocks
<1>6. PICK k : k = code'
  OBVIOUS
<1>7. \A a \in Pen : ~ Sets(k, a, pc)
  BY <1>1, <1>5, <1>6, NotSet
<1> QED
  BY <1>1, <1>3, <1>4, <1>6, <1>7

LEMMA BeginTransformIs == ASSUME IInv, BeginTransform PROVE IInv'
<1>1. PICK s, k, f, e, h, v : s = Now /\ k = code' /\ f = Flush(Now) /\ e = blocks' /\ h = gsave' /\ v = Saved(Flush(Now))
  OBVIOUS
<1>2. Inv(code, pc, blocks, boxes, gsave, saved, s) /\ pc \in Nat /\ State(s) /\ Len(gsave) \in Nat
  BY <1>1, IInvIs DEF IInv
<1>3. Keeps(s, f) /\ Keeps(f, v) /\ State(f)
  <2>1. Keeps(s, f)
    BY <1>1, <1>2, FlushIs
  <2>2. State(f)
    BY <2>1 DEF Keeps
  <2> QED
    BY <1>1, <2>1, <2>2, SavedIs
<1>4. PICK y, t :
         y \in {"translate", "scale"} /\ Begins(y, Len(gsave) + 1) /\ Becomes(t) /\ Follows(s, t)
  <2>1. CASE Begins("translate", Len(gsave) + 1) /\ Becomes(Move(Translate(Saved(Flush(Now))), g.cur))
    <3>1. PICK u : u = Translate(v)
      OBVIOUS
    <3>2. Follows(v, u)
      BY <1>3, <3>1, TranslateIs DEF Keeps
    <3>3. Keeps(u, Move(u, g.cur))
      BY <3>2, MoveIs DEF Follows
    <3>4. Follows(s, Move(u, g.cur))
      BY <1>3, <3>2, <3>3, KeepsFollows, FollowsAll
    <3> QED
      BY <1>1, <2>1, <3>1, <3>4
  <2>2. CASE Begins("scale", Len(gsave) + 1) /\ Becomes(Scale(Saved(Flush(Now))))
    <3>1. PICK u : u = Scale(v)
      OBVIOUS
    <3>2. Follows(v, u)
      BY <1>3, <3>1, ScaleIs DEF Keeps
    <3>3. Follows(s, u)
      BY <1>3, <3>2, KeepsFollows, FollowsAll
    <3> QED
      BY <1>1, <2>2, <3>1, <3>3
  <2> QED
    BY <2>1, <2>2 DEF BeginTransform
<1>5. y \in Blocks \ Boxy /\ y \in {"scale", "translate"} /\ y # "clip"
  BY <1>4 DEF Blocks, Boxy
<1>6. PICK z : z = [type |-> y, depth |-> Len(gsave) + 1]
  OBVIOUS
<1>7. Passes(code, k, pc, y) /\ pc' = pc + 1 /\ Added(blocks, e, z) /\ \A a \in Pen : ~ Sets(k, a, pc)
  BY <1>1, <1>4, <1>5, <1>6, BeginsIs
<1>8. Moves(s, t, k, pc) /\ SameCaps(s, t) /\ \A a \in Pen : t.g[a] = s.g[a]
  BY <1>4, <1>7, MovesIs
<1>9. Added(gsave, h, f.g) /\ GModel(f.g) /\ Len(h) = Len(gsave) + 1
  BY <1>1, <1>3, SaveIs DEF BeginTransform, Save, State
<1>10. \A a \in Pen : (f.g)[a] = s.g[a]
  BY <1>3 DEF Keeps
<1>11. Stacks(code, blocks, boxes, gsave, h, s, t, k, pc)
  BY <1>8, <1>9, <1>10 DEF Stacks
<1>12. z.type = y /\ z.depth = Len(h)
  BY <1>6, <1>9
<1>13. Inv(k, pc + 1, e, boxes, h, saved, t)
  BY <1>2, <1>5, <1>7, <1>8, <1>9, <1>11, <1>12, InvBegin
<1>14. Now' = t
  BY <1>4, <1>8, NowIs DEF Moves
<1> QED
  BY <1>1, <1>7, <1>13, <1>14 DEF IInv, BeginTransform

LEMMA EndTransformIs == ASSUME IInv, Coped, EndTransform PROVE IInv'
<1>1. PICK s, k, e, h : s = Now /\ k = code' /\ e = blocks' /\ h = gsave'
  OBVIOUS
<1>2. Inv(code, pc, blocks, boxes, gsave, saved, s) /\ pc \in Nat /\ Listed(gsave)
  BY <1>1, IInvIs DEF IInv
<1>3. PICK y \in {"translate", "scale"} : Ends(y)
  BY DEF EndTransform
<1>4. /\ Passes(code, k, pc, "end") /\ Taken(blocks, e) /\ blocks # <<>>
      /\ blocks[Len(blocks)].type = y /\ blocks[Len(blocks)].depth = Len(gsave)
  BY <1>1, <1>3, EndsIs DEF EndTransform
<1>5. \A a \in Pen : ~ Sets(k, a, pc)
  BY <1>4, NotSet
<1>6. PICK t : Becomes(t) /\ Moves(s, t, k, pc) /\ SameCaps(s, t) /\ Restored(gsave, h, s, t)
  BY <1>1, <1>5, RestoreIs DEF EndTransform
<1>7. gsave # <<>>
  <2>1. Len(blocks) \in 1 .. Len(blocks)
    BY <1>4 DEF Taken
  <2>2. blocks[Len(blocks)].depth > 0
    BY <1>2, <1>4, <2>1 DEF Inv, Depths
  <2>3. gsave = <<>> => Len(gsave) = 0
    OBVIOUS
  <2> QED
    BY <1>4, <2>2, <2>3
<1>8. Taken(gsave, h) /\ \A a \in Pen : t.g[a] = gsave[Len(gsave)][a]
  BY <1>6, <1>7 DEF Restored
<1>9. blocks[Len(blocks)].type \notin Boxy /\ blocks[Len(blocks)].type \in {"scale", "translate"}
      /\ blocks[Len(blocks)].type # "clip"
  BY <1>4 DEF Boxy
<1>10. Inv(k, pc + 1, e, boxes, h, saved, t)
  BY <1>2, <1>4, <1>6, <1>8, <1>9, InvEnd
<1>11. Now' = t
  BY <1>6, NowIs DEF Moves
<1> QED
  BY <1>1, <1>10, <1>11 DEF IInv, EndTransform, Goes

LEMMA BeginPathIs == ASSUME IInv, BeginPath PROVE IInv'
<1>1. PICK s, k, f, e : s = Now /\ k = code' /\ f = Flush(Now) /\ e = blocks'
  OBVIOUS
<1>2. Inv(code, pc, blocks, boxes, gsave, saved, s) /\ pc \in Nat /\ State(s)
  BY <1>1, IInvIs DEF IInv
<1>3. Keeps(s, f) /\ State(f)
  BY <1>1, <1>2, FlushIs DEF Keeps
<1>4. PICK y, c :
         y \in Paths /\ Begins(y, Len(gsave)) /\ Becomes([f EXCEPT !.g.inpath = TRUE, !.g.xinline = FALSE, !.dev.contour = c])
  BY <1>1, <1>3 DEF BeginPath, State, Device, DevFields
<1>5. PICK t : t = [f EXCEPT !.g.inpath = TRUE, !.g.xinline = FALSE, !.dev.contour = c]
  OBVIOUS
<1>6. Follows(s, t)
  <2>1. PICK u : u = [f EXCEPT !.g.inpath = TRUE]
    OBVIOUS
  <2>2. PICK v : v = [u EXCEPT !.g.xinline = FALSE]
    OBVIOUS
  <2>3. Keeps(f, u) /\ State(u)
    <3>1. Keeps(f, u)
      BY <1>3, <2>1, Stays DEF GFields, Pen
    <3> QED
      BY <3>1 DEF Keeps
  <2>4. Keeps(u, v) /\ State(v)
    <3>1. Keeps(u, v)
      BY <2>2, <2>3, Stays DEF GFields, Pen
    <3> QED
      BY <3>1 DEF Keeps
  <2>5. Keeps(v, [v EXCEPT !.dev.contour = c])
    BY <2>4, ContourIs
  <2>6. t = [v EXCEPT !.dev.contour = c]
    BY <1>5, <2>1, <2>2
  <2> QED
    BY <1>3, <2>3, <2>4, <2>5, <2>6, KeepsAll, KeepsFollows
<1>7. y \in Blocks \ Boxy /\ y \notin {"scale", "translate"} /\ y # "clip"
  BY <1>4 DEF Paths, Blocks, Boxy
<1>8. PICK z : z = [type |-> y, depth |-> Len(gsave)]
  OBVIOUS
<1>9. Passes(code, k, pc, y) /\ pc' = pc + 1 /\ Added(blocks, e, z) /\ \A a \in Pen : ~ Sets(k, a, pc)
  BY <1>1, <1>4, <1>7, <1>8, BeginsIs
<1>10. Moves(s, t, k, pc) /\ SameCaps(s, t) /\ \A a \in Pen : t.g[a] = s.g[a]
  BY <1>6, <1>9, MovesIs
<1>11. Stacks(code, blocks, boxes, gsave, gsave, s, t, k, pc)
  BY <1>10, SameStacks
<1>12. z.type = y /\ z.depth = Len(gsave)
  BY <1>8
<1>13. Inv(k, pc + 1, e, boxes, gsave, saved, t)
  BY <1>2, <1>7, <1>9, <1>10, <1>11, <1>12, InvBegin
<1>14. Now' = t
  BY <1>4, <1>5, <1>10, NowIs DEF Moves
<1> QED
  BY <1>1, <1>9, <1>13, <1>14 DEF IInv, BeginPath

LEMMA EndPathIs == ASSUME IInv, Coped, EndPath PROVE IInv'
<1>1. PICK s, k, e : s = Now /\ k = code' /\ e = blocks'
  OBVIOUS
<1>2. Inv(code, pc, blocks, boxes, gsave, saved, s) /\ pc \in Nat /\ State(s)
  BY <1>1, IInvIs DEF IInv
<1>3. PICK y \in Paths : Ends(y)
  BY DEF EndPath, Paths
<1>4. /\ Passes(code, k, pc, "end") /\ Taken(blocks, e) /\ blocks # <<>>
      /\ blocks[Len(blocks)].type = y /\ blocks[Len(blocks)].depth = Len(gsave)
  BY <1>1, <1>3, EndsIs DEF EndPath
<1>5. \A a \in Pen : ~ Sets(k, a, pc)
  BY <1>4, NotSet
<1>6. PICK t : Becomes(t) /\ Follows(s, t)
  <2> DEFINE set == SetFill(Now, path.fill)
             filled == IF path.fill = Clear THEN Now
                       ELSE IF real THEN Paint(set, Filled(dev.contour, set.dev.fill)) ELSE set
             stroked == IF path.stroke /\ real THEN Paint(filled, Strokes(dev)) ELSE filled
             moved == Move(stroked, path.at)
             left == [moved EXCEPT !.g.inpath = FALSE, !.g.xinline = FALSE]
             t == SetFill(left, path.backup)
  <2>1. Becomes(t)
    BY DEF EndPath
  <2>2. Follows(s, set) /\ State(set)
    BY <1>1, <1>2, SetFillIs DEF Follows
  <2>3. Follows(s, filled)
    <3>1. \A ink : Keeps(set, Paint(set, ink))
      BY <2>2, PaintIs
    <3>2. \A ink : Follows(s, Paint(set, ink))
      BY <2>2, <3>1, KeepsFollows, FollowsAll
    <3>3. Follows(s, Now)
      BY <1>1, <1>2 DEF Follows
    <3> HIDE DEF set
    <3> QED
      BY <2>2, <3>2, <3>3
  <2> HIDE DEF filled
  <2>4. Follows(s, stroked) /\ State(stroked)
    <3>1. State(filled)
      BY <2>3 DEF Follows
    <3>2. Keeps(filled, Paint(filled, Strokes(dev)))
      BY <3>1, PaintIs
    <3>3. Follows(s, Paint(filled, Strokes(dev)))
      BY <2>3, <3>2, KeepsFollows, FollowsAll
    <3> QED
      BY <2>3, <3>3 DEF Follows
  <2> HIDE DEF stroked
  <2>5. Follows(s, moved) /\ State(moved)
    <3>1. Keeps(stroked, moved)
      BY <2>4, MoveIs
    <3>2. Follows(s, moved)
      BY <2>4, <3>1, KeepsFollows, FollowsAll
    <3> QED
      BY <3>2 DEF Follows
  <2> HIDE DEF moved
  <2>6. Follows(s, left) /\ State(left)
    <3>1. PICK u : u = [moved EXCEPT !.g.inpath = FALSE]
      OBVIOUS
    <3>2. Keeps(moved, u) /\ State(u)
      <4>1. Keeps(moved, u)
        BY <2>5, <3>1, Stays DEF GFields, Pen
      <4> QED
        BY <4>1 DEF Keeps
    <3>3. Keeps(u, [u EXCEPT !.g.xinline = FALSE])
      BY <3>2, Stays DEF GFields, Pen
    <3>4. left = [u EXCEPT !.g.xinline = FALSE]
      BY <3>1
    <3> HIDE DEF left
    <3>5. Follows(s, left)
      BY <2>5, <3>2, <3>3, <3>4, KeepsFollows, FollowsAll
    <3> QED
      BY <3>5 DEF Follows
  <2> HIDE DEF left
  <2>7. Follows(left, t)
    BY <2>6, SetFillIs
  <2>8. Follows(s, t)
    BY <2>6, <2>7, FollowsAll
  <2> QED
    BY <2>1, <2>8
<1>7. Moves(s, t, k, pc) /\ SameCaps(s, t) /\ \A a \in Pen : t.g[a] = s.g[a]
  BY <1>5, <1>6, MovesIs
<1>8. blocks[Len(blocks)].type \notin Boxy /\ blocks[Len(blocks)].type \notin {"scale", "translate"}
      /\ blocks[Len(blocks)].type # "clip"
  BY <1>4 DEF Boxy, Paths
<1>9. Inv(k, pc + 1, e, boxes, gsave, saved, t)
  BY <1>2, <1>4, <1>7, <1>8, InvEnd
<1>10. Now' = t
  BY <1>6, <1>7, NowIs DEF Moves
<1> QED
  BY <1>1, <1>9, <1>10 DEF IInv, EndPath, Goes

LEMMA BeginClipIs == ASSUME IInv, BeginClip PROVE IInv'
<1>1. PICK s, k, t, e, v : s = Now /\ k = code' /\ t = Flush(Now) /\ e = blocks' /\ v = saved'
  OBVIOUS
<1>2. Inv(code, pc, blocks, boxes, gsave, saved, s) /\ pc \in Nat /\ State(s) /\ Listed(saved) /\ s.real = real
  BY <1>1, IInvIs DEF IInv
<1>3. Keeps(s, t) /\ State(t)
  BY <1>1, <1>2, FlushIs DEF Keeps
<1>4. "clip" \in Blocks \ Boxy
  BY DEF Blocks, Boxy
<1>5. PICK z : z = [type |-> "clip", depth |-> Len(gsave)]
  OBVIOUS
<1>6. Passes(code, k, pc, "clip") /\ pc' = pc + 1 /\ Added(blocks, e, z) /\ \A a \in Pen : ~ Sets(k, a, pc)
  BY <1>1, <1>4, <1>5, BeginsIs DEF BeginClip
<1>7. Moves(s, t, k, pc) /\ SameCaps(s, t) /\ \A a \in Pen : t.g[a] = s.g[a]
  BY <1>3, <1>6, KeepsFollows, MovesIs
<1>8. Stacks(code, blocks, boxes, gsave, gsave, s, t, k, pc)
  BY <1>7, SameStacks
<1>9. IF s.real THEN \E d : Added(saved, v, d) /\ Device(d) /\ d.cap = s.dev.cap ELSE v = saved
  <2>1. CASE real
    <3>1. v = Append(saved, t.dev)
      BY <1>1, <2>1 DEF BeginClip
    <3>2. Added(saved, v, t.dev)
      BY <1>2, <3>1, AddedIs
    <3>3. Device(t.dev) /\ t.dev.cap = s.dev.cap
      BY <1>3, <1>7 DEF State, SameCaps
    <3> QED
      BY <1>2, <2>1, <3>2, <3>3
  <2>2. CASE ~ real
    BY <1>1, <1>2, <2>2 DEF BeginClip
  <2> QED
    BY <2>1, <2>2
<1>10. z.type = "clip" /\ z.depth = Len(gsave) /\ "clip" \notin {"scale", "translate"}
  BY <1>5
<1>11. Inv(k, pc + 1, e, boxes, gsave, v, t)
  BY <1>2, <1>4, <1>6, <1>7, <1>8, <1>9, <1>10, InvBegin
<1>12. Now' = t
  BY <1>1, <1>3, NowIs DEF BeginClip
<1> QED
  BY <1>1, <1>6, <1>11, <1>12 DEF IInv, BeginClip

LEMMA EndClipIs == ASSUME IInv, Coped, EndClip PROVE IInv'
<1>1. PICK s, k, e, v : s = Now /\ k = code' /\ e = blocks' /\ v = saved'
  OBVIOUS
<1>2. /\ Inv(code, pc, blocks, boxes, gsave, saved, s) /\ pc \in Nat /\ State(s) /\ Listed(saved)
      /\ s.real = real /\ s.g = g /\ s.dev = dev /\ Listed(blocks) /\ Len(saved) \in Nat
  BY <1>1, IInvIs DEF IInv, Listed
<1>3. /\ Passes(code, k, pc, "end") /\ Taken(blocks, e) /\ blocks # <<>>
      /\ blocks[Len(blocks)].type = "clip" /\ blocks[Len(blocks)].depth = Len(gsave)
  BY <1>1, EndsIs DEF EndClip
<1>4. \A a \in Pen : ~ Sets(k, a, pc)
  BY <1>3, NotSet
<1>5. PICK t : /\ Becomes(t) /\ Moves(s, t, k, pc) /\ SameCaps(s, t) /\ \A a \in Pen : t.g[a] = s.g[a]
               /\ IF s.real THEN Taken(saved, v) ELSE v = saved
  <2>1. CASE ~ real
    <3>1. Becomes(s) /\ v = saved
      BY <1>1, <2>1 DEF EndClip
    <3>2. Follows(s, s)
      BY <1>2 DEF Follows
    <3> QED
      BY <1>2, <1>4, <2>1, <3>1, <3>2, MovesIs
  <2>2. CASE real
    <3>1. PICK f, d, old, t : f = Flush(Now) /\ d = [Last(saved) EXCEPT !.fill = dev.fill]
                              /\ old = [f EXCEPT !.dev = d] /\ t = SetState(old, f.g)
      OBVIOUS
    <3>2. Becomes(t) /\ Last(saved).image = g.image /\ v = Front(saved)
      BY <1>1, <2>2, <3>1 DEF EndClip, Coped
    <3>3. saved # <<>>
      <4>1. Len(saved) = UpTo(Clips(blocks), Len(blocks))
        BY <1>2, <2>2 DEF Inv, ClipsIn
      <4>2. /\ UpTo(Clips(e), Len(e)) \in Nat
            /\ UpTo(Clips(blocks), Len(blocks)) = UpTo(Clips(e), Len(e)) + 1
        BY <1>3, ClipsTaken
      <4>3. saved = <<>> => Len(saved) = 0
        OBVIOUS
      <4> QED
        BY <4>1, <4>2, <4>3
    <3>4. Taken(saved, v) /\ Last(saved) = saved[Len(saved)] /\ Len(saved) \in 1 .. Len(saved)
      BY <1>2, <3>2, <3>3, TakenIs DEF Taken
    <3>5. Device(Last(saved)) /\ Last(saved).cap = dev.cap
      BY <1>2, <3>4 DEF Inv, States
    <3>6. Device(d) /\ d.cap = dev.cap /\ d.image = g.image
      BY <3>1, <3>2, <3>5 DEF Device, DevFields
    <3>7. Keeps(s, f) /\ State(f)
      BY <1>1, <1>2, <3>1, FlushIs DEF Keeps
    <3>8. State(old) /\ old.real = f.real /\ old.g = f.g /\ old.dev = d
      <4>1. old = [g |-> f.g, dev |-> d, real |-> f.real, painted |-> f.painted]
        BY <3>1, <3>7 DEF State
      <4> QED
        BY <3>6, <3>7, <4>1 DEF State
    <3>9. PICK m : m = f.g
      OBVIOUS
    <3>10. GModel(m) /\ t = SetState(old, m)
      BY <3>1, <3>7, <3>9 DEF State
    <3>11. /\ State(t) /\ t.real = old.real
           /\ \A a \in Pen \cup {"fill", "image"} : t.g[a] = m[a]
           /\ t.dev.cap = old.dev.cap
           /\ old.real => t.dev.color = m.color /\ t.dev.width = m.width /\ t.dev.fill = m.fill
                          /\ (old.dev.image = old.g.image => t.dev.image = m.image)
           /\ ~ old.real => \A a \in Pen \cup {"fill", "image"} : t.dev[a] = old.dev[a]
      BY <3>8, <3>10, SetStateIs
    <3>12. /\ \A a \in Pen \cup {"fill", "image"} : m[a] = s.g[a]
           /\ f.real = s.real
      BY <3>7, <3>9 DEF Keeps
    <3>13. m.image = g.image /\ m.cap = g.cap /\ m.color = t.g.color /\ m.width = t.g.width /\ m.fill = t.g.fill /\ m.image = t.g.image
           /\ m.cap = t.g.cap
      BY <1>2, <3>11, <3>12 DEF Pen
    <3>14. SameCaps(s, t)
      BY <1>2, <3>6, <3>8, <3>11, <3>13 DEF SameCaps
    <3>15. Moves(s, t, k, pc)
      <4>1. t.dev.color = t.g.color /\ t.dev.width = t.g.width /\ t.dev.fill = t.g.fill /\ t.dev.image = t.g.image
        BY <1>2, <2>2, <3>6, <3>8, <3>9, <3>11, <3>12, <3>13
      <4>2. ASSUME NEW a \in Pen
            PROVE  t.dev[a] = t.g[a] \/ (t.g[a] = s.g[a] /\ t.dev[a] = s.dev[a] /\ ~ Sets(k, a, pc))
        <5>1. CASE a = "cap"
          BY <1>4, <3>14, <5>1 DEF SameCaps
        <5>2. CASE a \in {"color", "width"}
          BY <4>1, <5>2
        <5> QED
          BY <5>1, <5>2 DEF Pen
      <4> QED
        BY <1>2, <2>2, <3>8, <3>11, <3>12, <4>1, <4>2 DEF Moves
    <3>16. \A a \in Pen : t.g[a] = s.g[a]
      BY <3>11, <3>12
    <3> QED
      BY <1>2, <2>2, <3>2, <3>4, <3>14, <3>15, <3>16
  <2> QED
    BY <2>1, <2>2
<1>6. blocks[Len(blocks)].type \notin Boxy /\ blocks[Len(blocks)].type \notin {"scale", "translate"}
  BY <1>3 DEF Boxy
<1>7. Inv(k, pc + 1, e, boxes, gsave, v, t)
  BY <1>2, <1>3, <1>5, <1>6, InvEnd
<1>8. Now' = t
  BY <1>5, NowIs DEF Moves
<1> QED
  BY <1>1, <1>7, <1>8 DEF IInv, EndClip, Goes

LEMMA DrawFrameIs ==
  ASSUME NEW s, State(s), NEW box
  PROVE  Follows(s, DrawFrame(s, box)) /\ (s.real => DrawFrame(s, box).dev.fill = DrawFrame(s, box).g.fill)
<1> DEFINE yellow == SetFill(s, "yellow")
           inside == DrawBox(yellow, s.g.bounds, TRUE)
           filled == IF box.filled THEN inside ELSE s
           framed == DrawBox(filled, s.g.bounds, FALSE)
           back == SetFill(framed, s.g.fill)
           t == Move(back, s.g.cur)
<1>1. DrawFrame(s, box) = t
  BY DEF DrawFrame
<1>2. Follows(s, yellow) /\ State(yellow)
  BY SetFillIs DEF Follows
<1> HIDE DEF yellow
<1>3. Follows(s, inside)
  BY <1>2, DrawBoxIs, KeepsFollows, FollowsAll
<1> HIDE DEF inside
<1>4. Follows(s, filled) /\ State(filled) /\ filled.real = s.real
  <2>1. Follows(s, s)
    BY DEF Follows
  <2>2. Follows(s, filled)
    BY <1>3, <2>1
  <2> QED
    BY <2>2 DEF Follows
<1> HIDE DEF filled
<1>5. Keeps(filled, framed) /\ State(framed) /\ framed.real = s.real
  <2>1. Keeps(filled, framed)
    BY <1>4, DrawBoxIs
  <2> QED
    BY <1>4, <2>1 DEF Keeps
<1> HIDE DEF framed
<1>6. Follows(framed, back) /\ back.g.fill = s.g.fill /\ (framed.real => back.dev.fill = s.g.fill) /\ State(back)
  <2>1. Follows(framed, back) /\ back.g.fill = s.g.fill /\ (framed.real => back.dev.fill = s.g.fill)
    BY <1>5, SetFillIs
  <2> QED
    BY <2>1 DEF Follows
<1> HIDE DEF back
<1>7. Keeps(back, t)
  BY <1>6, MoveIs
<1>8. t.g.fill = back.g.fill /\ t.dev.fill = back.dev.fill
  BY <1>7 DEF Keeps
<1> HIDE DEF t
<1>9. Follows(s, t)
  BY <1>4, <1>5, <1>6, <1>7, KeepsFollows, FollowsAll
<1> QED
  BY <1>1, <1>5, <1>6, <1>8, <1>9

LEMMA BeginBoxIs == ASSUME IInv, BeginBox PROVE IInv'
<1>1. PICK s, k, e, n, f : s = Now /\ k = code' /\ e = blocks' /\ n = boxes' /\ f = Flush(Now)
  OBVIOUS
<1>2. /\ Inv(code, pc, blocks, boxes, gsave, saved, s) /\ pc \in Nat /\ State(s) /\ s.real = real /\ s.g = g
      /\ Listed(boxes) /\ real \in BOOLEAN
  BY <1>1, IInvIs DEF IInv
<1>3. Keeps(s, f) /\ State(f)
  <2>1. Keeps(s, f)
    BY <1>1, <1>2, FlushIs
  <2> QED
    BY <2>1 DEF Keeps
<1>4. PICK y, q, w, t :
        /\ y \in Boxy /\ q \in BOOLEAN
        /\ Begins(y, Len(gsave)) /\ n = Append(boxes, w) /\ Becomes(t)
        /\ q = (y = "filled box")
        /\ w = [origin |-> g.cur, bounds |-> g.bounds, filled |-> q, device |-> q /\ real, second |-> FALSE,
                at |-> pc + 1, was |-> g]
        /\ t = [f EXCEPT !.g.bounds = <<>>, !.real = real /\ ~ (q /\ real)]
        /\ UNCHANGED <<gsave, path, saved>>
  BY <1>1 DEF BeginBox, Boxy
<1>5. y \in Blocks /\ y \notin {"scale", "translate"}
  BY <1>4 DEF Boxy, Blocks
<1>6. PICK z : z = [type |-> y, depth |-> Len(gsave)]
  OBVIOUS
<1>7. /\ Passes(code, k, pc, y) /\ pc' = pc + 1 /\ Added(blocks, e, z) /\ \A a \in Pen : ~ Sets(k, a, pc)
  BY <1>1, <1>4, <1>5, <1>6, BeginsIs
<1>8. z.type = y /\ z.depth = Len(gsave)
  BY <1>6
<1>9. Added(boxes, n, w)
  BY <1>2, <1>4, AddedIs
<1>10. w.at = pc + 1 /\ IsRecord(w) /\ ~ w.second /\ (w.device <=> (q /\ s.real)) /\ w.was = s.g
  BY <1>2, <1>4 DEF IsRecord
<1>11. PICK u : u = [f EXCEPT !.g.bounds = <<>>]
  OBVIOUS
<1>12. Keeps(f, u) /\ State(u)
  <2>1. Keeps(f, u)
    BY <1>3, <1>11, Stays DEF GFields, Pen
  <2> QED
    BY <2>1 DEF Keeps
<1>13. t = [u EXCEPT !.real = real /\ ~ (q /\ real)]
  BY <1>4, <1>11
<1>14. t = [g |-> u.g, dev |-> u.dev, real |-> real /\ ~ (q /\ real), painted |-> u.painted]
  BY <1>12, <1>13 DEF State
<1>15. State(t) /\ t.real = (real /\ ~ q) /\ t.g = u.g /\ t.dev = u.dev
  <2>1. t.real = (real /\ ~ (q /\ real)) /\ t.g = u.g /\ t.dev = u.dev /\ t.painted = u.painted
    BY <1>14
  <2>2. t = [g |-> t.g, dev |-> t.dev, real |-> t.real, painted |-> t.painted]
    BY <1>14, <2>1
  <2>3. State(t)
    BY <1>12, <2>1, <2>2 DEF State
  <2> QED
    BY <1>2, <2>1, <2>3
<1>16. \A a \in Pen \cup {"fill", "image"} : (w.was)[a] = s.g[a] /\ t.g[a] = s.g[a] /\ t.dev[a] = s.dev[a]
  BY <1>3, <1>10, <1>12, <1>15 DEF Keeps
<1>17. t.real = (s.real /\ ~ q)
  BY <1>2, <1>15
<1>18. Inv(k, pc + 1, e, n, gsave, saved, t)
  <2>1. y \in Boxy /\ q \in BOOLEAN
    BY <1>4
  <2> QED
    BY <1>2, <1>7, <1>8, <1>9, <1>10, <1>15, <1>16, <1>17, <2>1, InvBox
<1>19. Now' = t
  BY <1>4, <1>15, NowIs
<1> QED
  BY <1>1, <1>4, <1>7, <1>18, <1>19 DEF IInv

LEMMA EndBoxIs == ASSUME IInv, Coped, EndBox PROVE IInv'
<1>1. PICK s, k, e, n, f : s = Now /\ k = code' /\ e = blocks' /\ n = boxes' /\ f = Flush(Now)
  OBVIOUS
<1>2. /\ Inv(code, pc, blocks, boxes, gsave, saved, s) /\ pc \in Nat /\ State(s) /\ s.real = real /\ s.g = g /\ s.dev = dev
      /\ Listed(boxes) /\ Listed(blocks) /\ real \in BOOLEAN
      /\ Structure(code, pc, blocks, boxes) /\ Runs(boxes, real)
  <2>1. /\ Inv(code, pc, blocks, boxes, gsave, saved, s) /\ pc \in Nat /\ State(s) /\ s.real = real /\ s.g = g /\ s.dev = dev
        /\ Listed(boxes) /\ Listed(blocks) /\ real \in BOOLEAN
    BY <1>1, IInvIs DEF IInv
  <2> QED
    BY <2>1 DEF Inv
<1>3. PICK type, box, first, framed, merged :
        /\ type \in Boxy /\ Ends(type) /\ box = Last(boxes)
        /\ first = (IF box.device THEN [f EXCEPT !.real = TRUE] ELSE s)
        /\ framed = DrawFrame(first, box)
        /\ merged = (IF box.bounds = <<>> THEN framed ELSE Bound(framed, ToSet(box.bounds)))
        /\ IF box.second
           THEN Goes /\ Becomes(s) /\ n = Front(boxes) /\ e = Front(blocks)
           ELSE IF box.device
           THEN /\ "replay" \in Lapses \/ SameAgain(box)
                /\ pc' = box.at /\ e = blocks
                /\ Becomes(Move(merged, box.origin))
                /\ n = [boxes EXCEPT ![Len(boxes)].second = TRUE]
           ELSE Goes /\ Becomes(merged) /\ n = Front(boxes) /\ e = Front(blocks)
        /\ UNCHANGED <<gsave, path, saved>>
  BY <1>1 DEF EndBox, Boxy
<1>4. /\ Passes(code, k, pc, "end") /\ Taken(blocks, Front(blocks)) /\ blocks # <<>>
      /\ blocks[Len(blocks)].type \in Boxy /\ blocks[Len(blocks)].depth = Len(gsave)
  BY <1>1, <1>3, EndsIs
<1>5. \A a \in Pen : ~ Sets(k, a, pc)
  BY <1>4, NotSet
<1>6. Len(boxes) \in Nat \ {0} /\ boxes # <<>> /\ Len(boxes) \in 1 .. Len(boxes)
  <2>1. LastFits(code, blocks, boxes)
    BY <1>2, <1>4, LastBox
  <2>2. Len(boxes) \in Nat \ {0}
    BY <1>4, <2>1 DEF LastFits
  <2> QED
    BY <2>2
<1>7. Taken(boxes, Front(boxes)) /\ box = boxes[Len(boxes)] /\ IsRecord(box)
  <2>1. Taken(boxes, Front(boxes)) /\ box = boxes[Len(boxes)]
    BY <1>2, <1>3, <1>6, TakenIs
  <2> QED
    BY <1>2, <1>6, <2>1 DEF Runs
<1>8. CASE box.second
  <2>1. Follows(s, s)
    BY <1>2 DEF Follows
  <2>2. Moves(s, s, k, pc) /\ SameCaps(s, s) /\ \A a \in Pen : s.g[a] = s.g[a]
    BY <1>5, <2>1, MovesIs
  <2>3. ~ Running(boxes[Len(boxes)])
    BY <1>7, <1>8 DEF Running
  <2>4. Taken(boxes, n) /\ Taken(blocks, e)
    BY <1>3, <1>4, <1>7, <1>8
  <2>5. Inv(k, pc + 1, e, n, gsave, saved, s)
    BY <1>2, <1>4, <2>2, <2>3, <2>4, InvPop
  <2>6. Now' = s
    BY <1>2, <1>3, <1>8, NowIs
  <2> QED
    BY <1>1, <1>3, <1>8, <2>5, <2>6 DEF IInv, Goes
\* The frame is drawn, and the bounds are merged.
<1>9. ASSUME State(first)
      PROVE  Follows(first, merged) /\ State(merged) /\ (first.real => merged.dev.fill = merged.g.fill)
  <2>1. Follows(first, framed) /\ (first.real => framed.dev.fill = framed.g.fill) /\ State(framed)
    <3>1. Follows(first, framed) /\ (first.real => framed.dev.fill = framed.g.fill)
      BY <1>3, <1>9, DrawFrameIs
    <3> QED
      BY <3>1 DEF Follows
  <2>2. PICK grown : grown = Bound(framed, ToSet(box.bounds))
    OBVIOUS
  <2>3. Keeps(framed, grown)
    BY <2>1, <2>2, BoundIs
  <2>4. Follows(first, grown)
    BY <2>1, <2>3, KeepsFollows, FollowsAll
  <2>5. grown.dev.fill = framed.dev.fill /\ grown.g.fill = framed.g.fill
    BY <2>3 DEF Keeps
  <2>6. merged \in {framed, grown}
    BY <1>3, <2>2
  <2>7. Follows(first, merged) /\ (first.real => merged.dev.fill = merged.g.fill)
    BY <2>1, <2>4, <2>5, <2>6
  <2> QED
    BY <2>7 DEF Follows
<1>10. CASE ~ box.second /\ ~ box.device
  <2>1. first = s
    BY <1>3, <1>10
  <2>2. Moves(s, merged, k, pc) /\ SameCaps(s, merged) /\ \A a \in Pen : merged.g[a] = s.g[a]
    BY <1>2, <1>5, <1>9, <2>1, MovesIs
  <2>3. ~ Running(boxes[Len(boxes)])
    BY <1>7, <1>10 DEF Running
  <2>4. Taken(boxes, n) /\ Taken(blocks, e)
    BY <1>3, <1>4, <1>7, <1>10
  <2>5. Inv(k, pc + 1, e, n, gsave, saved, merged)
    BY <1>2, <1>4, <2>2, <2>3, <2>4, InvPop
  <2>6. Now' = merged
    BY <1>2, <1>3, <1>9, <1>10, <2>1, NowIs
  <2> QED
    BY <1>1, <1>3, <1>10, <2>5, <2>6 DEF IInv, Goes
<1>11. CASE ~ box.second /\ box.device
  <2>1. Keeps(s, f) /\ State(f)
    <3>1. Keeps(s, f)
      BY <1>1, <1>2, FlushIs
    <3> QED
      BY <3>1 DEF Keeps
  <2>2. first = [g |-> f.g, dev |-> f.dev, real |-> TRUE, painted |-> f.painted]
    BY <1>3, <1>11, <2>1 DEF State
  <2>3. State(first) /\ first.real = TRUE /\ first.g = f.g /\ first.dev = f.dev
    BY <2>1, <2>2 DEF State
  <2>4. PICK t : t = Move(merged, box.origin)
    OBVIOUS
  <2>5. Follows(first, merged) /\ State(merged) /\ merged.dev.fill = merged.g.fill
    BY <1>9, <2>3
  <2>6. Keeps(merged, t)
    BY <2>4, <2>5, MoveIs
  <2>7. Follows(first, t)
    BY <2>5, <2>6, KeepsFollows, FollowsAll
  <2>8. t.dev.fill = t.g.fill
    BY <2>5, <2>6 DEF Keeps
  <2>9. State(t) /\ t.real = TRUE
    BY <2>3, <2>7 DEF Follows
  <2>10. \A a \in Pen : t.g[a] = s.g[a] /\ t.dev[a] = s.dev[a]
    BY <2>1, <2>3, <2>7 DEF Follows, Keeps
  <2>11. SameAgain(box)
    BY <1>3, <1>11 DEF Coped
  <2>12. s.dev.image = box.was.image => t.dev.image = t.g.image
    <3>1. s.g.image = box.was.image
      BY <1>2, <2>11 DEF SameAgain
    <3>2. f.g.image = s.g.image /\ f.dev.image = s.dev.image
      BY <2>1 DEF Keeps
    <3>3. first.dev.image = first.g.image => t.dev.image = t.g.image
      BY <2>3, <2>7 DEF Follows
    <3> QED
      BY <2>3, <3>1, <3>2, <3>3
  <2>13. PICK w : w = [box EXCEPT !.second = TRUE]
    OBVIOUS
  <2>14. IsRecord(w) /\ w.second /\ w.device /\ w.at = box.at
    BY <1>7, <1>11, <2>13 DEF IsRecord
  <2>15. n = [boxes EXCEPT ![Len(boxes)] = w]
    BY <1>3, <1>7, <1>11, <2>13
  <2>16. Listed(n) /\ Len(n) = Len(boxes) /\ \A h \in 1 .. Len(boxes) : n[h] = IF h = Len(boxes) THEN w ELSE boxes[h]
    BY <1>2, <1>6, <2>15, PutIs
  <2>17. n[Len(boxes)] = w
    BY <1>6, <2>16
  <2>18. \A i \in 1 .. Len(boxes) : n[i].at = boxes[i].at /\ (i # Len(boxes) => n[i] = boxes[i])
    BY <1>7, <2>14, <2>16
  <2>19. Running(boxes[Len(boxes)])
    BY <1>7, <1>11 DEF Running
  <2>20. s.dev.image = (boxes[Len(boxes)].was).image => t.dev.image = t.g.image
    BY <1>7, <2>12
  <2>21. n[Len(boxes)].second /\ n[Len(boxes)].device /\ IsRecord(n[Len(boxes)])
    BY <2>14, <2>17
  <2>22. Inv(k, boxes[Len(boxes)].at, blocks, n, gsave, saved, t)
    <3>1. Inv(code, pc, blocks, boxes, gsave, saved, s) /\ pc \in Nat
      BY <1>2
    <3>2. Passes(code, k, pc, "end") /\ blocks # <<>> /\ blocks[Len(blocks)].type \in Boxy
      BY <1>4
    <3>3. Again(boxes, n)
      BY <2>16, <2>18, <2>21 DEF Again
    <3> QED
      BY <2>8, <2>9, <2>10, <2>19, <2>20, <3>1, <3>2, <3>3, InvBack
  <2>23. Now' = t
    BY <1>3, <1>11, <2>4, <2>9, NowIs
  <2> QED
    BY <1>1, <1>3, <1>7, <1>11, <2>22, <2>23 DEF IInv
<1> QED
  BY <1>8, <1>10, <1>11
-----------------------------------------------------------------------------
LEMMA InitIs == ASSUME Init PROVE IInv
<1>1. PICK m, d, s : m = g /\ d = dev /\ s = Now
  OBVIOUS
<1>2. /\ m = [f \in GFields |-> m[f]] /\ d = [f \in DevFields |-> d[f]]
      /\ \A a \in Pen \cup {"fill", "image"} : d[a] = m[a]
  <2>1. PICK x, y : x = [xinline |-> FALSE, inpath |-> FALSE, bounds |-> <<>>] /\ y = [contour |-> <<>>]
    OBVIOUS
  <2>2. DOMAIN x = {"xinline", "inpath", "bounds"} /\ DOMAIN y = {"contour"}
    BY <2>1
  <2>3. DOMAIN Fresh = {"color", "width", "cap", "fill", "cur", "image"}
    BY DEF Fresh
  <2>4. m = Over(Fresh, x) /\ d = Over(Fresh, y)
    BY <1>1, <2>1 DEF Init
  <2>5. PICK h : h = Fresh
    OBVIOUS
  <2>6. /\ m = [a \in DOMAIN h \cup DOMAIN x |-> IF a \in DOMAIN h THEN h[a] ELSE x[a]]
        /\ d = [a \in DOMAIN h \cup DOMAIN y |-> IF a \in DOMAIN h THEN h[a] ELSE y[a]]
    BY <2>4, <2>5 DEF Over
  <2>7. DOMAIN h \cup DOMAIN x = GFields /\ DOMAIN h \cup DOMAIN y = DevFields
    BY <2>2, <2>3, <2>5 DEF GFields, DevFields
  <2>8. \A a \in Pen \cup {"fill", "image"} : a \in DOMAIN h /\ a \in GFields /\ a \in DevFields
    BY <2>3, <2>5 DEF Pen, GFields, DevFields
  <2> QED
    BY <2>6, <2>7, <2>8
<1>3. State(s) /\ s.real = TRUE /\ s.g = m /\ s.dev = d
  BY <1>1, <1>2 DEF State, Now, GModel, Device, Init
<1>4. Listed(<<>>) /\ Len(<<>>) = 0 /\ 1 .. 0 = {}
  BY DEF Listed
<1>5. code = <<>> /\ pc = 1 /\ blocks = <<>> /\ boxes = <<>> /\ gsave = <<>> /\ saved = <<>>
  BY DEF Init
<1>6. Level(<<>>, 1) = 0
  BY UpToIs DEF Level
<1>7. Structure(<<>>, 1, <<>>, <<>>)
  BY <1>4, <1>6 DEF Structure, BlocksIn, BoxesIn
<1>8. Runs(<<>>, TRUE)
  BY <1>4 DEF Runs
<1>9. ClipsIn(<<>>, <<>>, <<>>, 0, TRUE) /\ Depths(<<>>, 0)
  BY <1>4, UpToIs DEF ClipsIn, Depths
<1>10. Agree(<<>>, 1, <<>>, m, d, TRUE)
  <2>1. d["fill"] = m["fill"] /\ d["image"] = m["image"] /\ \A a \in Pen : d[a] = m[a]
    BY <1>2
  <2> QED
    BY <1>4, <2>1 DEF Agree, AgreeFrom
<1>11. Changed(<<>>, 1, <<>>, <<>>, <<>>, m)
  BY <1>4 DEF Changed
<1>12. Models(<<>>, m) /\ States(<<>>, d)
  BY <1>4 DEF Models, States
<1>13. Inv(<<>>, 1, <<>>, <<>>, <<>>, <<>>, s)
  BY <1>3, <1>4, <1>7, <1>8, <1>9, <1>10, <1>11, <1>12 DEF Inv
<1> QED
  BY <1>1, <1>5, <1>13 DEF IInv

LEMMA NextIs == ASSUME IInv, Coped, [Next]_vars PROVE IInv'
<1>1. CASE UNCHANGED vars
  BY <1>1 DEF vars, IInv, Now
<1>2. CASE SetAttribute \/ Draw \/ Transform
  BY <1>2, SetAttributeIs, DrawIs, TransformIs
<1>3. CASE GSave \/ GRestore \/ BeginTransform \/ EndTransform
  BY <1>3, GSaveIs, GRestoreIs, BeginTransformIs, EndTransformIs
<1>4. CASE BeginPath \/ EndPath \/ BeginClip \/ EndClip
  BY <1>4, BeginPathIs, EndPathIs, BeginClipIs, EndClipIs
<1>5. CASE BeginBox \/ EndBox
  BY <1>5, BeginBoxIs, EndBoxIs
<1> QED
  BY <1>1, <1>2, <1>3, <1>4, <1>5 DEF Next

LEMMA Believed == ASSUME IInv PROVE DeviceAsBelieved
<1> SUFFICES ASSUME Settled PROVE (\A a \in {"color", "width", "cap", "fill"} : dev[a] = g[a]) /\ dev.image = g.image
  BY DEF DeviceAsBelieved
<1>1. /\ Runs(boxes, real) /\ Agree(code, pc, boxes, g, dev, real) /\ Listed(boxes)
  BY IInvIs DEF IInv, Inv
<1>2. \A i \in 1 .. Len(boxes) : ~ boxes[i].device
  BY <1>1, AppendIs DEF Settled
<1>3. \A i \in 1 .. Len(boxes) : ~ boxes[i].second /\ ~ Running(boxes[i])
  BY <1>1, <1>2 DEF Runs, Running
<1>4. real
  BY <1>1, <1>3 DEF Runs
<1>5. \A a : ~ ToCome(code, boxes, a, pc)
  BY <1>3 DEF ToCome
<1> QED
  BY <1>1, <1>4, <1>5 DEF Agree, AgreeFrom, Pen

\* The device has the attributes and the matrix GLE reckons with, although blocks,
\* clips and boxes without a device have come and gone (g_set_state, endclip,
\* g_restore_device), in scripts of every length that the code copes with.
THEOREM DeviceBelieved == ASSUME Coped PROVE Spec => []DeviceAsBelieved
<1>1. Init => IInv
  BY InitIs
<1>2. IInv /\ [Next]_vars => IInv'
  BY NextIs
<1>3. IInv => DeviceAsBelieved
  BY Believed
<1> QED
  BY <1>1, <1>2, <1>3, PTL DEF Spec
=============================================================================
