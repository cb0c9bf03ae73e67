---------------------------- MODULE EditSession ----------------------------
(***************************************************************************)
(* A session with the edit mode of QGLE: the drawing area and its tools     *)
(* (gledrawing.cpp), the main window that switches modes, renders, saves    *)
(* and opens files (mainwindow.cpp), and the script with its objects        *)
(* (gle-interface.cpp), which both change.  Renderings are asynchronous.    *)
(***************************************************************************)
EXTENDS Commit

CONSTANTS
  Files,        \* names of GLE files
  NoName,       \* the name of a new drawing
  Scripts,      \* what each of them may contain at the start
  Points, Colors,  \* what the user can click at and choose
  MaxObjects,   \* bound on objects of the script and the drawing area
  MaxCommands,  \* bound on commands given by the user
  Lapses        \* what the user is allowed to do that the code cannot cope with

ASSUME FilesAssumption == NoName \notin Files /\ Scripts \in [Files -> SUBSET Seq(Lines)]
ASSUME ChoicesAssumption == Points \subseteq Nat /\ Colors \subseteq Nat
ASSUME BoundsAssumption == MaxObjects \in Nat /\ MaxCommands \in Nat
ASSUME LapsesAssumption ==
  Lapses \subseteq {"escape",  \* cancel the first new object
                    "leave",   \* change tool or mode, or save, half-way an object
                    "twice",   \* save in edit mode after deleting two objects
                    "stray",   \* delete a line that an amove is written for
                    "render",  \* go on drawing while the script is rendered
                    "dialog"}  \* answer Yes, save, and cancel the file dialog

\* A user who does nothing the code cannot cope with, but for two lapses that
\* the objects in the drawing area survive.
Careful == Lapses \subseteq {"stray", "dialog"}

VARIABLES
  code,      \* the lines of the script (GLEGlobalSource)
  obj,       \* the GLE objects, by an arbitrary number
  objs,      \* GLEScript::m_Objs: those the last rendering made of the script
  newObjs,   \* GLEScript::m_NewObjs: those drawn since the last commit
  window,    \* objectList of the drawing area, the GLE objects it shows
  drawing,   \* isDrawing: the last of them is being drawn
  dirty,     \* there is something to save
  toCommit,  \* newObjects: there is something to commit
  mode,      \* "edit", "preview", or "closed"
  rendering, \* the rendering thread runs the script
  known,     \* modes whose file information names the open file
  file,      \* the open file
  disk,      \* contents of the files
  commands,  \* number of commands given
  answer     \* to "Save changes to drawing?", if the last step asked, or "reload"

script == <<code, obj, objs, newObjs>>
area == <<window, drawing, dirty, toCommit>>
vars == <<script, area, mode, rendering, known, file, disk, commands, answer>>

Ids == 1..MaxObjects
NoObj == [c |-> "none", p |-> Origin, q |-> Origin, k |-> Black, deleted |-> FALSE]
New(c, p, q, k) == [c |-> c, p |-> p, q |-> q, k |-> k, deleted |-> FALSE]

TheObjs(ids) == [i \in DOMAIN ids |-> obj[ids[i]]]
Deleted(id) == obj[id].deleted

\* The GLE objects that are still there once the lists are these.
Collect(store, lists) ==
  [id \in Ids |-> IF id \in UNION {Range(lists[l]) : l \in DOMAIN lists}
                  THEN store[id] ELSE NoObj]

\* Numbers for n more objects.
Fresh(n, used) == SubSeq(SetToSeq(Ids \ used), 1, n)

\* What a list of objects looks like.
Look(list) ==
  [i \in DOMAIN list |-> [c |-> list[i].c, p |-> list[i].p, q |-> list[i].q,
                          k |-> list[i].k]]

\* What saving now would write (GLEMainWindow::save): in edit mode the changes
\* are committed first.
CodeToSave ==
  IF mode = "edit" /\ toCommit
  THEN Committed(code, TheObjs(objs), TheObjs(newObjs)) ELSE code

\* Lapses of a commit, and of saving in edit mode.
MayCommit == ~CommitRun(code, TheObjs(objs)).stray \/ "stray" \in Lapses
MayStop == drawing => "leave" \in Lapses
MayKeep == \/ Cardinality({i \in DOMAIN objs : Deleted(objs[i])}) < 2
           \/ "twice" \in Lapses

Init ==
  /\ disk \in {d \in [Files -> UNION Range(Scripts)] :
                 \A f \in Files : d[f] \in Scripts[f]}
  /\ file \in Files
  /\ code = disk[file]
  /\ obj = [id \in Ids |-> NoObj]
  /\ objs = <<>> /\ newObjs = <<>> /\ window = <<>>
  /\ drawing = FALSE /\ dirty = FALSE /\ toCommit = FALSE
  /\ mode = "preview" /\ rendering = FALSE /\ known = {"preview"}
  /\ commands = 0 /\ answer = "none"

-----------------------------------------------------------------------------
(* The drawing area.                                                        *)

InArea ==
  /\ mode = "edit"
  /\ rendering => "render" \in Lapses
  /\ commands < MaxCommands
  /\ answer' = "none"
  /\ UNCHANGED <<code, objs, mode, rendering, known, file, disk>>

Command == InArea /\ commands' = commands + 1

setDirtyAndSave == dirty' = TRUE /\ toCommit' = TRUE

\* A new object, for the script (newGLEObject) and for the drawing area.
AddNew(o) ==
  LET used == Range(objs) \cup Range(newObjs) \cup Range(window)
      id   == Min(Ids \ used)
  IN  /\ Ids # used
      /\ obj' = [obj EXCEPT ![id] = o]
      /\ newObjs' = Append(newObjs, id)
      /\ window' = Append(window, id)

\* The first click of a line, a circle, an ellipse or an arc...
Start(c, p, k) ==
  /\ InArea
  /\ ~drawing
  /\ AddNew(New(c, p, p, k))
  /\ drawing' = TRUE
  /\ UNCHANGED <<dirty, toCommit, commands>>

\* ...and the last one.
Finish(q) ==
  /\ Command
  /\ drawing /\ window # <<>>
  /\ obj' = [obj EXCEPT ![Last(window)].q = IF obj[Last(window)].c = "aline"
                                            THEN q ELSE @]
  /\ drawing' = FALSE
  /\ setDirtyAndSave
  /\ UNCHANGED <<newObjs, window>>

\* The Escape key in between: cancelCommand.  GLEScript::cancelObject looks for
\* the object in all of m_NewObjs but its first element.
Escape ==
  /\ InArea
  /\ drawing /\ window # <<>>
  /\ drawing' = FALSE
  /\ window' = Front(window)
  /\ newObjs' = IF Len(newObjs) > 1 /\ Last(newObjs) = Last(window)
                THEN Front(newObjs) ELSE newObjs
  /\ Last(window) \in Range(newObjs') => "escape" \in Lapses
  /\ obj' = Collect(obj, <<objs, newObjs', window'>>)
  /\ UNCHANGED <<dirty, toCommit, commands>>

\* The text tool needs one click.
DrawText(p, k) ==
  /\ Command
  /\ ~drawing
  /\ AddNew(New("circle", p, p, k))
  /\ setDirtyAndSave
  /\ UNCHANGED drawing

\* The pointer tool: an object, or an end of a line, is dragged, a property is
\* changed, the objects selected are deleted.
Move(i, p, q) ==
  LET id == window[i] IN
  /\ Command
  /\ ~drawing
  /\ obj[id].c = "circle" => p = q
  /\ <<p, q>> # <<obj[id].p, obj[id].q>>
  /\ obj' = [obj EXCEPT ![id].p = p, ![id].q = q]
  /\ setDirtyAndSave
  /\ UNCHANGED <<newObjs, window, drawing>>

Recolor(i, k) ==
  /\ Command
  /\ ~drawing
  /\ obj[window[i]].k # k
  /\ obj' = [obj EXCEPT ![window[i]].k = k]
  /\ setDirtyAndSave
  /\ UNCHANGED <<newObjs, window, drawing>>

DeleteSelected(selected) ==
  LET ids  == {window[i] : i \in selected}
      kept == Only(window, Ids \ ids)
      gone == [id \in Ids |-> [obj[id] EXCEPT !.deleted = @ \/ id \in ids]]
  IN  /\ Command
      /\ ~drawing
      /\ window' = kept
      /\ obj' = Collect(gone, <<objs, newObjs, kept>>)
      /\ setDirtyAndSave
      /\ UNCHANGED <<newObjs, drawing>>

-----------------------------------------------------------------------------
(* The main window.                                                         *)

\* GLEInterface::commitChangesGLE.
CommitChanges ==
  LET all  == objs \o Only(newObjs, {id \in Ids : ~Deleted(id)})
      left == RemoveDeleted(all, {id \in ToSet(all) : Deleted(id)})
  IN  /\ MayCommit
      /\ code' = Committed(code, TheObjs(objs), TheObjs(newObjs))
      /\ newObjs' = <<>>
      /\ objs' = left
      /\ obj' = Collect(obj, <<left, window>>)

\* The file the script is written to, if it is: its own, or a name asked for.
Write(f) ==
  /\ f = file \/ file = NoName
  /\ disk' = [disk EXCEPT ![f] = code']
  /\ dirty' = FALSE
  /\ file' = f

\* previewModeToggle.  Rendering for the preview forgets the file name of the
\* edit mode.
ToPreview ==
  /\ mode = "edit" /\ ~rendering
  /\ MayStop
  /\ mode' = "preview"
  /\ drawing' = FALSE /\ toCommit' = FALSE
  /\ answer' = "none"
  /\ rendering' = (toCommit \/ "preview" \notin known)
  /\ known' = IF rendering' THEN {"preview"} ELSE known
  /\ IF toCommit THEN CommitChanges ELSE UNCHANGED script
  /\ \/ UNCHANGED <<dirty, file, disk>>
     \/ toCommit /\ dirty /\ \E f \in Files : Write(f)    \* saveOnPreview
  /\ UNCHANGED <<window, commands>>

\* editModeToggle.
ToEdit ==
  /\ mode = "preview" /\ ~rendering
  /\ mode' = "edit"
  /\ rendering' = ("edit" \notin known)
  /\ known' = {"edit", "preview"}
  /\ drawing' = FALSE
  /\ answer' = "none"
  /\ UNCHANGED <<script, window, dirty, toCommit, file, disk, commands>>

\* The script has been run.  In edit mode its objects are what was drawn, and
\* the drawing area shows them (executeToDoAfterRenderGLE, updateFromScript).
RenderDone ==
  LET drawn == Drawn(code)
      ids   == Fresh(Len(drawn), Range(newObjs))
      store == [id \in Ids |->
                 IF id \in Range(ids)
                 THEN LET o == drawn[CHOOSE i \in DOMAIN ids : ids[i] = id]
                      IN  New(o.c, o.p, o.q, o.k)
                 ELSE obj[id]]
  IN  /\ rendering /\ mode # "closed"
      /\ Len(drawn) <= Cardinality(Ids \ Range(newObjs))
      /\ rendering' = FALSE
      /\ answer' = "none"
      /\ IF mode = "edit"
         THEN /\ objs' = ids /\ window' = ids
              /\ obj' = Collect(store, <<ids, newObjs>>)
              /\ drawing' = FALSE
         ELSE UNCHANGED <<objs, window, obj, drawing>>
      /\ UNCHANGED <<code, newObjs, dirty, toCommit, mode, known, file, disk,
                     commands>>

\* save and saveAs: in edit mode objects are committed, but still flagged as new.
Save(f) ==
  /\ mode # "closed" /\ ~rendering
  /\ f = file => dirty
  /\ MayStop /\ MayKeep
  /\ IF mode = "edit" /\ toCommit THEN CommitChanges ELSE UNCHANGED script
  /\ disk' = [disk EXCEPT ![f] = code']
  /\ dirty' = FALSE
  /\ file' = f
  /\ known' = IF f = file THEN known ELSE {mode}
  /\ answer' = "none"
  /\ UNCHANGED <<window, drawing, toCommit, mode, rendering, commands>>

\* "Save changes to drawing?": no, or yes and where to.
Asked(to) ==
  \/ /\ to = NoName
     /\ answer' = IF dirty THEN "no" ELSE "none"
     /\ UNCHANGED disk
  \/ /\ dirty
     /\ answer' = "yes"
     /\ to = file \/ file = NoName
     /\ to = NoName => "dialog" \in Lapses
     /\ MayCommit
     /\ disk' = [f \in Files |-> IF f = to THEN CodeToSave ELSE disk[f]]

\* A script is loaded, the drawing reset, and the script rendered.
Load(f, lines) ==
  /\ mode # "closed" /\ ~rendering
  /\ MayStop
  /\ code' = lines
  /\ obj' = [id \in Ids |-> NoObj]
  /\ objs' = <<>> /\ newObjs' = <<>> /\ window' = <<>>
  /\ dirty' = (f = NoName) /\ toCommit' = FALSE
  /\ file' = f
  /\ known' = {mode}
  /\ rendering' = TRUE
  /\ UNCHANGED <<drawing, mode, commands>>

OpenFile(f, to) == Asked(to) /\ Load(f, disk'[f])

\* openFile of the file that is open asks nothing.
Reload ==
  /\ file # NoName
  /\ Load(file, disk[file])
  /\ answer' = "reload"
  /\ UNCHANGED disk

\* newFile: a script that only says the size.
NewFile(to) == Asked(to) /\ Load(NoName, <<Line("other", Origin, Black)>>)

\* closeEvent.
Close(to) ==
  /\ mode # "closed"
  /\ MayStop
  /\ Asked(to)
  /\ mode' = "closed"
  /\ dirty' = FALSE
  /\ file' = IF file = NoName THEN to ELSE file
  /\ UNCHANGED <<script, window, drawing, toCommit, rendering, known, commands>>

Closed == mode = "closed" /\ UNCHANGED vars

Next ==
  \/ \E c \in Shapes, p \in Points, k \in Colors : Start(c, p, k)
  \/ \E q \in Points : Finish(q)
  \/ Escape
  \/ \E p \in Points, k \in Colors : DrawText(p, k)
  \/ \E i \in DOMAIN window, p, q \in Points : Move(i, p, q)
  \/ \E i \in DOMAIN window, k \in Colors : Recolor(i, k)
  \/ \E selected \in (SUBSET DOMAIN window) \ {{}} : DeleteSelected(selected)
  \/ ToPreview \/ ToEdit \/ RenderDone
  \/ \E f \in Files : Save(f)
  \/ \E f \in Files, to \in Files \cup {NoName} : OpenFile(f, to)
  \/ Reload
  \/ \E to \in Files \cup {NoName} : NewFile(to) \/ Close(to)
  \/ Closed

Spec == Init /\ [][Next]_vars

-----------------------------------------------------------------------------
(* Properties.                                                              *)

\* What the user sees; an object half-way drawn does not count.
Picture ==
  CASE mode = "closed" -> IF file = NoName THEN <<>> ELSE Drawn(disk[file])
    [] mode = "edit" /\ ~rendering ->
         Look(TheObjs(IF drawing THEN Front(window) ELSE window))
    [] OTHER -> Drawn(code)

\* In edit mode the objects of the script are those its commands draw, command
\* by command: the next commit compares each command with its own object.
\* With nothing to commit they also look the same.
ObjectsMatch ==
  mode = "edit" /\ ~rendering =>
    LET drawn == Drawn(code) IN
    /\ Len(objs) = Len(drawn)
    /\ \A i \in DOMAIN objs : obj[objs[i]].c = drawn[i].c
    /\ ~toCommit => Look(TheObjs(objs)) = drawn
                    /\ Len(newObjs) = (IF drawing THEN 1 ELSE 0)

\* A commit leaves all other lines of the script as they are and in their order,
\* and adds none but empty lines at the end (performUpdates, addLine).
OtherLinesKept ==
  LET others(lines) == Only(lines, {line \in Lines : line.c \in {"other", "blank"}})
      before == others(code)
      after  == others(CodeToSave)
  IN  /\ IsPrefix(before, after)
      /\ \A i \in (Len(before) + 1)..Len(after) : after[i] = Blank

\* A commit when nothing differs does nothing: a script that is saved again
\* and again does not grow.
CommitIsStable ==
  (/\ mode = "edit" /\ ~rendering
   /\ newObjs = <<>>
   /\ \A i \in DOMAIN objs : ~Deleted(objs[i])
   /\ Look(TheObjs(objs)) = Drawn(code)) => CodeToSave = code

Doc == INSTANCE Document WITH
  NoFile <- NoName, NewPicture <- <<>>, PictureOf <- Drawn,
  picture <- Picture, saved <- disk

\* All of it together is a document: the picture changes by the user's commands
\* alone, however often it is committed, rendered again and loaded into the
\* drawing area; what is saved is what the user sees; and nothing is lost, by way
\* of the dirty flag, but by the user's own word.
IsDocument == Doc!Spec
=============================================================================
