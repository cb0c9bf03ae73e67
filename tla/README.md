# TLA+ models of GLE and QGLE

GLE turns a script of drawing commands into PostScript, PDF, SVG or bitmaps; QGLE
shows what it draws and talks to `gle -p`. This directory holds TLA+ models of the
parts of both that keep state over several steps, the TLC configurations that check
them on small instances, and TLAPS proofs of some of their properties for every value
of the constants. All paths below are relative to the root of the repository;
`gle.cpp:987` is short for `src/src/gle/gle.cpp:987`, and likewise for the other files
of `src/src/gle` and `src/src/gui`.

Contents: 1 the system, 2 the modules, 3 the runs, 4 the proofs, 5 disagreements
between code and comments, 6 other things the models had to leave as they are, 7 what
is not modelled, 8 the plan.

To run a model: `tlc -config MCVars.cfg MCVars`. To check a proof: `tlapm
ControlFlow_proofs.tla`. Every `MC*.cfg` belongs to the module the table in section 3
names; `MC*.tla` give the constants that a `.cfg` cannot.

## 1. The system

### 1.1 Components

| Component | Source | State it keeps | Operations | Modelled in |
|---|---|---|---|---|
| Parser of block commands | pass.cpp, pass.h | stack of open blocks, pcode of each line, static `cur_mode`, `m_auto_endif`, lines of the subroutine | one line to pcode; END IF, NEXT, END SUB patch jumps; check for open blocks | `Pass` |
| Interpreter of pcode | run.cpp, drawit.cpp, sub.cpp | current line and opcode, pending jump `srclin`, static `jump_back`, loop variables, calls | one opcode, end of line, call, return, error | `DoPcode`, `ControlFlow` |
| Variables | var.cpp, sub.cpp, graph2.cpp (lets), eval.cpp | global array, map of names of every subroutine with submaps and free indices, stack of frames, name mode | call, return, assign, read a `let`, do a `let`, `d[i]` | `Vars` |
| LaTeX texts | texinterface.cpp, the passes of gle.cpp | hash of texts with their sizes, sizes of fonts for every preamble; files `.texlines`, `.ps`, `.pinfo` | draw a text, measure by LaTeX and dvips, load and save the files | `TeXCache` |
| Output pipeline | gle.cpp (`GLELoadOneFileManager`) | recorded EPS and PDF, files of the output directory, what has been made so far | one step for each format, temporary files, errors | `OutputPipeline` |
| Rendering thread | serverthread.cpp (`GLERenderThread`) | one request slot, `restart`, `abort`, recorded buffers of the script | post a request, take it, interpret, rasterise, sleep, quit | `RenderThread` |
| Server of `gle -p` | serverthread.cpp (`GLEServerThread`), gle.cpp (client) | one connection, one message for it | accept, read a file name, wait for the message, answer, quit | `Preview` |
| Main window | mainwindow.cpp | open file, image, list of things to do after rendering, timer of the monitor | open, zoom, `renderComplete`, tick of the monitor, the questions it asks | `Preview` |
| Time stamps | fileinfo.cpp | stamps of the main file and of the files a run has read | `updateTimeStamp`, `hasChanged` | `Preview` |
| Edit mode of QGLE | gledrawing.cpp, drawingobject.cpp, line.cpp, mainwindow.cpp | objects in the drawing area, the one half-way drawn, flags for "to save" and "to commit", mode | tools, escape, move, recolour, delete, switch modes, save, open, reload, quit | `EditSession`, `Document` |
| Script objects and commit | gle-interface.cpp, gle-sourcefile.cpp, run.cpp | objects of the last run, new objects, source lines with edits to be applied | run in commit mode, schedule edits of lines, apply them, remove deleted objects | `Commit` |
| Blocks | gle-block.cpp, key.cpp | stack of block instances | begin, line, end | planned |
| Objects and names | run.cpp, core.cpp | trees of named objects | BEGIN OBJECT, DRAW, names of points | planned |
| Graphics state and boxes | core.cpp, run.cpp | `gmodel` (attributes, matrix, pending line, bounds), stack of saved states, stack of boxes | lines, circles, attributes, GSAVE and GRESTORE, transformations, paths, clips, boxes | `Ink`, `Graphics` |
| PostScript device | d_ps.cpp, d_dummy.cpp | attributes, matrix, path and stack of PostScript | flush, stroke, fill, clip, save and restore | `Graphics` |
| Graphs, axes, keys | graph.cpp, graph2.cpp, axis.cpp | data sets, axes | numerics and layout | lets only |
| Expressions, tokenizer | polish.cpp, eval.cpp, tokens/ | none over several lines | parsing, evaluation | abstracted to results |
| Fonts, other devices, bitmaps, surfaces, fitting | font.cpp, d_*.cpp, bitmap/, surface/, letzfitz/ | tables, open files | geometry, codecs, numerics | no |
| Configuration, command line | config.cpp, cmdline.cpp | options | parsing | inputs of `OutputPipeline` |
| manip, makefmt, fbuild, glebtool | their directories | | separate programs | no |

### 1.2 How they interact

- `gle` calls `load_one_file` for each script of its command line. For EPS and PDF
  this draws the script in passes (`process_one_file_tex`) until no LaTeX text is new
  (`TeXCache`) and then makes the formats asked for (`OutputPipeline`). Each pass is a
  call of `DrawIt`, which parses the source (`Pass`) and, without errors, runs it
  (`DoPcode`, `Vars`). The parser's mode, `jump_back`, the frames of local variables
  and the `TeXInterface` singleton are static: what one script or pass leaves there is
  what the next one finds.
- QGLE is several threads. The GUI thread runs the main window. The rendering thread
  runs the same interpreter for it; requests go through one slot guarded by a mutex,
  and the image comes back as a queued signal. The server thread accepts one `gle -p`
  at a time, hands the file name to the GUI thread as a queued signal, and waits on a
  condition variable for the message to send back. The message is left by whatever
  list of things to do the main window runs after a rendering.
- A timer of the main window looks for files that have changed and opens the current
  file again. Questions ("save changes?", "reload?") run an event loop of their own,
  so that other slots are executed in the middle of one that asks.
- In edit mode QGLE holds a drawing twice: as lines of a script and as objects in the
  drawing area. A run of the script makes the objects; a commit runs the script once
  more, compares the n-th drawing command with the n-th object, and writes what
  differs into the lines. Switching to the preview, saving and quitting commit.
- A drawing command changes GLE's `gmodel` and calls the device, which keeps a state
  of its own (PostScript's) and a stack of such states. What GLE does not send again
  after one of the two has been saved and restored, the device does not know.
- Files carry state from one process to the next: `.gle/*.texlines`, `.gle/*.ps` and
  `.gle/texpreamble.pinfo` are caches; `.tex`, `.dvi`, `_inc.eps` and others are steps
  on the way to an output, and stay there when a process is killed.

### 1.3 What is hard, and what makes each part correct

- Rendering thread: a request can come at any point of the worker's loop. Correct:
  none is lost, the answer to the last one is what is shown in the end, none is
  rendered without end, and an image never shows an older run.
- Server, main window, monitor: four threads of control and an event loop that is
  re-entered. Correct: a client gets the answer to its own file, nobody waits for
  ever, and whichever rendering runs the things to do of whichever other, at rest the
  monitor runs, the actions are enabled, and the picture is that of the open script.
- Parser: jumps are emitted without target and patched when the block ends, by code
  spread over END IF, ELSE, NEXT, END SUB and "the line after a one-line IF". Correct:
  what is run is nested, and each jump goes where nesting says.
- Interpreter: a jump is an assignment to a line number that is obeyed at the end of
  the line, and one static flag tells a NEXT from a FOR that starts. Correct:
  executing the jumps executes the structured program.
- Variables: indices are shared by locals and lets, frames are reused and never
  cleared, errors leave everything as it is. Correct: every name means the variable
  its place in the text says, in every nesting of calls and lets.
- Edit mode: commands and objects are matched by position alone, lines are inserted
  and deleted by the numbers they had before, and the rendering that replaces the
  objects arrives when it arrives. Correct: the picture changes by the user's commands
  only, is what is saved, and is not lost unless the user says so.
- Graphics state: a line is painted when something flushes it, with the attributes the
  device has by then; the content of a filled box is executed twice, the first time
  without a device. Correct: what is painted, and in which order, is what the script
  says.
- LaTeX texts: pages and texts are matched by position between a list in memory, a
  list in one file and pages in another, written at different times. Correct: a text
  is laid out with its own size, and the passes end.
- Output pipeline: predicates over the command line decide what is made of what, and a
  file may be an output, a step to one, or somebody else's. Correct: what was asked
  for is there and is of this run, nothing else is left, and the files of the user are
  not touched.

`PROJECT.json` lists these hazards one by one, each at its line, with the properties
that cover it.

## 2. The modules

Actions have the names of the functions they translate where there is one function.
Definitions that stand for code are mapped to lines in `PROJECT.json`. A definition
with a name such as `PostWakesNobody`, placed before the definition it varies and
marked "Mutant", is that definition with a bug in it: each property is broken by one
of them, which shows that it depends on the code it is about.

### RenderThread and LatestRequest

`RenderThread` is `GLERenderThread`. Each action is one critical section of the mutex
or one stretch between two of them: `Post` (within the three render requests of the
GUI), `Take`, `Interpret`, `Rasterise`, `Settle` (the bottom of the loop), `Wake`,
`Deliver` (the GUI handles `renderComplete`), `Close` (the destructor). The image of a
request is a pair: the request it answers and the run whose output it shows. Output
recorded as EPS or PDF, an EPS file on disk, and runs that fail are all there;
`Poppler` is the build option. `startRender`, `nextRender` and `endRender`, by which
the GUI thread borrows the interpreter, are not.

`LatestRequest` is what a user of the thread may rely on: a request may be overtaken,
never reordered; the last one is answered in the end; a request is answered at most
twice. `RenderThread` implements it (`AnswersLatest`, under its fairness; the steps
are also proved, section 4), and `Preview` uses `LatestRequest` in the place of the
thread. So what is checked of the main window holds with any worker of this kind.

### Pass, DoPcode, Structured, ControlFlow

`Pass` is the parser of block commands. A source is a sequence of lines, a line a
sequence of commands; `StartLine` picks a line and does what happens before its first
command (text blocks, the END IF of a one-line IF), `Command` compiles one command or
refuses it, `Finish` is what follows the last line. `code` is the pcode, one opcode
for each command, and `jump` gives each opcode with an operand the place it jumps to;
`<<0, 0>>` is a jump not yet patched. Errors of single lines are counted and the next
line goes on; a source with errors is not run. `Again` is the next `DrawIt` of the
same process.

`DoPcode` extends it with execution: `at` is the opcode, `srclin` the pending jump,
`jumpBack` the static flag, `frames` the calls. Conditions are chosen freely, loop
variables count. A condition may call the subroutine (`CallInExpression`).

`Structured` executes the same commands without jumps: where a branch or a loop goes
on is defined by nesting depth alone. `ControlFlow` shows that `DoPcode` implements
it, and states the properties of the compiled program against that depth.

### Vars and Scopes

`Vars` has the representation: a map of names to indices for every subroutine
(`maps`), its submaps and free indices, the stack of frames with its level, the name
mode, and `ctl`, the calls and lets the C++ stack holds. `ParseLet` and `EndParse` are
the reading of a `let` (with `d[i]` detected while its expression is evaluated),
`DoLet`, `Select`, `Detect`, `Retrieve` and `EndLet` its execution, twice if the graph
is done twice, `Run` the next run of the process after one that ended anywhere.

`Scopes` has environments and no indices. `LexicalScopes` is the refinement: the
environment of a call or a let is what the names it owns stand for in its frame.

### TeXCache

`hash` is `m_TeXHash`, `objects` the texts placed on the page, `infos` the sizes of
fonts by preamble; `texlines`, `ps`, `pinfo` and `pps` are the files. `Run` starts a
process on a script that may have been edited; `Reset`, `CheckTeXFontSizes`, `Draw`,
`TryCreateHash`, `Latex` and `Dvips` are the steps of a pass. A size is named by what
it was measured of (preamble, text and font), so that a wrong size can be seen. A
script may draw more when the size of its first text is known: the second pass is not
always the last. `DrawError` and `Crash` end a process; LaTeX and dvips may fail, up
to `MaxFaults` times.

### OutputPipeline

One step for each function `load_one_file_sub` and the manager call, in the order of
the code: `delete_previous_output`, `Draw`, `CreateTeX`, `ConvertEpsToPdf`,
`WriteIncEps`, `WriteIncPdf`, `CreateEps`, `WriteEps`, `CreatePdf`, `CreatePs`,
`CatPs`, `CreateBitmap`, `RecordEps`, `RecordPdf`, `delete_original_eps_pdf`,
`clean_tex_temp_files`, `PlainPs`, `Svg`. `LoadOneFile` goes on with the next script
of the command line and `Exit` with the next process, in the same directory. A file is
described by what is in it: nothing, the figure without or with its LaTeX texts, the
figure cut short, a blank page, the output of an earlier run, something of the user's.
A script may have an error that the parser finds, which `DrawIt` throws, or one that
is met in the run, which it catches before it closes the device: `Draw` asks for both,
`PlainPs` and `Svg` are stopped by the first only and leave a figure cut short after
the second (`Figure`). LaTeX and Ghostscript may fail, a file may not be writable
(`CannotWrite`), and GLE may be killed at any step (`Kill`).

### Preview

Clients, server thread, main window, monitor, worker and the files on disk. `Listen`,
`Read`, `Reply` and `Look` are the server's loop; `Handle` delivers the next queued
signal to the GUI thread (a file name from the server, or `renderComplete`);
`openFile`, `AnswerSave`, `AnswerReload` and `checkForFileUpdates` are the slots,
split where they ask a question; `Open`, `Zoom`, `Edit` and `Close` are the user,
`Write` other programs, `Take` and `Finish` the worker. `win` holds the members of the
window, `mon` the monitor, `dialogs` the questions open inside each other. A message
for a client is the set of requests whose output it quotes, which is how `OwnAnswer`
can tell whose it is.

### Commit, EditSession, Document

`Commit` is a commit as an operator from lines and objects to lines. `CommitRun` is
the run in commit mode: for each drawing command, the changes of position (`amove`
lines), of properties (`set` lines) and of the command itself are made or scheduled
with the numbers of the old lines; `performUpdates` applies the insertions and
deletions in one pass. Lines of text are abstracted to a command, a point and a
colour; the parts of the code that look for an `amove` or a `set` some lines before
are kept. `Run` is an ordinary run of the same lines, which gives the picture
(`Drawn`).

`EditSession` is the session around it: `Start`, `Finish`, `Escape`, `DrawText`,
`Move`, `Recolor` and `DeleteSelected` are the drawing area; `ToPreview`, `ToEdit`,
`RenderDone`, `Save`, `OpenFile`, `Reload`, `NewFile` and `Close` the main window.
`obj` holds the GLE objects, which `objs` (of the script), `newObjs` (not committed
yet) and `window` (of the drawing area) share.

`Document` is what the user is promised: one picture, a file it belongs to, and the
contents of the files. `IsDocument` is the refinement.

The constant `Lapses` names what a user can do that the code does not cope with. With
one of them switched on TLC finds a counterexample each time: `"escape"` (section 5),
`"leave"` (change the tool or the mode, or save, half-way an object), `"twice"` (save
after deleting two objects), `"render"` (go on drawing while the script is rendered)
break `ObjectsMatch`; `"stray"` (delete a line that an `amove` has been written for)
and `"dialog"` (answer Yes to the question whether to save, and cancel the file
dialog) break `IsDocument`. The runs keep them off, so that everything else can be
checked.

### Ink and Graphics

`Ink` says what a script draws without a device: `Meaning` is a fold over its commands
in which every command paints at once with the attributes its place gives it, a block
gives back what it found, and a box is painted around what was drawn in it. `Ink` is
written from what the commands do, command by command, and is mapped to the code that
decides it.

`Graphics` is how it comes about: `g` is the `gmodel`, `gsave` the stack of saved
ones, `boxes` the stack of boxes, `dev` and `saved` the state and the stack of
PostScript, `real` whether the device is the dummy one. The calls of one command
follow each other on a record of these (`Flush`, `SetColor`, `SetState`, ...), in the
order of `core.cpp`; a command is one step. The plane is a line, and numbers are
counted in quarters, so that a matrix that halves stays exact. A script is chosen
command by command as it is executed, so every script of a family is met without being
listed.

`Lapses` is used as in `EditSession`. Each of these makes the drawing differ from what
the script says: `"cap"` (a cap set inside a saved state is not given back to the
device: `g_set_state`, core.cpp:1850, does not send it; axis.cpp:499 asks "is cap not
saved by gsave??"), `"gsave"` (GSAVE with a line pending, a path, GRESTORE: the
restored `xinline` makes the next flush stroke the path), `"shift"` (TRANSLATE or
SCALE with a line pending, or inside a box), `"clip"` (the matrix set inside a clip
stays in the device after its end), `"point"` (GRESTORE or END inside a path),
`"replay"` (attributes changed inside a filled box: its second pass starts with those
the first has left), `"cross"` (GSAVE and GRESTORE across the ends of blocks).

## 3. The runs

Times are for two workers. All runs but those of section 5 end without an error.
`CHECK_DEADLOCK FALSE` stands in all of them because every model has a bound after
which nothing happens, or a program that ends.

| Run | Module | Distinct states | Time |
|---|---|---|---|
| MCRenderThread | MCRenderThread | 66,798 | 15 s |
| MCControlFlow | MCControlFlow | 505,215 | 45 s |
| MCTeXCache | MCTeXCache | 143,188 | 25 s |
| MCOutputPipeline | MCOutputPipeline | 1,990,800 | 35 s |
| MCVars | MCVars | 482,698 | 60 s |
| MCPreview | MCPreview | 492,789 | 2 min |
| MCEdit | MCEdit | 95,959 | 80 s |
| MCGraphics | MCGraphics | 1,821,584 | 2 min |

**MCRenderThread**: two scripts, three requests, with Poppler. `NothingForgotten`: a
sleeping worker has answered the last request. `LastRequestShown`: at rest its image
is on display. `AtMostTwice`: no request is rendered a third time. `EPSIsOfLastRun`:
an image from recorded EPS never shows an older run. `AnswersLatest`: the thread
implements `LatestRequest`, liveness included. Three requests are one that is being
rendered, one that overtakes it and one that arrives while the second is taken; a
fourth meets the worker in no other state, since there is one slot.

**MCControlFlow**: all sources of at most five lines over three alphabets: chains of
IF, ELSE IF and ELSE in block and one-line form with text blocks; FOR, WHILE and UNTIL
in each other with BEGIN blocks and IF; a subroutine with RETURN, calls, calls from
conditions and calls of itself, two deep. `WellNested`: what is run is nested, and
every block ends with a command of its kind. `JumpsNest`: every target is the one
nesting gives. `FirstValueTested`: a FOR that starts is not taken for one that goes
on. `Structured`: execution is that of the structured program. Five lines hold two
blocks in each other with a command between them, which is where patching by the wrong
block shows.

A fourth alphabet has errors, commands that must not share a line and a text block
that has no end, in sources of three lines, two of them one after the other.
`AllPatched`: a program that is run has no jump without a target.

**MCTeXCache**: three runs (an edit after an edit), two preambles, three texts in
several orders, one of them drawn only when another fits; one fault. `OwnDimensions`:
without faults every text has the size of that text. `MeasuredInThisRun`: a run that
has measured is right about all texts whatever it found. `SizesOfPreamble`: without
faults the font is chosen by the sizes of the preamble it is typeset with.
`PassesEnd`: the loop of passes ends.

**MCOutputPipeline**: two scripts on one command line or two, all of five formats
alone and five pairs, with `-tex`, `-inc`, `-keep`, `-nosave`, `-cairo`, `-nopdftex`
and output to stdout, one fault. `RequestedDone`: a script that is done without a tool
failing has made every output, complete. `NoPreviousOutput`: an EPS or PDF asked for
is never that of an earlier run. `NoLeftovers`: no temporary file is left.
`RefusedForCause`: a run refuses to write its `.tex` only for a file of the user's or
of an interrupted or keeping run. `UserTeXUntouched`: the user's `.tex` is not written
over. `RequestedDone`, `NoPreviousOutput` and `NoLeftovers` exempt the cases that
section 6 lists, each by a definition of its own (`ForeignTeX`, `CairoOnly`,
`PopplerFile`, `NoTexts`, `CutShort`). The pairs are those where a predicate of the
code looks at two formats at once; three formats ask the same questions again.

**MCVars**: a global, a subroutine without locals and one whose parameter has the
global's name, `d[i]`, three calls or lets inside each other, two lets to a graph,
five pieces of work. `MapOfCall`: the current map is that of the innermost call.
`IndicesPartition`: no two variables share an index. `IndicesComeBack`: the indices of
a let are free again when it is done. `CellsExist`: an index in use lies within the
frame. `ReadsAgree`: an index reads what its name means. The indices stay far below
`NUM_LOCAL` (500 as in the code): what the run checks is that they are within the map
and the frame; the theorems assume that `NUM_LOCAL` suffices (`Wide`).
`LexicalScopes`: `Vars` implements `Scopes`.

**MCPreview**: two `gle -p` with a script each, one of which may fail; either another
user action or a change of a file by another program; one question of the monitor
inside another question. `OwnAnswer`: a client whose file is opened while nothing else
goes on is answered with that rendering. `BackToNormal`: at rest the monitor runs,
actions are enabled, and no to-do is left. `ShowsOpenFile`: at rest the image is what
the open script recorded. `ChangeNoticed`, `ClientServed`, `ServerQuits`: a change is
noticed, a client answered, the thread quits. The safety properties also held on an
instance with one user action and one write and both scripts failing (16.4 million
states), which takes too long to be repeated each time.

**MCEdit**: one file with one of two scripts that have the shapes a commit tells apart
(an `amove` before an object, before a `set`, before a comment, behind an object, in
the last line; a `set`; lines in a row; an object in the middle), two commands of the
user with commits, renderings, switches of mode and files between them, two points,
two colours, four objects. `ObjectsMatch`: the objects of the script are those its
commands draw. `OtherLinesKept`: a commit leaves all other lines as they are.
`CommitIsStable`: a commit of nothing does nothing. `IsDocument`: the refinement. Two
commands are two edits of neighbouring objects in one commit, or an edit on top of one
that was committed. All 7,380 scripts of up to four lines, with two edits before one
commit, were checked once (591,582 states): commits were faithful except for the lapse
`"stray"`.

**MCGraphics**: scripts of seven commands from one of four families: attributes with
GSAVE and GRESTORE; paths with lines, moves and saved states; boxes with blocks and in
each other; clips with transformations and saved states. `DrawnAsWritten`: except
while the content of a filled box is executed, what PostScript has painted, with the
line that is pending, is what `Meaning` says, in that order and with those bounds.
`DeviceAsBelieved`: what GLE takes the device's state to be is what it is. Seven
commands are two blocks in each other with a command before, within and after each.
One family at a time, because a fill does not ask anything of a clip that a line does
not, and all commands together leave room for five only.

### Fairness

- `RenderThread`: weak fairness of the worker and of `Deliver`: the operating system
  schedules the thread, and the event loop delivers queued signals. Nothing obliges
  the user to ask or to quit. `LatestRequest` has the same of its worker, where it has
  a newer request, and of its delivery.
- `TeXCache`: weak fairness of `Step`: a process goes on and LaTeX and dvips return.
  Crashes and errors are never obliged to happen.
- `Preview`: weak fairness of the server thread, of the handling of queued signals, of
  the worker while it has a newer request or is rendering, and of the timer together
  with the user's answers to questions. The code waits for those answers without a
  time limit, so nothing can be promised to a client of a user who leaves a question
  open; nobody is obliged to open, change or close anything.
- The other modules have no liveness property and no fairness.

## 4. The proofs

All are for every value of the constants; the only assumptions are the named `ASSUME`s
of the modules (types of constants, bounds that are natural numbers), which TLC
evaluates in the runs.

**RenderThread_proofs**, for any number of scripts and requests, with and without
Poppler.

- `TypeCorrect`.
- `NoRequestForgotten` and `LastRequestIsShown`. `NothingForgotten` says something of
  a sleeping worker only and is not inductive. The strengthening `Attended` says at
  every point of the loop who will see to the last request: the request is answered,
  or the worker has it, or `restart` is set, or the worker is about to take it. Going
  to sleep is then harmless, because `Settle` reads and clears the flag under the
  mutex.
- `RenderedAtMostTwice`. `Rounds` ties the number of times a request was taken to the
  flag: a second round with the same request needs `restart`, which the bottom of the
  loop resets and only a newer request sets again.
- `RecordedEPSIsOfLastRun`. `Fresh`: every EPS buffer is empty or of the last run. It
  has no counterpart for PDF, see section 5.
- `ImplementsLatestRequest`: every step of the worker and the GUI is one of
  `LatestRequest` or a stutter. With `Attended` and `Rounds` it needs `Numbered` (a
  worker past its start has a request), and lemmas that appending an image appends its
  number to the answers, and delivering one takes the first answer away.

**ControlFlow_proofs**, for all sets of lines, sources of every length, and any number
of them.

- `TypeCorrect`, which includes that the stack of blocks is never popped when empty
  and every target is a place.
- `JumpsPatched`: a program that is run has no jump without a target. The invariant
  `Owned`: every jump without a target belongs to an open block: it is the jump of
  that block itself, or that of a RETURN which waits for the END SUB of an open SUB. A
  program is run only when no block is open.
- `BlocksNest` and `JumpsLead`: `WellNested` and `JumpsNest`, which speak of a program
  that runs and of `Structured`, where a block ends at the first closing command of
  its depth, and a depth is a difference of two cardinalities. The parser counts
  nothing: it has a stack. The invariant `Nesting` is about every line on the way
  there. There is a matching `c` of openers to closers and a map `g` of each IF of a
  chain of ELSE IFs and each ELSE to the IF around it (`Fits`), such that blocks lie
  in each other or apart (`Nested`), an opener and its closer are of one kind
  (`Typed`), the stack is the openers without a closer in their order, where the ELSEs
  that dangle share a place with the block above (`Stacked`, `Ranked`), and every jump
  either waits for a block of the stack or leads where the matching says (`Targeted`,
  `Done`). A one-line IF is closed by whatever line comes next, or by none if an ELSE
  follows there: `LineFits` says of the line being compiled that `m_auto_endif` is set
  exactly when it is such a line, and that its block is then on top of the stack
  unless something opened behind THEN. For each command there is a lemma that extends
  `c` and `g` (`BeginFits` ... `EndFits`). At the end nothing is open, and
  `ReadClose`, `ReadElse` and `ReadDepth` show that depths and the matching agree:
  what lies between an opener and its closer is a union of whole blocks, so that its
  cardinalities cancel.

The second half of the module is for sources of every length that are `Tame`, and
calls of any depth. `Tame` leaves out what section 5 and 6 show to go wrong: a
subroutine defined twice, commands behind a FOR on its line, and, for sources with a
FOR in them, heads of loops that call the subroutine and a run that follows another
(both can leave `jump_back` set for a FOR it is not meant for). All sources of
MCControlFlow are `Tame`, which TLC evaluates (`AllAreTame`).

- `RunsAsWritten`: `DoPcode` implements `Structured`, the last link between patched
  jumps and nesting. Jumps alone do not say where control goes: a jump is the pending
  line `srclin`, with an offset into it that is not always reset, both are read at the
  next end of line, and calls save and restore them. The invariant is `LaidOut` and
  `Running`. `LaidOut` is about the compiled program: loops, NEXT, SUB and END SUB
  have a line of their own, FOR and RETURN end theirs, every opcode that may jump has
  a target, and there is at most one SUB, which a call finds. `Running` is about
  control: unless it is at the end of a line, the line that is pending is its own and
  the offset 0 (`PlacedAt`); inside of a call it is between SUB and END SUB and leaves
  only by END SUB (`Within`), because blocks lie inside of the subroutine or apart
  from it; and what callers go on with are places with that same line pending
  (`Calling`). `Moved` is what an opcode has to do to keep it, with a lemma for every
  kind of jump (`MoveOn` to `MoveCall`) and one for every opcode (`OrdinarySim` to
  `ReturnFromSubSim`). The end of a line is a stutter of `Structured`.
- `FirstValueKept`. The part of `Running` about `jump_back` (`BackAt`): when it is
  set, control is on its way to the head of the loop whose NEXT has set it, so that a
  FOR which has just been assigned its first value does not see it. The mapping counts
  the increment that is on its way (`AbsVals`); `ForCounts` shows that FOR then tests
  the value that `Structured` has.

**OutputPipeline_proofs**, for every set of option combinations and any number of runs
and faults.

- `UserTeXKept`, an action property, and `RefusalsHaveCause`. `IInv` is `Typed`,
  `Owner` and `RefusedForCause`: between `createTeX` and the removal of temporary
  files a `.tex` file beside the outputs is the run's own; at other times there is
  none, or the user's, unless a run was interrupted or told to keep it.
- `NothingLeftBehind`. `NoLeftovers` speaks of the end of a run. Before, `Explained`
  says of every file the run has made that it may stay or that a later step knows of
  it: it is in `m_hasFile`, in `m_hasIncFile`, or it is the `.tex` file.
- `NothingOfBefore`. An EPS or a PDF can only be of an earlier run if LaTeX makes it
  of an earlier `.tex` file or of an earlier figure. `OwnTeX` says that the `.tex`
  file has been written whenever LaTeX is needed for texts, `Figures` that the figure
  has been written by the time it is included, and both rest on `Drawn`: which buffer
  is filled, for which options.
- `AllRequestedMade`. Which steps make a format is decided by different predicates at
  different places. `Coming` says how far each format is at each of them: in its
  buffer, in a file that `m_hasFile` knows of, or where it was asked for. The cases
  the code does not support (`ForeignTeX`, `CairoOnly`, `PopplerFile`, `NoTexts`), and
  the one in which an error goes unnoticed (`CutShort`), are named in `RequestedDone`,
  and the proof needs no other. `Includes` and `IncDone` say the same of the figures
  that LaTeX includes.

**TeXCache_proofs**, for any texts, preambles and scripts, and any number of runs,
failures and crashes.

- `SizesAreOwn` and `MeasuredAnew`. Pages and objects are related by their numbers
  only, so the invariant is about when the numbers agree. `Matched` has it step by
  step, for a run that has measured or that no failure has preceded: before a pass the
  pages are those of the used objects of the hash, or of the file of texts that is
  still to be read; in a pass every object has the size of its line, or has none and
  the hash is marked as modified, so that the pass is not the last. `Together` carries
  that over the runs: the two files belong together except while LaTeX and dvips run.
  `Used` is stated by counting, not by a recursion over the hash; that its n-th object
  exists is found as the least place with n used ones (`Least`).
- `FontOfPreamble`. `Chosen`: without failures every entry of the list in memory has
  its own preamble's sizes or none yet, every record of the file has its own
  preamble's, and the drawn lines have those of the script. The record without
  numbers, read as zeros, cannot be there without a failure, because no preamble is
  called `None` (`PreamblesAssumption`). `LoadInfos` is a recursion over the records
  of the file: that it is defined, and what it gives, are shown by a least record at
  which it would go wrong.
- `TypesAndOneObject`. That the hash has one object for a line needs that the file of
  texts has no line twice, that it is read only into an empty hash, and that `Used`
  takes no place twice (`PickedIs`).

**Vars_proofs**, for any subroutines, names and values, and calls and lets of any
depth.

- `MapIsOfCall`. `MapOfCall` speaks of the whole stack; when an entry goes, what comes
  back is what the entry kept (a call) or what the let has left. `CurrentMap`
  therefore says of every entry which map was current below it, and that a let stands
  on a call or on the main program, never on a let: that is why taking away the
  temporary map can set the current one to none. The graph block is part of it,
  because it decides where a let can begin.
- `PartitionKept` and `IndicesReturn`. `Sharing` relates the lets of the open graph
  block to the map they were parsed on. `Parted`: its indices are those of its own
  names, those of the variables that one let has left there, and the free ones, none
  of them twice. While no let is drawn the first let of a graph may hold variables
  there and all lets parsed later have given theirs back (`Graph`, `Lets`, `Maps`);
  while one is drawn, what it put back is what it had taken. The list of free indices
  is kept sorted, which is stated by ranks and not by a fold so that the prover can
  use it.
- `CellsThere`, if every subroutine leaves room for what a let needs (`Wide`: two
  indices and one for every data set below `NUM_LOCAL`; the code does refuse more, and
  the property is then about lines that were refused). `Framed` says whose each frame
  is: a call has one of its own, a let on the main program too, a let in a call
  borrows that of the call (`Borrows`), and the frame a let finds is as long as the
  indices it was given. `Sized`: no map is longer than the names it had and that room.

In the same module, of the same scripts, when the maps have room (`Wide`) and no
global or local variable has the name of a data set (`Apart`): a variable called `d1`
is taken for the data set inside of a let, which TLC shows, and the code does not
refuse it.

- `NamesRead`. `NamedNow`: each let of the open graph has the name of its expression
  where its reference says: at an index of its own submap, among the names of the call
  around the graph, or as a global. With the invariants above, what `Get` reads
  through an index is then the cell of the frame that belongs to the entry which
  `Scopes` looks the name up in.
- `ScopesImplemented`. The mapping (`Entries`, `Envs`, `LetsRead`) gives every entry
  of the stack the values of its names, read from its frame. `FrameAt` says which
  frame that is, `EnvIs` what is in it. A step of `Vars` changes one frame, or moves
  the level by one, and the work is to show that all other entries keep frame and
  cells although frames are shared by a let and the call under it (`BelowKept`,
  `CallsRestored`) and are numbered from the top (`FrameSteady`). `ValuesNow`, that
  every cell of every frame holds a value, is needed because a call finds its locals
  as the frame was left. One lemma for every action (`CallRefines` to `DoLetRefines`);
  `Retrieve` is not seen by `Scopes`. That a map has a name only once is an assumption
  of `Vars` (`LocalsAssumption`: `m_Map` is a hash map).

**Preview_proofs**, for any number of clients, files, actions and questions.

- `WindowComesToRest`. `BackToNormal` speaks of a window at rest only and is not
  inductive. `PutRight` says who will put right what is not as it should be: actions
  that are disabled and things to do wait for a rendering that is requested, worked at
  or answered in the queue of events (`Coming`), whichever rendering it is; a monitor
  that is stopped waits for things to do or for the answer to an open question. At
  rest none of these is left. That any rendering will do is also why `OwnAnswer` is
  not a consequence, see section 6.
- `ImageIsOfOpenFile`. `AtLast`: an open file is the last that the worker was asked
  for, and once the worker has nothing left to do, what the script has recorded is on
  display, or is in the queue with no other image behind it (`ShowsAtLast`).
- `AnswersAreOwn`, for clients that have names of their own (`ClientsAssumption`).
  `Conversation`, `Line` and `Claimed` say where the server, its client and the window
  are: what the window claims for a client is in the message already, or it waits for
  the output of the last rendering, with no older output and no request of another
  client in the queue. `OneByOne`: as long as only clients have had files rendered,
  every request finds the worker idle and the queue empty. `mixed` is the history of
  the model that says when this ends.

**Graphics_proofs**, for scripts of any length, of commands in any order.

- `DeviceBelieved`, for scripts the code copes with: caps do not change inside of
  saved states, matrices not inside of clips, and so on (`Coped`: of the lapses of
  section 2, those of `cap`, `clip`, `replay` and `cross`; the others do not matter
  here). The difficulty is the filled box, whose content is executed twice: the second
  pass begins with a device that has the attributes from before the box, while GLE has
  those from after the first pass. `ToCome` says that each attribute that differs is
  set again before the box ends, `Changed` that this is so because a command between
  its BEGIN and its END has set it in the first pass, not a state that came back. A
  state that comes back inside of the box was saved inside of it (`Depths`), and no
  clip is left open (`ClipsIn`). The blocks of a script are found by counting
  (`Level`, a difference of two cardinalities), not by a recursion over it, so that
  "before the box ends" can be said of a place of the script.

**EditSession_proofs**, for scripts of every length, any points and colours, any
number of objects and commands.

- `TypesKept`. That a commit makes a script is a fact about the run in commit mode:
  whatever it changes, schedules and deletes are lines of the script and amoves and
  set commands (`Kept`, `CommitLineKeeps`). That objects are objects needs that
  numbers made for a rendering are new and different (`FreshIs`), and that what is in
  use survives `Collect`.
- `OthersKept`, whatever the user does. `Kept` says that the run in commit mode
  changes no comment and no other command, and schedules none for deletion or
  insertion; `OnlyUpdateLine` and `OnlyUpdated` that `performUpdates` then passes them
  on in their order, although an insertion that is passed blocks those after it. An
  empty line may be inserted only with a new object, after all lines of the script.
- `CommitStays`, whatever the user does. `Same` (in `CommitStable`): when the objects
  look as drawn, the run in commit mode has after every line the point and the colour
  of an ordinary run, and has changed and scheduled nothing.
- `ObjectsMatchAlways`, if the user is `Careful`: of the lapses of section 2 those
  that break `ObjectsMatch` are excluded, and the two that do not (`"stray"`,
  `"dialog"`) are not. `ObjectsMatch` speaks of the drawing area while it can be used.
  The invariant `Matching` says what carries it through preview, rendering and saving:
  when there may be something to commit, or something half-way drawn; when the objects
  of an earlier rendering are still those of the script, which is when
  `editModeToggle` renders nothing; and that the object being drawn is the last in
  both lists that have it, so that Escape takes it from both unless it is the only new
  one. The other half is about commits: what a script draws after one are the objects
  that are not deleted, followed by the new ones (`KindsCommitted`), by following each
  drawing command through the run, the insertions and the deletions (`OwnKind`,
  `DeletedIff`, `UpdatesIs`, `AddObjectsDoes`), and `removeDeletedObjects` leaves the
  same of the list as long as one object at most is deleted (`RemoveDeletedOnly`,
  `LeftAfter`). TLC had checked `Matching` with both lapses allowed (111,248 states)
  before it was proved.

`Commit` is written with recursive functions, and their values are needed for scripts
of every length. That such a function exists is shown once (`ByRecursion`, by a least
number at which it would go wrong), and each one is then identified with its steps
(`OnlyIs`, `RunIs`, `CommitIs`, `UpdatesIs`, `AddsIs`).

Only model-checked: all liveness, that of `AnswersLatest` included, which is beyond
the prover in principle; the refinement `IsDocument`, which needs that a commit draws
the very picture that was edited, points and colours included, and not only objects of
the same kinds; of `Graphics` `DrawnAsWritten`, which says what a fold computes
(`Meaning` of `Ink`).

## 5. Disagreements between the code and what is said of it

Each is a run that ends with a counterexample.

- **MCRenderThreadAbort**, `AbortQuits` (serverthread.cpp:357). `abort` is documented
  as "Set true to quit". A destructor that runs while the worker is busy sets it and
  wakes nobody; the worker then finds `restart` false and sleeps without looking at
  `abort`, and the destructor waits for ever.
- **MCRenderThreadStale**, `NoPreviousRendering` (gle-interface.cpp:1147). `cleanUp`
  empties the EPS buffer of a script but not its PDF buffer. After a run with Cairo, a
  run that fails leaves the old PDF there, and the next zoom shows it.
- **MCJumpBack**, `FirstValueTested` (run.cpp:1190). `jump_back` of an outer loop is
  still set while the expressions of its head are evaluated; a FOR in a subroutine
  they call takes it for its own and skips its first value. MCControlFlow checks the
  same property of programs whose subroutine has no FOR; `FirstValueKept` shows that
  no call from the head of a loop, and no earlier run, is enough.
- **MCEditEscape**, `IsDocument` (gle-interface.cpp:1176). "If we get an escape key,
  stop drawing" (gledrawing.cpp:1457): the object is to be gone. `cancelObject` looks
  for it in `m_NewObjs` from the end and stops before index 0. The first new object
  since the last commit is not found, stays in the list, and is written into the
  script by the next commit.

## 6. Cases the properties have to exempt, and gaps that are known

These were met while translating. They are behaviour of the code; the models contain
the first group and exclude it by name, and leave out the second.

In the models:

- Output: with `-inc`, a PNG of a script without LaTeX texts is made of whatever
  `.tex` is there (`ForeignTeX`). With `-cairo` and LaTeX texts no EPS or no texts
  come out in some combinations (`CairoOnly`, gle.cpp:1064). Poppler writes to a file,
  not to standard output (`PopplerFile`, texinterface.cpp:1165). `-tex` with a script
  without LaTeX texts makes no `.ps` (`NoTexts`, gle.cpp:1251). `-nosave` makes
  nothing of some formats (gle.cpp:1123). A PNG goes by way of an `.eps` and can
  overwrite or delete an earlier one (gle.cpp:1057). Old `.ps`, `.png` and `.svg`
  files survive a run with errors; only `.eps` and `.pdf` are deleted first. After `-d
  ps` and `-d svg` nobody asks for errors (gle.cpp:1253, 1269): a parser error ends
  the script and leaves the file as it was, but one met in the run is caught
  (drawit.cpp:379), the file stays cut short, the next device is drawn, and the script
  is done with exit code 0 (`CutShort`). Failures of LaTeX do not reach the exit code
  either.
- LaTeX texts: `.texlines` is written before the pages it goes with; after a failure
  or a crash between the two the next run takes sizes from the wrong pages
  (`OwnDimensions` speaks of runs without faults). An edit of the preamble does not
  make known texts new (`OwnDimensions` therefore says nothing of the preamble a size
  was measured under). A failed measurement of fonts is saved and read back as zeros,
  which are never measured again (`SizesOfPreamble` speaks of runs without faults;
  ChangeLog.txt:497). A stale `texpreamble.ps` can be read for a new preamble
  (texinterface.cpp:605).
- Graphics state and edit mode: the lapses of section 2.
- SVG: with `gle -d svg a.gle b.gle` the LaTeX texts of `a.gle` make `b.gle` fail with
  a message about LaTeX expressions it does not have (gle.cpp:1194).
- Parser: a source that ends inside a text block makes `checkmode` throw before it
  resets `cur_mode`, and the next source of the process is read as text
  (pass.cpp:257).
- Interpreter: an error leaves `jump_back` set for the next run. A FOR that is left
  executes the rest of its line (run.cpp:1195), and one subroutine defined twice has
  the lines of the last definition (run.cpp:1549; the constant `Redefine` switches it
  on).
- Preview: an answer left by an open that no client asked for goes to the next `gle
  -p` (serverthread.cpp:187), and `renderComplete` of an earlier rendering runs the
  to-dos of a later open (mainwindow.cpp:1610): `OwnAnswer` is about clients that are
  alone. Cancel in the question of `openFile`, or an unknown extension, leaves the
  client without a message until another one comes (mainwindow.cpp:2195, 2290):
  `ClientServed` excludes what the user cancels.

Outside of the models:

- A text of several lines with an empty line in it is counted with that line and
  written without it: the texts after it get each other's sizes
  (texinterface.cpp:995). With `-inc`, LaTeX is run for the PNG of a script without
  LaTeX texts (1374).
- After an error in `doLet` the name mode stays as it is for the rest of the process
  (graph2.cpp:2466).
- Edit mode: Save As of an unchanged name, several files open one after the other in
  the runs (one is enough for a commit), a new drawing that is saved at once, include
  files (whose lines move with `performUpdates`), loops and subroutines that draw one
  command several times, an error in the run that commits (commit mode stays on), and
  the amove tool (gledrawing.cpp:2269).
- Graphics: 99 nested GSAVEs (core.cpp:1822 counts and does not save), errors inside a
  filled box (the device stays the dummy one), `set lstyled` after `lstyle`, paths and
  boxes in paths.
- Preview: a client that disconnects before its request is complete. An empty file
  name goes to the window, which asks the user for a file; when that is cancelled the
  server waits for a message, and other clients for the server (serverthread.cpp:113).
  Recent files stay enabled while a script is rendered.
- A text that depends on the time of day is new in every pass, and the passes then
  need not end (texinterface.cpp:512).
- `doFitFunction` assigns the global `X` (graph2.cpp:2762). `d[i]` in a subroutine
  called by a let becomes a global (eval.cpp:1084). A graph inside an object sees the
  locals of the subroutine that draws it (run.cpp:2200). The commit mode of QGLE keeps
  submaps.
- A one-line IF or ELSE on the last line is refused although it is complete
  (pass.cpp:265 against 1231).
- A data file written between being read and `addFilesToMonitor` is not reloaded
  (mainwindow.cpp:1609; ChangeLog.txt:215 says data files are monitored), nor a main
  file written between `loadGLEFile` and `updateTimeStamp` (2307–2310). After "Ignore"
  only the stamp of the main file is renewed (348).
- The retry loop of `gle_preview_file` has no end when QGLE never listens
  (gle.cpp:636), and `startServer` sets `serverRunning` even if `listen` fails
  (mainwindow.cpp:594).

## 7. What is not modelled, and why

- Geometry, numerics and codecs (graphs, axes, surfaces, contours, fitting, fonts,
  bitmaps, devices): they compute with floating-point numbers and keep no state that a
  sequence of steps could bring into disorder.
- Tokenizer and expressions: string processing, abstracted to its results. A value of
  a condition is chosen.
- Dialogs, settings, property editor, downloads: wiring of widgets and of external
  libraries.
- manip, makefmt, fbuild, glebtool: separate programs.
- VTeX, X11, the EMF device, standard input as a script, the debugging option:
  variants of what is modelled that do not fit without doubling the models.

- `startRender`, `nextRender` and `endRender`, EPS files and export in QGLE: they add
  callers to what `RenderThread` and `Preview` have.
- Fonts, dashes, joins, arrows and curves in `Graphics`: attributes and shapes that
  are saved, sent and flushed like those that are there.

The share of the lines that is modelled is small because most of the code is of the
first two kinds and of vendored fitting and contouring code; what keeps state over
several steps is what the models are about.

## 8. The plan

The order was by how much depends on a part and how hard it is to test. Done, in this
order: `RenderThread` with its proofs, `Pass`, `DoPcode`, `Structured` and
`ControlFlow` with the proofs that jumps are patched, `TeXCache` with its proofs,
`OutputPipeline` with its proofs, `Vars` and `Scopes`, `LatestRequest` and `Preview`,
`Commit`, `EditSession` and `Document`, `Ink` and `Graphics`, and the proofs that
`RenderThread` implements `LatestRequest`, of what `OutputPipeline` leaves and makes,
of the invariants of `Vars`, `Preview` and `TeXCache`, that `Vars` implements
`Scopes`, of what the device believes in `Graphics`, that jumps lead where the nesting
says, that executing them executes the structured program, and of the invariants of
`EditSession`.

Next modules:

1. `SourceFile`: include files, the flattened table of lines and edits of it.
   Property: a line number of an error and an edit of an object name the line of the
   file it came from.
2. `Blocks`: the instances of `gle-block.cpp` inside of each other and in subroutines.
3. `Objects`: BEGIN OBJECT, DRAW and dynamic subroutines on top of `Vars`; commands
   drawn several times in `EditSession`.
4. The rest of the session: EPS files, export and `nextRender` joined to `Preview`.

Next theorems, in order: the refinement `IsDocument`, of which `KindsCommitted` is a
part; `DrawnAsWritten`.
