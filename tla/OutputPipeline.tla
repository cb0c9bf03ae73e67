--------------------------- MODULE OutputPipeline ---------------------------
(***************************************************************************)
(* load_one_file_sub and GLELoadOneFileManager (gle.cpp): how one script   *)
(* becomes the output files the command line asks for.  The script is      *)
(* drawn once into memory, as EPS or PDF; LaTeX, dvips, pdflatex and       *)
(* Ghostscript make the other formats of that, by way of files beside the  *)
(* outputs, which are removed at the end.  Plain PostScript and SVG are    *)
(* drawn separately afterwards.                                            *)
(*                                                                         *)
(* The directory outlives a run of GLE, and the objects of the             *)
(* TeXInterface outlive a script of the same command line.  All outputs    *)
(* have one name: the script is run again, or option -o names the output   *)
(* of several scripts.  A PNG stands for a JPEG too, and a script with an  *)
(* error has it in every drawing.  How the sizes of LaTeX texts are found  *)
(* is the subject of module TeXCache.                                      *)
(***************************************************************************)
EXTENDS Naturals, FiniteSets

CONSTANTS
  Options,    \* command lines, see Option
  UsesPoppler,\* the build converts PDF to bitmaps itself (HAVE_POPPLER)
  MaxRuns,    \* bound: scripts processed
  MaxFaults   \* bound: tools failing, files not written, GLE being killed

Devices == {"eps", "pdf", "ps", "png", "svg"}
Option == [devices : SUBSET Devices \ {{}},
           cairo : BOOLEAN, inc : BOOLEAN, pdftex : BOOLEAN,
           tex : BOOLEAN,      \* "-tex": write LaTeX'ed PostScript
           stdout : BOOLEAN, nosave : BOOLEAN, keep : BOOLEAN]
\* Does it have an error, found when it is parsed, which nothing is drawn of,
\* or met when it is run?  Does it draw LaTeX texts, up to there?
Script == {s \in [latex : BOOLEAN, error : {"none", "parse", "run"}] :
             s.error = "parse" => ~s.latex}

ASSUME OptionsAssumption == Options # {} /\ Options \subseteq Option
ASSUME PopplerAssumption == UsesPoppler \in BOOLEAN
ASSUME BoundsAssumption == MaxRuns \in Nat \ {0} /\ MaxFaults \in Nat

VARIABLES
  pc,       \* where load_one_file_sub is, or how it ended
  opts,     \* the command line
  script,   \* the script
  files,    \* the files of the output name, and of a temporary name
  printed,  \* what was written to standard output
  buffer,   \* m_PostScriptCode and m_PDFCode of the script
  has,      \* m_hasGenerated, m_hasFile, m_hasIncFile, m_HasTeXFile, has_tex
  objects,  \* TeXInterface::hasObjects
  troubled, \* in this run a tool has failed, or what it was to work on is missing
  spoiled,  \* a run was killed, or kept its files, or could not write one
  runs,     \* scripts so far
  faults    \* failures so far

counts == <<troubled, spoiled, runs, faults>>
vars == <<pc, opts, script, files, printed, buffer, has, objects, counts>>

Temporary == {"tex", "inceps", "incpdf", "dvi", "log"}
Exts == Devices \cup {"inc"} \cup Temporary
Stems == {"out", "temp"}
\* A figure without and with its LaTeX texts, and one cut short by an error; the
\* product of an empty buffer; a temporary file of GLE; made by an earlier run;
\* made by the user.
New == {"plain", "full", "part", "blank", "own"}
Ended == {"off", "done", "failed", "refused", "nosvg", "killed"}

Stem == IF opts.stdout THEN "temp" ELSE "out"
File(x) == files[Stem][x]
Wants(d) == d \in opts.devices
Put(x, c) == files' = [files EXCEPT ![Stem][x] = c]
\* delete_temp_file for all of X.
Without(X) == [files EXCEPT ![Stem] = [x \in Exts |-> IF x \in X /\ ~opts.keep THEN "none" ELSE @[x]]]
NoFiles == [x \in Exts |-> "none"]
Nothing == [d \in Devices |-> "none"]

\* What is made of a buffer.
Made(b) == IF buffer[b] = "none" THEN "blank" ELSE buffer[b]

-----------------------------------------------------------------------------
(* Which formats need which steps.                                         *)

has_eps_or_pdf_based_device == opts.tex \/ \E d \in {"eps", "pdf", "png"} : Wants(d)
has_cairo_pdf_based_device == opts.cairo /\ (Wants("pdf") \/ Wants("png"))
requires_tex ==
  \/ ~opts.inc /\ (Wants("eps") \/ Wants("pdf"))
  \/ Wants("ps")
  \/ Wants("png")
\* Mutant: -nopdftex does not matter for the PDF.
requires_tex_eps_no_gs ==
  \/ ~opts.inc /\ Wants("eps")
  \/ "pdf" \notin has.generated /\ Wants("png")
requires_tex_eps ==
  \/ ~opts.inc /\ (Wants("eps") \/ (Wants("pdf") /\ ~opts.pdftex))
  \/ "pdf" \notin has.generated /\ Wants("png")
requires_tex_pdf ==
  \/ ~opts.inc /\ Wants("pdf")
  \/ "pdf" \in has.generated /\ Wants("png")

-----------------------------------------------------------------------------
NoOptions == CHOOSE o \in Options : TRUE
NoScript == [latex |-> FALSE, error |-> "none"]
NoBuffer == [eps |-> "none", pdf |-> "none"]
HasNothing == [generated |-> {}, file |-> {}, inc |-> {}, tex |-> FALSE, latex |-> FALSE]

Init ==
  /\ pc = "off"
  /\ opts = NoOptions /\ script = NoScript
  /\ \E tex \in {"none", "user"} : files = [out |-> [NoFiles EXCEPT !.tex = tex], temp |-> NoFiles]
  /\ printed = Nothing
  /\ buffer = NoBuffer
  /\ has = HasNothing
  /\ objects = FALSE
  /\ troubled = {} /\ spoiled = FALSE /\ runs = 0 /\ faults = 0

\* What GLE made before is old now; a temporary name is a new one.
Aged == [out |-> [x \in Exts |-> IF files.out[x] \in New THEN "old" ELSE files.out[x]], temp |-> NoFiles]
Fresh ==
  /\ printed' = Nothing
  /\ buffer' = NoBuffer
  /\ has' = HasNothing
  /\ troubled' = {}
  /\ files' = Aged

\* load_one_file, with the next script of the command line or the first one
\* of a process.
LoadOneFile ==
  /\ runs < MaxRuns
  /\ \/ pc \in Ended \ {"off", "killed"} /\ UNCHANGED opts
     \/ pc = "off" /\ opts' \in Options
  /\ script' \in Script
  /\ Fresh
  /\ pc' = "start"
  /\ runs' = runs + 1
  /\ UNCHANGED <<objects, spoiled, faults>>

\* The process ends.
Exit ==
  /\ pc \in Ended \ {"off"}
  /\ pc' = "off"
  /\ opts' = NoOptions /\ script' = NoScript /\ objects' = FALSE
  /\ Fresh
  /\ UNCHANGED <<spoiled, runs, faults>>

\* Mutant: only the EPS of an earlier run is deleted.
PreviousOutputsEps == {"eps"}
PreviousOutputs == {"eps", "pdf"}
\* Output is deleted "so that QGLE does not display previous rendering if
\* there are errors".
delete_previous_output ==
  /\ pc = "start" /\ has_eps_or_pdf_based_device
  /\ pc' = "draw"
  /\ files' = IF opts.stdout THEN files ELSE [files EXCEPT !.out = [x \in Exts |-> IF x \in PreviousOutputs /\ Wants(x) THEN "none" ELSE @[x]]]
  /\ UNCHANGED <<opts, script, printed, buffer, has, objects, counts>>

OnlyPlain ==
  /\ pc = "start" /\ ~has_eps_or_pdf_based_device
  /\ pc' = "plainps"
  /\ UNCHANGED <<opts, script, files, printed, buffer, has, objects, counts>>

\* The passes of process_one_file_tex, and create_cairo_eps: TeXInterface
\* starts from nothing.  Any error ends the script: DrawIt has thrown it, or
\* has counted it and get_nb_errors tells.
Draw ==
  /\ pc = "draw"
  /\ objects' = script.latex
  /\ LET first == IF has_cairo_pdf_based_device THEN "pdf" ELSE "eps"
         all == {first} \cup IF Wants("eps") /\ opts.cairo THEN {"eps"} ELSE {} IN
     IF script.error # "none"
     THEN pc' = "failed" /\ UNCHANGED <<buffer, has>>
     ELSE /\ pc' = "tex"
          /\ has' = [has EXCEPT !.generated = all]
          /\ buffer' = [b \in DOMAIN buffer |-> IF b \in all THEN "plain" ELSE "none"]
  /\ UNCHANGED <<opts, script, files, printed, counts>>

WithInc == IF opts.inc THEN [files EXCEPT ![Stem].inc = "own"] ELSE files
\* Mutant: createTeX writes over a file that exists.
TeXExistsNot == FALSE
TeXExists == File("tex") # "none"
\* createInc, then createTeX, which does not write over a file.
CreateTeX ==
  /\ pc = "tex"
  /\ IF objects /\ requires_tex /\ TeXExists
     THEN pc' = "refused" /\ files' = WithInc /\ UNCHANGED has
     ELSE /\ files' = [WithInc EXCEPT ![Stem].tex = IF objects /\ requires_tex THEN "own" ELSE @]
          /\ has' = [has EXCEPT !.tex = objects /\ requires_tex, !.latex = opts.inc \/ objects]
          /\ pc' = IF opts.inc \/ objects THEN "inceps" ELSE "convert"
  /\ UNCHANGED <<opts, script, printed, buffer, objects, counts>>

-----------------------------------------------------------------------------
(* Programs that GLE runs.                                                 *)

\* A tool that can do its work does it, or fails.
Tool(able, fine) ==
  /\ fine => able
  /\ (able /\ ~fine) => faults < MaxFaults
  /\ faults' = IF able /\ ~fine THEN faults + 1 ELSE faults
  /\ troubled' = IF fine THEN troubled ELSE troubled \cup {IF able THEN "tool" ELSE "input"}
  /\ UNCHANGED <<spoiled, runs>>

\* LaTeX'ing the .tex file that is there: that of GLE includes the figure.
Typesets(fig) == File("tex") \in {"user", "old"} \/ (File("tex") = "own" /\ File(fig) # "none")
Typeset(fig) ==
  IF File("tex") # "own" THEN File("tex")
  ELSE IF File(fig) = "plain" THEN "full" ELSE "old"

\* Ghostscript makes a PDF of the EPS buffer.  It is printed or it replaces
\* the file s.x, which is deleted beforehand.
Ghostscript(x, fine, print) ==
  /\ Tool(TRUE, fine)
  /\ IF print
     THEN printed' = [printed EXCEPT !.pdf = IF fine THEN Made("eps") ELSE @] /\ UNCHANGED files
     ELSE Put(x, IF fine THEN Made("eps") ELSE "none") /\ UNCHANGED printed

ConvertEpsToPdf ==
  /\ pc = "convert"
  /\ pc' = "bitmap"
  /\ IF Wants("pdf") /\ "pdf" \notin has.generated
     THEN /\ has' = [has EXCEPT !.file = @ \cup {"pdf"}]
          /\ \E fine \in BOOLEAN : Ghostscript("pdf", fine, opts.stdout)
     ELSE UNCHANGED <<has, files, printed, counts>>
  /\ UNCHANGED <<opts, script, buffer, objects>>
-----------------------------------------------------------------------------
(* create_latex_eps_ps_pdf.                                                *)

WritesIncEps == ~(opts.devices = {"pdf"} /\ (opts.pdftex \/ opts.inc)) /\ "eps" \in has.generated
WriteIncEps ==
  /\ pc = "inceps"
  /\ pc' = "incpdf"
  /\ IF WritesIncEps
     THEN has' = [has EXCEPT !.inc = @ \cup {"eps"}] /\ Put("inceps", Made("eps"))
     ELSE UNCHANGED <<has, files>>
  /\ UNCHANGED <<opts, script, printed, buffer, objects, counts>>

MakesIncPdf == (Wants("pdf") \/ "pdf" \in has.generated) /\ (opts.pdftex \/ opts.inc)
WriteIncPdf ==
  /\ pc = "incpdf"
  /\ pc' = IF requires_tex_eps \/ requires_tex_pdf \/ Wants("ps") THEN "eps" ELSE "bitmap"
  /\ has' = IF MakesIncPdf THEN [has EXCEPT !.inc = @ \cup {"pdf"}] ELSE has
  /\ IF MakesIncPdf /\ "pdf" \notin has.generated
     THEN \E fine \in BOOLEAN : Ghostscript("incpdf", fine, FALSE)
     ELSE /\ IF MakesIncPdf THEN Put("incpdf", Made("pdf")) ELSE UNCHANGED files
          /\ UNCHANGED <<printed, counts>>
  /\ UNCHANGED <<opts, script, buffer, objects>>

\* LaTeX and dvips make d.  Whichever fails, its files stay; a file d of old
\* is gone when dvips is the one.
LatexDvips(d, fine) ==
  /\ Tool(Typesets("inceps"), fine)
  /\ IF fine
     THEN files' = [files EXCEPT ![Stem] = [@ EXCEPT ![d] = Typeset("inceps"), !.dvi = "none", !.log = "none"]]
     ELSE \/ files' = [files EXCEPT ![Stem] = [@ EXCEPT !.dvi = "none", !.log = "own"]]
          \/ Typesets("inceps") /\ files' = [files EXCEPT ![Stem] = [@ EXCEPT ![d] = "none", !.dvi = "own", !.log = "own"]]

CreateEps ==
  /\ pc = "eps"
  /\ IF requires_tex_eps
     THEN /\ pc' = "writeeps"
          /\ \E fine \in BOOLEAN :
               /\ LatexDvips("eps", fine)
               /\ buffer' = IF fine THEN [buffer EXCEPT !.eps = Typeset("inceps")] ELSE buffer
     ELSE pc' = "pdf" /\ UNCHANGED <<files, buffer, counts>>
  /\ UNCHANGED <<opts, script, printed, has, objects>>

WriteEps ==
  /\ pc = "writeeps"
  /\ pc' = "pdf"
  /\ Put("eps", Made("eps"))
  /\ has' = [has EXCEPT !.file = @ \cup {"eps"}]
  /\ UNCHANGED <<opts, script, printed, buffer, objects, counts>>

Pdflatex(fine) ==
  /\ Tool(Typesets("incpdf"), fine)
  /\ files' = [files EXCEPT ![Stem] = [@ EXCEPT !.pdf = IF fine THEN Typeset("incpdf") ELSE "none", !.log = "none"]]
  /\ buffer' = IF fine THEN [buffer EXCEPT !.pdf = Typeset("incpdf")] ELSE buffer
  /\ UNCHANGED printed

CreatePdf ==
  /\ pc = "pdf"
  /\ pc' = "ps"
  /\ IF requires_tex_pdf
     THEN /\ has' = [has EXCEPT !.file = @ \cup {"pdf"}]
          /\ \E fine \in BOOLEAN :
               IF opts.pdftex THEN Pdflatex(fine)
               ELSE Ghostscript("pdf", fine, opts.stdout) /\ UNCHANGED buffer
     ELSE UNCHANGED <<has, files, printed, buffer, counts>>
  /\ UNCHANGED <<opts, script, objects>>

\* cat_stdout_and_del, in the action after the one that makes the file.
Cat(d) == printed' = [printed EXCEPT ![d] = IF File(d) = "none" THEN @ ELSE File(d)]

CreatePs ==
  /\ pc = "ps"
  /\ IF Wants("ps")
     THEN pc' = "catps" /\ \E fine \in BOOLEAN : LatexDvips("ps", fine)
     ELSE pc' = "bitmap" /\ UNCHANGED <<files, counts>>
  /\ UNCHANGED <<opts, script, printed, buffer, has, objects>>

CatPs ==
  /\ pc = "catps"
  /\ pc' = "bitmap"
  /\ IF opts.stdout THEN Cat("ps") /\ files' = Without({"ps"}) ELSE UNCHANGED <<printed, files>>
  /\ UNCHANGED <<opts, script, buffer, has, objects, counts>>

-----------------------------------------------------------------------------
(* The rest of load_one_file_sub.                                          *)

FromPdf == buffer.pdf # "none"
Picture == IF FromPdf THEN buffer.pdf ELSE Made("eps")
\* A build that converts PDF itself does so into a file, in any case.
CreateBitmap ==
  /\ pc = "bitmap"
  /\ pc' = "recordeps"
  /\ IF ~Wants("png") THEN UNCHANGED <<files, printed, counts>>
     ELSE IF FromPdf /\ UsesPoppler THEN Put("png", Picture) /\ UNCHANGED <<printed, counts>>
     ELSE \E fine \in BOOLEAN :
            /\ Tool(TRUE, fine)
            /\ IF opts.stdout
               THEN printed' = [printed EXCEPT !.png = IF fine THEN Picture ELSE @] /\ UNCHANGED files
               ELSE Put("png", IF fine THEN Picture ELSE "none") /\ UNCHANGED printed
  /\ UNCHANGED <<opts, script, buffer, has, objects>>

Records(d) == Wants(d) /\ ~opts.inc /\ ~opts.nosave
write_recorded_data(d) ==
  IF ~Records(d) THEN UNCHANGED <<files, printed>>
  ELSE IF opts.stdout
  THEN /\ IF d \in has.file THEN Cat(d) ELSE printed' = [printed EXCEPT ![d] = Made(d)]
       /\ UNCHANGED files
  ELSE (IF d \in has.file THEN UNCHANGED files ELSE Put(d, Made(d))) /\ UNCHANGED printed

RecordEps == pc = "recordeps" /\ pc' = "recordpdf" /\ write_recorded_data("eps") /\ UNCHANGED <<opts, script, buffer, has, objects, counts>>
RecordPdf == pc = "recordpdf" /\ pc' = "delete" /\ write_recorded_data("pdf") /\ UNCHANGED <<opts, script, buffer, has, objects, counts>>

\* Mutant: a wanted file stays even if it goes elsewhere.
OriginalsNotWanted == {d \in has.file : ~Wants(d)}
\* A file that is wanted is not deleted, unless standard output or the .inc
\* file is where it was wanted.
Originals == {d \in has.file : Wants(d) => opts.stdout \/ opts.inc}
delete_original_eps_pdf ==
  /\ pc = "delete"
  /\ pc' = "clean"
  /\ files' = Without(Originals)
  /\ UNCHANGED <<opts, script, printed, buffer, has, objects, counts>>

CleanInc(d) == d \in has.inc /\ (opts.inc => ~Wants(d))
\* Mutant: the .tex file stays beside the .inc file.
TempFilesNotInc ==
  (IF CleanInc("eps") THEN {"inceps"} ELSE {}) \cup (IF CleanInc("pdf") THEN {"incpdf"} ELSE {})
  \cup IF has.tex /\ ~opts.inc THEN {"tex"} ELSE {}
TempFiles ==
  (IF CleanInc("eps") THEN {"inceps"} ELSE {}) \cup (IF CleanInc("pdf") THEN {"incpdf"} ELSE {})
  \cup IF has.tex THEN {"tex"} ELSE {}
clean_tex_temp_files ==
  /\ pc = "clean"
  /\ pc' = "plainps"
  /\ files' = Without(IF has.latex THEN TempFiles ELSE {})
  /\ spoiled' = (spoiled \/ (opts.keep /\ has.tex))
  /\ UNCHANGED <<opts, script, printed, buffer, has, objects, troubled, runs, faults>>

\* What DrawIt draws: it throws the errors of parsing; one met in the run is
\* caught, and the device closed.
DrawsAtAll == script.error # "parse"
Figure == IF script.error = "run" THEN "part" ELSE "plain"

\* Drawing anew adds to the objects of TeXInterface; LaTeX texts are missing.
\* Nobody asks for errors here.
PlainPs ==
  /\ pc = "plainps"
  /\ IF Wants("ps") /\ ~opts.tex
     THEN IF ~DrawsAtAll THEN pc' = "failed" /\ UNCHANGED <<objects, files, printed>>
          ELSE /\ pc' = "svg"
               /\ objects' = (objects \/ script.latex)
               /\ IF opts.stdout
                  THEN printed' = [printed EXCEPT !.ps = Figure] /\ Put("ps", IF opts.keep THEN Figure ELSE "none")
                  ELSE Put("ps", Figure) /\ UNCHANGED printed
     ELSE pc' = "svg" /\ UNCHANGED <<objects, files, printed>>
  /\ UNCHANGED <<opts, script, buffer, has, counts>>

Svg ==
  /\ pc = "svg"
  /\ IF ~Wants("svg") THEN pc' = "done" /\ UNCHANGED <<objects, files, printed>>
     ELSE IF ~DrawsAtAll THEN pc' = "failed" /\ UNCHANGED <<objects, files, printed>>
     ELSE /\ objects' = (objects \/ script.latex)
          /\ IF objects' THEN pc' = "nosvg" /\ Put("svg", Figure) /\ UNCHANGED printed
             ELSE /\ pc' = "done"
                  /\ IF opts.stdout
                     THEN printed' = [printed EXCEPT !.svg = Figure] /\ Put("svg", IF opts.keep THEN Figure ELSE "none")
                     ELSE Put("svg", Figure) /\ UNCHANGED printed
  /\ UNCHANGED <<opts, script, buffer, has, counts>>

-----------------------------------------------------------------------------
\* A file cannot be opened for writing: the error ends the script.
CannotWrite ==
  /\ \/ pc = "inceps" /\ WritesIncEps
     \/ pc = "incpdf" /\ MakesIncPdf /\ "pdf" \in has.generated
     \/ pc = "writeeps"
     \/ pc = "bitmap" /\ Wants("png") /\ FromPdf /\ UsesPoppler
     \/ pc = "recordeps" /\ Records("eps") /\ ~opts.stdout /\ "eps" \notin has.file
     \/ pc = "recordpdf" /\ Records("pdf") /\ ~opts.stdout /\ "pdf" \notin has.file
  /\ faults < MaxFaults
  /\ pc' = "failed"
  /\ faults' = faults + 1
  /\ spoiled' = TRUE
  /\ UNCHANGED <<opts, script, files, printed, buffer, has, objects, troubled, runs>>

Kill ==
  /\ pc \notin Ended /\ faults < MaxFaults
  /\ pc' = "killed"
  /\ faults' = faults + 1
  /\ spoiled' = TRUE
  /\ UNCHANGED <<opts, script, files, printed, buffer, has, objects, troubled, runs>>

Next ==
  \/ LoadOneFile \/ Exit \/ delete_previous_output \/ OnlyPlain \/ Draw \/ CreateTeX \/ ConvertEpsToPdf
  \/ WriteIncEps \/ WriteIncPdf \/ CreateEps \/ WriteEps \/ CreatePdf \/ CreatePs \/ CatPs
  \/ CreateBitmap \/ RecordEps \/ RecordPdf \/ delete_original_eps_pdf \/ clean_tex_temp_files
  \/ PlainPs \/ Svg \/ CannotWrite \/ Kill
Spec == Init /\ [][Next]_vars

-----------------------------------------------------------------------------
(* Properties.                                                             *)

\* What is asked for, where it was asked for: with its LaTeX texts where GLE
\* supports them.  A known gap is named for each case in which it is not.
Delivered(d) == IF opts.stdout THEN printed[d] ELSE files.out[d]
Expected(d) ==
  IF script.latex /\ (d \in {"eps", "pdf", "png"} \/ (d = "ps" /\ opts.tex)) THEN "full" ELSE "plain"
\* With -inc LaTeX is run for a PNG although no .tex file has been made: when
\* there is one, it is not of this script.
ForeignTeX == opts.inc /\ ~script.latex /\ File("tex") # "none"
\* Without pdflatex there is nothing that makes use of a PDF by Cairo, and
\* for PostScript LaTeX'ed there is no EPS.
CairoOnly == opts.cairo /\ script.latex /\ "pdf" \in has.generated /\ (~opts.pdftex \/ (opts.tex /\ "eps" \notin has.generated))
\* Poppler does not write to standard output.
PopplerFile(d) == opts.stdout /\ d = "png" /\ FromPdf /\ UsesPoppler
\* -tex is a promise: a script without LaTeX texts has its PostScript neither
\* from LaTeX nor from GLE.
NoTexts(d) == opts.tex /\ d = "ps" /\ ~script.latex
\* An error met when the script runs cuts PostScript and SVG short, and no other
\* format; the script is done all the same, with exit code 0.
CutShort(d) == script.error = "run" /\ d \in {"ps", "svg"} /\ Delivered(d) = "part"
\* A script that is done without a tool failing has made every output the
\* command line asks for, complete, whatever the combination of options and
\* whatever earlier runs have left.
RequestedDone ==
  pc = "done" /\ "tool" \notin troubled /\ ~opts.nosave =>
    \A d \in opts.devices :
      IF opts.inc /\ d \in {"eps", "pdf"}
      THEN files[Stem].inc = "own" /\ files[Stem][IF d = "eps" THEN "inceps" ELSE "incpdf"] = "plain"
      ELSE ForeignTeX \/ CairoOnly \/ PopplerFile(d) \/ NoTexts(d) \/ CutShort(d) \/ Delivered(d) = Expected(d)
\* However a run ends, an EPS or PDF that was asked for is not that of an
\* earlier run (delete_previous_output: QGLE must not show it).
NoPreviousOutput ==
  pc \in {"done", "failed", "refused", "nosvg"} /\ ~opts.stdout /\ ~ForeignTeX /\ ~CairoOnly /\ has_eps_or_pdf_based_device =>
    \A d \in {"eps", "pdf"} \cap opts.devices : files.out[d] # "old"
\* The files a run may leave: its outputs, and the logs of LaTeX without
\* success.
Allowed ==
  (IF opts.stdout THEN {} ELSE opts.devices \ IF opts.inc THEN {"eps", "pdf"} ELSE {})
  \cup (IF opts.inc THEN {"inc"} ELSE {})
  \cup (IF opts.inc /\ Wants("eps") THEN {"inceps"} ELSE {})
  \cup (IF opts.inc /\ Wants("pdf") THEN {"incpdf"} ELSE {})
  \cup (IF troubled # {} THEN {"dvi", "log"} ELSE {})
\* A run that comes to its end leaves no temporary file, and no output that
\* was only a step to another one.
NoLeftovers ==
  pc = "done" /\ ~opts.keep => \A x \in Exts \ Allowed : File(x) \notin New \/ PopplerFile(x)
\* A run refuses to write its .tex file only when the user has one of that
\* name, or when an earlier run could not remove or was told to keep it.
RefusedForCause ==
  pc = "refused" => files.out.tex = "user" \/ spoiled
\* A .tex file of the user's is neither written over nor deleted.
UserTeXUntouched == [][files.out.tex = "user" => files'.out.tex = "user"]_files
=============================================================================
