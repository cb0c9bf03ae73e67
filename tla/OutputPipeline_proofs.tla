----------------------- MODULE OutputPipeline_proofs -----------------------
(***************************************************************************)
(* Proofs about the output pipeline, for every set of command lines, any    *)
(* number of scripts, runs and faults: that the .tex file of the user is    *)
(* neither written over nor deleted, which files a run leaves and of which  *)
(* run they are, and that a script that is done has made what the command   *)
(* line asks for.                                                           *)
(***************************************************************************)
EXTENDS OutputPipeline, TLAPS

(* The .tex file: that of the user is neither written over nor deleted, and *)
(* none is in the way of a run but the user's, as long as no run was        *)
(* interrupted or told to keep its own.                                     *)

\* Between createTeX and clean_tex_temp_files.
Tail == {"convert", "inceps", "incpdf", "eps", "writeeps", "pdf", "ps", "catps", "bitmap", "recordeps", "recordpdf",
         "delete", "clean"}
Shape == DOMAIN files = Stems /\ \A s \in Stems : DOMAIN files[s] = Exts
HasShape ==
  /\ has = [generated |-> has.generated, file |-> has.file, inc |-> has.inc, tex |-> has.tex, latex |-> has.latex]
  /\ has.tex \in BOOLEAN /\ has.latex \in BOOLEAN /\ "tex" \notin has.file
Typed == Shape /\ HasShape /\ opts \in Options /\ spoiled \in BOOLEAN

\* A .tex file beside the outputs is one of this run that is not done with it.
Owner ==
  /\ pc \in Tail /\ has.tex => has.latex
  /\ pc \in Tail /\ has.tex /\ ~opts.stdout => files.out.tex = "own"
  /\ ~spoiled /\ ~(pc \in Tail /\ has.tex /\ ~opts.stdout) => files.out.tex \in {"none", "user"}
  /\ pc \in {"start", "draw", "tex"} => files.temp.tex = "none"
IInv == Typed /\ Owner /\ RefusedForCause

LEMMA StemType == ASSUME opts \in Options PROVE Stem \in Stems /\ opts.stdout \in BOOLEAN /\ (Stem = "out" <=> ~opts.stdout)
BY OptionsAssumption DEF Stem, Stems, Option

LEMMA InitIInv == ASSUME Init PROVE IInv
<1>1. opts \in Options
  BY OptionsAssumption DEF Init, NoOptions
<1>2. PICK t \in {"none", "user"} : files = [out |-> [NoFiles EXCEPT !.tex = t], temp |-> NoFiles]
  BY DEF Init
<1>3. Shape /\ files.out.tex = t
  BY <1>2 DEF Shape, Stems, Exts, Temporary, NoFiles
<1>4. HasShape /\ spoiled \in BOOLEAN /\ pc = "off"
  BY DEF Init, HasShape, HasNothing
<1> QED
  BY <1>1, <1>3, <1>4 DEF IInv, Typed, Owner, Tail, RefusedForCause

\* A step that has nothing to do with the .tex file.
LEMMA Quiet ==
  ASSUME IInv, Shape', HasShape', files'.out.tex = files.out.tex,
         opts' = opts, spoiled' = spoiled, has'.tex = has.tex, has'.latex = has.latex,
         pc' \in Tail <=> pc \in Tail, pc' \notin {"start", "draw", "tex", "refused"}
  PROVE IInv'
<1>1. Typed'
  BY DEF IInv, Typed
<1>2. Owner'
  BY DEF IInv, Owner
<1>3. RefusedForCause'
  BY DEF RefusedForCause
<1> QED
  BY <1>1, <1>2, <1>3 DEF IInv

\* Steps that write or delete other files of the output name.
KeepsTeX == Shape' /\ files'.out.tex = files.out.tex

LEMMA SameFiles == ASSUME IInv, UNCHANGED files PROVE KeepsTeX
BY DEF IInv, Typed, KeepsTeX, Shape

LEMMA NewStem ==
  ASSUME IInv, NEW f, files' = [files EXCEPT ![Stem] = f], DOMAIN f = Exts, f["tex"] = files[Stem]["tex"]
  PROVE KeepsTeX
<1>1. Stem \in Stems /\ Shape
  BY StemType DEF IInv, Typed
<1>2. DOMAIN files' = Stems /\ \A s \in Stems : DOMAIN files'[s] = Exts
  BY <1>1 DEF Shape
<1>3. files'["out"]["tex"] = files["out"]["tex"]
  BY <1>1 DEF Shape, Stems
<1> QED
  BY <1>2, <1>3 DEF Shape, KeepsTeX

LEMMA StemFiles == ASSUME IInv PROVE DOMAIN files[Stem] = Exts /\ {"tex", "dvi", "log"} \cup Devices \subseteq Exts
BY StemType DEF IInv, Typed, Shape, Exts, Temporary

LEMMA PutKeeps == ASSUME IInv, NEW x, x # "tex", NEW c, Put(x, c) PROVE KeepsTeX
<1> DEFINE f == [files[Stem] EXCEPT ![x] = c]
<1>1. files' = [files EXCEPT ![Stem] = f]
  BY DEF Put
<1>2. DOMAIN f = Exts /\ f["tex"] = files[Stem]["tex"]
  BY StemFiles
<1> QED
  BY <1>1, <1>2, NewStem

LEMMA WithoutKeeps == ASSUME IInv, NEW X, "tex" \notin X, files' = Without(X) PROVE KeepsTeX
<1> DEFINE f == [x \in Exts |-> IF x \in X /\ ~opts.keep THEN "none" ELSE files[Stem][x]]
<1>1. files' = [files EXCEPT ![Stem] = f]
  BY DEF Without
<1>2. DOMAIN f = Exts /\ f["tex"] = files[Stem]["tex"]
  BY StemFiles
<1> QED
  BY <1>1, <1>2, NewStem

LEMMA GhostscriptKeeps ==
  ASSUME IInv, NEW x, x # "tex", NEW fine, NEW print, Ghostscript(x, fine, print)
  PROVE KeepsTeX /\ spoiled' = spoiled
<1>1. CASE print
  BY <1>1, SameFiles DEF Ghostscript, Tool
<1>2. CASE ~print
  BY <1>2, PutKeeps DEF Ghostscript, Tool
<1> QED
  BY <1>1, <1>2

LEMMA LatexDvipsKeeps ==
  ASSUME IInv, NEW d \in {"eps", "ps"}, NEW fine \in BOOLEAN, LatexDvips(d, fine)
  PROVE KeepsTeX /\ spoiled' = spoiled
<1> DEFINE old == files[Stem]
           f == [old EXCEPT ![d] = Typeset("inceps"), !.dvi = "none", !.log = "none"]
           g == [old EXCEPT !.dvi = "none", !.log = "own"]
           h == [old EXCEPT ![d] = "none", !.dvi = "own", !.log = "own"]
<1>1. \/ files' = [files EXCEPT ![Stem] = f]
      \/ files' = [files EXCEPT ![Stem] = g]
      \/ files' = [files EXCEPT ![Stem] = h]
  BY DEF LatexDvips
<1>2. \A k \in {f, g, h} : DOMAIN k = Exts /\ k["tex"] = old["tex"]
  BY StemFiles
<1>3. KeepsTeX
  <2> HIDE DEF f, g, h
  <2>1. PICK k \in {f, g, h} : files' = [files EXCEPT ![Stem] = k]
    BY <1>1
  <2> QED
    BY <1>2, <2>1, NewStem
<1> QED
  BY <1>3 DEF LatexDvips, Tool

LEMMA PdflatexKeeps ==
  ASSUME IInv, NEW fine \in BOOLEAN, Pdflatex(fine)
  PROVE KeepsTeX /\ spoiled' = spoiled
<1> DEFINE f == [files[Stem] EXCEPT !.pdf = IF fine THEN Typeset("incpdf") ELSE "none", !.log = "none"]
<1>1. files' = [files EXCEPT ![Stem] = f]
  BY DEF Pdflatex
<1>2. DOMAIN f = Exts /\ f["tex"] = files[Stem]["tex"]
  BY StemFiles
<1> QED
  BY <1>1, <1>2, NewStem DEF Pdflatex, Tool

\* Flags other than those of the .tex file.
LEMMA HasOther ==
  ASSUME HasShape, \/ has' = has
                   \/ \E d \in {"eps", "pdf"} : has' = [has EXCEPT !.file = has.file \cup {d}]
                   \/ \E v : has' = [has EXCEPT !.inc = v]
                   \/ \E v : has' = [has EXCEPT !.generated = v]
  PROVE HasShape' /\ has'.tex = has.tex /\ has'.latex = has.latex
<1>1. CASE has' = has
  BY <1>1 DEF HasShape
<1>2. CASE \E d \in {"eps", "pdf"} : has' = [has EXCEPT !.file = has.file \cup {d}]
  BY <1>2 DEF HasShape
<1>3. CASE \E v : has' = [has EXCEPT !.inc = v]
  BY <1>3 DEF HasShape
<1>4. CASE \E v : has' = [has EXCEPT !.generated = v]
  BY <1>4 DEF HasShape
<1> QED
  BY <1>1, <1>2, <1>3, <1>4

\* A step within the part of a run where a .tex file may be there, or outside
\* of it, that keeps to other files.
Otherwise ==
  /\ opts' = opts /\ spoiled' = spoiled
  /\ HasShape' /\ has'.tex = has.tex /\ has'.latex = has.latex
  /\ pc' \in Tail <=> pc \in Tail
  /\ pc' \notin {"start", "draw", "tex", "refused"}

LEMMA OtherwiseIInv == ASSUME IInv, KeepsTeX, Otherwise PROVE IInv'
BY Quiet DEF KeepsTeX, Otherwise

LEMMA SameHas == ASSUME IInv, UNCHANGED has PROVE HasShape' /\ has'.tex = has.tex /\ has'.latex = has.latex
BY DEF IInv, Typed, HasShape

LEMMA StepConvert == ASSUME IInv, ConvertEpsToPdf PROVE IInv' /\ KeepsTeX
<1>1. KeepsTeX /\ spoiled' = spoiled
  <2>1. CASE Wants("pdf") /\ "pdf" \notin has.generated
    BY <2>1, GhostscriptKeeps DEF ConvertEpsToPdf
  <2>2. CASE ~(Wants("pdf") /\ "pdf" \notin has.generated)
    BY <2>2, SameFiles DEF ConvertEpsToPdf, counts
  <2> QED
    BY <2>1, <2>2
<1>2. HasShape' /\ has'.tex = has.tex /\ has'.latex = has.latex
  BY HasOther DEF ConvertEpsToPdf, IInv, Typed
<1> QED
  BY <1>1, <1>2, OtherwiseIInv DEF Otherwise, ConvertEpsToPdf, Tail

LEMMA StepIncEps == ASSUME IInv, WriteIncEps PROVE IInv' /\ KeepsTeX
<1>1. KeepsTeX
  BY PutKeeps, SameFiles DEF WriteIncEps
<1>2. HasShape' /\ has'.tex = has.tex /\ has'.latex = has.latex
  BY HasOther DEF WriteIncEps, IInv, Typed
<1> QED
  BY <1>1, <1>2, OtherwiseIInv DEF Otherwise, WriteIncEps, Tail, counts

LEMMA StepIncPdf == ASSUME IInv, WriteIncPdf PROVE IInv' /\ KeepsTeX
<1>1. KeepsTeX /\ spoiled' = spoiled
  <2>1. CASE MakesIncPdf /\ "pdf" \notin has.generated
    BY <2>1, GhostscriptKeeps DEF WriteIncPdf
  <2>2. CASE ~(MakesIncPdf /\ "pdf" \notin has.generated)
    BY <2>2, PutKeeps, SameFiles DEF WriteIncPdf, counts
  <2> QED
    BY <2>1, <2>2
<1>2. HasShape' /\ has'.tex = has.tex /\ has'.latex = has.latex
  BY HasOther DEF WriteIncPdf, IInv, Typed
<1> QED
  BY <1>1, <1>2, OtherwiseIInv DEF Otherwise, WriteIncPdf, Tail

LEMMA StepEps == ASSUME IInv, CreateEps PROVE IInv' /\ KeepsTeX
<1>1. KeepsTeX /\ spoiled' = spoiled
  <2>1. CASE requires_tex_eps
    BY <2>1, LatexDvipsKeeps DEF CreateEps
  <2>2. CASE ~requires_tex_eps
    BY <2>2, SameFiles DEF CreateEps, counts
  <2> QED
    BY <2>1, <2>2
<1>2. pc = "eps" /\ pc' \in {"writeeps", "pdf"} /\ UNCHANGED <<opts, has>>
  BY DEF CreateEps
<1> QED
  BY <1>1, <1>2, SameHas, OtherwiseIInv DEF Otherwise, Tail

LEMMA StepWriteEps == ASSUME IInv, WriteEps PROVE IInv' /\ KeepsTeX
<1>1. KeepsTeX
  BY PutKeeps DEF WriteEps
<1>2. HasShape' /\ has'.tex = has.tex /\ has'.latex = has.latex
  BY HasOther DEF WriteEps, IInv, Typed
<1> QED
  BY <1>1, <1>2, OtherwiseIInv DEF Otherwise, WriteEps, Tail, counts

LEMMA StepPdf == ASSUME IInv, CreatePdf PROVE IInv' /\ KeepsTeX
<1>1. KeepsTeX /\ spoiled' = spoiled
  <2>1. CASE requires_tex_pdf
    BY <2>1, PdflatexKeeps, GhostscriptKeeps DEF CreatePdf
  <2>2. CASE ~requires_tex_pdf
    BY <2>2, SameFiles DEF CreatePdf, counts
  <2> QED
    BY <2>1, <2>2
<1>2. HasShape' /\ has'.tex = has.tex /\ has'.latex = has.latex
  BY HasOther DEF CreatePdf, IInv, Typed
<1> QED
  BY <1>1, <1>2, OtherwiseIInv DEF Otherwise, CreatePdf, Tail

LEMMA StepPs == ASSUME IInv, CreatePs PROVE IInv' /\ KeepsTeX
<1>1. KeepsTeX /\ spoiled' = spoiled
  <2>1. CASE Wants("ps")
    BY <2>1, LatexDvipsKeeps DEF CreatePs
  <2>2. CASE ~Wants("ps")
    BY <2>2, SameFiles DEF CreatePs, counts
  <2> QED
    BY <2>1, <2>2
<1>2. pc = "ps" /\ pc' \in {"catps", "bitmap"} /\ UNCHANGED <<opts, has>>
  BY DEF CreatePs
<1> QED
  BY <1>1, <1>2, SameHas, OtherwiseIInv DEF Otherwise, Tail

LEMMA StepCatPs == ASSUME IInv, CatPs PROVE IInv' /\ KeepsTeX
<1>1. KeepsTeX
  BY WithoutKeeps, SameFiles DEF CatPs
<1> QED
  BY <1>1, SameHas, OtherwiseIInv DEF Otherwise, CatPs, Tail, counts

LEMMA StepBitmap == ASSUME IInv, CreateBitmap PROVE IInv' /\ KeepsTeX
<1>1. KeepsTeX /\ spoiled' = spoiled
  <2>1. UNCHANGED files \/ \E c : Put("png", c)
    BY DEF CreateBitmap
  <2> QED
    BY <2>1, PutKeeps, SameFiles DEF CreateBitmap, Tool, counts
<1> QED
  BY <1>1, SameHas, OtherwiseIInv DEF Otherwise, CreateBitmap, Tail

LEMMA RecordKeeps == ASSUME IInv, NEW d \in {"eps", "pdf"}, write_recorded_data(d) PROVE KeepsTeX
<1>1. UNCHANGED files \/ Put(d, Made(d))
  BY DEF write_recorded_data
<1> QED
  BY <1>1, PutKeeps, SameFiles

LEMMA StepRecord == ASSUME IInv, RecordEps \/ RecordPdf PROVE IInv' /\ KeepsTeX
<1>1. KeepsTeX
  BY RecordKeeps DEF RecordEps, RecordPdf
<1> QED
  BY <1>1, SameHas, OtherwiseIInv DEF Otherwise, RecordEps, RecordPdf, Tail, counts

LEMMA StepDelete == ASSUME IInv, delete_original_eps_pdf PROVE IInv' /\ KeepsTeX
<1>1. "tex" \notin Originals
  BY DEF Originals, IInv, Typed, HasShape
<1>2. KeepsTeX
  BY <1>1, WithoutKeeps DEF delete_original_eps_pdf
<1> QED
  BY <1>2, SameHas, OtherwiseIInv DEF Otherwise, delete_original_eps_pdf, Tail, counts

LEMMA StepPlainPs == ASSUME IInv, PlainPs PROVE IInv' /\ KeepsTeX
<1>1. UNCHANGED files \/ \E c : Put("ps", c)
  BY DEF PlainPs
<1>2. KeepsTeX
  BY <1>1, PutKeeps, SameFiles
<1>3. pc = "plainps" /\ pc' \in {"svg", "failed"} /\ UNCHANGED <<opts, has, spoiled>>
  BY DEF PlainPs, counts
<1> QED
  BY <1>2, <1>3, SameHas, OtherwiseIInv DEF Otherwise, Tail

LEMMA StepSvg == ASSUME IInv, Svg PROVE IInv' /\ KeepsTeX
<1>1. UNCHANGED files \/ \E c : Put("svg", c)
  BY DEF Svg
<1>2. KeepsTeX
  BY <1>1, PutKeeps, SameFiles
<1>3. pc = "svg" /\ pc' \in {"done", "failed", "nosvg"} /\ UNCHANGED <<opts, has, spoiled>>
  BY DEF Svg, counts
<1> QED
  BY <1>2, <1>3, SameHas, OtherwiseIInv DEF Otherwise, Tail

LEMMA StepOnlyPlain == ASSUME IInv, OnlyPlain PROVE IInv' /\ KeepsTeX
<1>1. KeepsTeX
  BY SameFiles DEF OnlyPlain
<1> QED
  BY <1>1, SameHas, OtherwiseIInv DEF Otherwise, OnlyPlain, Tail, counts

\* The first steps of a run.
LEMMA StepDeletePrevious == ASSUME IInv, delete_previous_output PROVE IInv' /\ KeepsTeX
<1> DEFINE f == [x \in Exts |-> IF x \in PreviousOutputs /\ Wants(x) THEN "none" ELSE files.out[x]]
<1>1. UNCHANGED files \/ files' = [files EXCEPT !.out = f]
  BY DEF delete_previous_output
<1>2. DOMAIN f = Exts /\ f["tex"] = files.out["tex"]
  BY DEF PreviousOutputs, Exts, Temporary
<1>3. Shape
  BY DEF IInv, Typed
<1>4. Shape' /\ files'.out.tex = files.out.tex /\ files'.temp.tex = files.temp.tex
  <2> HIDE DEF f
  <2>1. CASE UNCHANGED files
    BY <2>1, <1>3 DEF Shape
  <2>2. CASE files' = [files EXCEPT !.out = f]
    BY <2>2, <1>2, <1>3 DEF Shape, Stems
  <2> QED
    BY <1>1, <2>1, <2>2
<1>5. pc = "start" /\ pc' = "draw" /\ UNCHANGED <<opts, has, spoiled>>
  BY DEF delete_previous_output, counts
<1>6. Typed'
  BY <1>4, <1>5, SameHas DEF IInv, Typed
<1>7. Owner' /\ RefusedForCause'
  BY <1>4, <1>5 DEF IInv, Owner, Tail, RefusedForCause
<1> QED
  BY <1>4, <1>6, <1>7 DEF IInv, KeepsTeX

LEMMA StepDraw == ASSUME IInv, Draw PROVE IInv' /\ KeepsTeX
<1>1. pc = "draw" /\ pc' \in {"tex", "failed"} /\ UNCHANGED <<opts, spoiled, files>>
  BY DEF Draw, counts
<1>2. has' = has \/ \E v : has' = [has EXCEPT !.generated = v]
  BY DEF Draw
<1>3. HasShape' /\ has'.tex = has.tex /\ has'.latex = has.latex
  BY <1>2, HasOther DEF IInv, Typed
<1>4. KeepsTeX
  BY <1>1, SameFiles
<1>5. Typed'
  BY <1>1, <1>3, <1>4 DEF IInv, Typed, KeepsTeX
<1>6. Owner' /\ RefusedForCause'
  BY <1>1, <1>3 DEF IInv, Owner, Tail, RefusedForCause
<1> QED
  BY <1>4, <1>5, <1>6 DEF IInv

LEMMA StepTeX == ASSUME IInv, CreateTeX PROVE IInv' /\ (files.out.tex = "user" => files'.out.tex = "user")
<1>1. /\ Stem \in Stems /\ opts.stdout \in BOOLEAN /\ (Stem = "out" <=> ~opts.stdout)
      /\ Shape /\ HasShape /\ opts \in Options /\ spoiled \in BOOLEAN
  BY StemType DEF IInv, Typed
<1>2. pc = "tex" /\ UNCHANGED <<opts, spoiled>>
  BY DEF CreateTeX, counts
<1>3. DOMAIN WithInc = Stems /\ \A s \in Stems : DOMAIN WithInc[s] = Exts /\ WithInc[s]["tex"] = files[s]["tex"]
  BY <1>1 DEF WithInc, Shape
<1>4. {"out", "temp"} = Stems /\ "tex" \in Exts
  BY DEF Stems, Exts, Temporary
<1>5. ~spoiled => files.out.tex \in {"none", "user"}
  BY <1>2 DEF IInv, Owner, Tail
<1>6. files.temp.tex = "none"
  BY <1>2 DEF IInv, Owner
<1>7. CASE objects /\ requires_tex /\ TeXExists
  <2>1. pc' = "refused" /\ files' = WithInc /\ UNCHANGED has
    BY <1>7 DEF CreateTeX
  <2>2. files'.out.tex = files.out.tex
    BY <2>1, <1>3, <1>4
  <2>3. files[Stem]["tex"] # "none"
    BY <1>7 DEF TeXExists, File
  <2>4. ~opts.stdout
    BY <2>3, <1>1, <1>4, <1>6
  <2>5. files.out.tex # "none"
    BY <2>3, <2>4, <1>1
  <2>6. Typed'
    BY <2>1, <1>1, <1>2, <1>3 DEF Typed, Shape, HasShape
  <2>7. Owner' /\ RefusedForCause'
    BY <2>1, <2>2, <2>5, <1>2, <1>5 DEF Owner, RefusedForCause, Tail
  <2> QED
    BY <2>2, <2>6, <2>7 DEF IInv
<1>8. CASE ~(objects /\ requires_tex /\ TeXExists)
  <2> DEFINE made == objects /\ requires_tex
             f == [WithInc[Stem] EXCEPT !.tex = IF made THEN "own" ELSE WithInc[Stem].tex]
  <2>1. /\ files' = [WithInc EXCEPT ![Stem] = f]
        /\ has' = [has EXCEPT !.tex = made, !.latex = opts.inc \/ objects]
        /\ pc' = IF opts.inc \/ objects THEN "inceps" ELSE "convert"
    BY <1>8 DEF CreateTeX
  <2>2. DOMAIN f = Exts /\ f["tex"] = IF made THEN "own" ELSE files[Stem]["tex"]
    BY <1>1, <1>3, <1>4
  <2>3. Shape'
    <3> HIDE DEF f
    <3> QED BY <2>1, <2>2, <1>1, <1>3 DEF Shape
  <2>4. files'["out"]["tex"] = IF made /\ ~opts.stdout THEN "own" ELSE files["out"]["tex"]
    <3> HIDE DEF f, made
    <3> QED BY <2>1, <2>2, <1>1, <1>3, <1>4
  <2>5. HasShape' /\ has'.tex = made /\ has'.latex = (opts.inc \/ objects)
    <3>1. made \in BOOLEAN /\ (opts.inc \/ objects) \in BOOLEAN
      OBVIOUS
    <3> HIDE DEF made
    <3> QED BY <3>1, <2>1, <1>1 DEF HasShape
  <2>6. made /\ ~opts.stdout => files.out.tex = "none"
    <3>1. made => files[Stem]["tex"] = "none"
      BY <1>8 DEF TeXExists, File
    <3> QED BY <3>1, <1>1
  <2>7. Typed'
    BY <2>3, <2>5, <1>1, <1>2 DEF Typed
  <2>8. pc' \in {"inceps", "convert"}
    BY <2>1
  <2>9. Owner'
    <3>1. has'.tex => has'.latex
      BY <2>5
    <3> HIDE DEF made
    <3> QED BY <3>1, <2>4, <2>5, <2>8, <1>2, <1>5 DEF Owner, Tail
  <2>10. RefusedForCause'
    BY <2>8 DEF RefusedForCause
  <2> QED
    BY <2>4, <2>6, <2>7, <2>9, <2>10 DEF IInv
<1> QED
  BY <1>7, <1>8

LEMMA StepClean == ASSUME IInv, clean_tex_temp_files PROVE IInv' /\ (files.out.tex = "user" => files'.out.tex = "user")
<1> DEFINE T == IF has.latex THEN TempFiles ELSE {}
           f == [x \in Exts |-> IF x \in T /\ ~opts.keep THEN "none" ELSE files[Stem][x]]
<1>1. /\ Stem \in Stems /\ opts.stdout \in BOOLEAN /\ (Stem = "out" <=> ~opts.stdout)
      /\ Shape /\ HasShape /\ opts \in Options /\ spoiled \in BOOLEAN
  BY StemType DEF IInv, Typed
<1>2. /\ pc = "clean" /\ pc' = "plainps" /\ UNCHANGED <<opts, has>>
      /\ files' = [files EXCEPT ![Stem] = f]
      /\ spoiled' = (spoiled \/ (opts.keep /\ has.tex))
  BY DEF clean_tex_temp_files, Without
<1>3. "tex" \in T <=> has.tex
  BY <1>1, <1>2 DEF TempFiles, IInv, Owner, Tail, HasShape
<1>4. DOMAIN f = Exts /\ f["tex"] = IF has.tex /\ ~opts.keep THEN "none" ELSE files[Stem]["tex"]
  BY <1>3 DEF Exts, Temporary
<1>5. Shape' /\ files'["out"]["tex"] = IF has.tex /\ ~opts.keep /\ ~opts.stdout THEN "none" ELSE files["out"]["tex"]
  <2> HIDE DEF f
  <2> QED BY <1>1, <1>2, <1>4 DEF Shape, Stems
<1>6. Typed'
  <2>1. spoiled' \in BOOLEAN
    BY <1>1, <1>2
  <2> QED BY <2>1, <1>1, <1>2, <1>5, SameHas DEF Typed
<1>7. Owner' /\ RefusedForCause'
  <2>1. ~spoiled' => ~spoiled /\ ~(opts.keep /\ has.tex)
    BY <1>1, <1>2
  <2> QED BY <2>1, <1>2, <1>5 DEF IInv, Owner, Tail, RefusedForCause
<1>8. has.tex /\ ~opts.stdout => files.out.tex = "own"
  BY <1>2 DEF IInv, Owner, Tail
<1> QED
  BY <1>5, <1>6, <1>7, <1>8 DEF IInv

LEMMA AgedTeX ==
  ASSUME IInv, files' = Aged
  PROVE /\ Shape' /\ files'.temp.tex = "none"
        /\ files'.out.tex = IF files.out.tex \in New THEN "old" ELSE files.out.tex
BY DEF Aged, NoFiles, Shape, Stems, Exts, Temporary

LEMMA StepLoad == ASSUME IInv, LoadOneFile PROVE IInv' /\ (files.out.tex = "user" => files'.out.tex = "user")
<1>1. /\ pc \in Ended /\ pc' = "start" /\ opts' \in Options /\ UNCHANGED spoiled
      /\ files' = Aged /\ has' = HasNothing
  BY DEF LoadOneFile, Fresh, IInv, Typed, Ended
<1>2. Typed'
  BY <1>1, AgedTeX DEF IInv, Typed, HasShape, HasNothing
<1>3. ~spoiled => files.out.tex \in {"none", "user"}
  BY <1>1 DEF IInv, Owner, Tail, Ended
<1>4. Owner' /\ RefusedForCause' /\ (files.out.tex = "user" => files'.out.tex = "user")
  BY <1>1, <1>3, AgedTeX DEF Owner, Tail, RefusedForCause, New
<1> QED
  BY <1>2, <1>4 DEF IInv

LEMMA StepExit == ASSUME IInv, Exit PROVE IInv' /\ (files.out.tex = "user" => files'.out.tex = "user")
<1>1. /\ pc \in Ended /\ pc' = "off" /\ opts' = NoOptions /\ UNCHANGED spoiled
      /\ files' = Aged /\ has' = HasNothing
  BY DEF Exit, Fresh
<1>2. opts' \in Options
  BY <1>1, OptionsAssumption DEF NoOptions
<1>3. Typed'
  BY <1>1, <1>2, AgedTeX DEF IInv, Typed, HasShape, HasNothing
<1>4. ~spoiled => files.out.tex \in {"none", "user"}
  BY <1>1 DEF IInv, Owner, Tail, Ended
<1>5. Owner' /\ RefusedForCause' /\ (files.out.tex = "user" => files'.out.tex = "user")
  BY <1>1, <1>4, AgedTeX DEF Owner, Tail, RefusedForCause, New
<1> QED
  BY <1>3, <1>5 DEF IInv

LEMMA StepStopped == ASSUME IInv, CannotWrite \/ Kill PROVE IInv' /\ KeepsTeX
<1>1. pc' \in {"failed", "killed"} /\ spoiled' = TRUE /\ UNCHANGED <<opts, has, files>>
  BY DEF CannotWrite, Kill
<1>2. KeepsTeX
  BY <1>1, SameFiles
<1>3. Typed'
  BY <1>1, <1>2, SameHas DEF IInv, Typed, KeepsTeX
<1>4. Owner' /\ RefusedForCause'
  BY <1>1 DEF Owner, Tail, RefusedForCause
<1> QED
  BY <1>2, <1>3, <1>4 DEF IInv

LEMMA StepIInv ==
  ASSUME IInv, [Next]_vars
  PROVE IInv' /\ (files.out.tex = "user" => files'.out.tex = "user")
<1>1. CASE UNCHANGED vars
  <2>1. UNCHANGED <<pc, opts, files, has, spoiled>>
    BY <1>1 DEF vars, counts
  <2> QED
    BY <2>1 DEF IInv, Typed, Owner, RefusedForCause, Shape, HasShape
<1>2. CASE LoadOneFile \/ Exit
  BY <1>2, StepLoad, StepExit
<1>3. CASE CreateTeX \/ clean_tex_temp_files
  BY <1>3, StepTeX, StepClean
<1>4. CASE delete_previous_output \/ OnlyPlain \/ Draw \/ PlainPs \/ Svg \/ CannotWrite \/ Kill
  BY <1>4, StepDeletePrevious, StepOnlyPlain, StepDraw, StepPlainPs, StepSvg, StepStopped DEF KeepsTeX
<1>5. CASE ConvertEpsToPdf \/ WriteIncEps \/ WriteIncPdf \/ CreateEps \/ WriteEps \/ CreatePdf \/ CreatePs
           \/ CatPs \/ CreateBitmap \/ RecordEps \/ RecordPdf \/ delete_original_eps_pdf
  BY <1>5, StepConvert, StepIncEps, StepIncPdf, StepEps, StepWriteEps, StepPdf, StepPs, StepCatPs, StepBitmap,
     StepRecord, StepDelete DEF KeepsTeX
<1> QED
  BY <1>1, <1>2, <1>3, <1>4, <1>5 DEF Next

LEMMA AlwaysIInv == Spec => []IInv
<1>1. Init => IInv
  BY InitIInv
<1>2. IInv /\ [Next]_vars => IInv'
  BY StepIInv
<1> QED
  BY <1>1, <1>2, PTL DEF Spec

-----------------------------------------------------------------------------
\* createTeX refuses to write over a .tex file, and nothing else writes or
\* deletes one but the end of a run that has written it.
THEOREM UserTeXKept == Spec => UserTeXUntouched
<1>1. IInv /\ [Next]_vars => [files.out.tex = "user" => files'.out.tex = "user"]_files
  BY StepIInv
<1> QED
  BY <1>1, AlwaysIInv, PTL DEF Spec, UserTeXUntouched

\* A run is refused for the .tex file of the user, or for that of a run that
\* was killed, could not write a file, or had to keep it; never for one that
\* an ordinary run has forgotten, with whatever options.
THEOREM RefusalsHaveCause == Spec => []RefusedForCause
<1>1. IInv => RefusedForCause
  BY DEF IInv
<1> QED
  BY <1>1, AlwaysIInv, PTL
-----------------------------------------------------------------------------
(* Which files a run leaves, and of which run they are                      *)

\* After create_latex_eps_ps_pdf has been decided on.
WithLatex == {"inceps", "incpdf", "eps", "writeeps", "pdf", "ps", "catps"}
LatexOn == pc \in WithLatex => has.latex

AfterBitmap == {"recordeps", "recordpdf", "delete", "clean", "plainps", "svg", "done"}

(***************************************************************************)
(* NoLeftovers speaks of the end of a run.  Before, a file the run has made *)
(* is one that may stay, or one that a later step will delete and will know *)
(* of: it is in m_hasFile, in m_hasIncFile or it is the .tex file.          *)
(***************************************************************************)
Excused(x) ==
  \/ x \in Allowed
  \/ pc \in AfterBitmap /\ PopplerFile(x)
  \/ pc \in Tail \ {"clean"} /\ x \in has.file
  \/ pc = "writeeps" /\ x = "eps"
  \/ pc = "catps" /\ x = "ps"
  \/ pc \in Tail /\ has.latex /\ x = "inceps" /\ "eps" \in has.inc
  \/ pc \in Tail /\ has.latex /\ x = "incpdf" /\ "pdf" \in has.inc
  \/ pc \in Tail /\ has.tex /\ x = "tex"
Explained ==
  pc \notin Ended \ {"done"} /\ ~opts.keep => \A x \in Exts : File(x) \in New => Excused(x)

PsWanted == pc = "catps" => Wants("ps")
NothingYet == pc \in {"start", "draw", "tex"} => \A y \in Exts : File(y) \notin New
LInv == LatexOn /\ PsWanted /\ NothingYet /\ Explained

-----------------------------------------------------------------------------
\* What the steps do to the files of the output name.
LEMMA StemIs ==
  ASSUME IInv, NEW f, files' = [files EXCEPT ![Stem] = f], opts' = opts
  PROVE \A y : File(y)' = f[y]
<1>1. Stem \in DOMAIN files /\ Stem' = Stem
  BY StemType DEF IInv, Typed, Shape, Stem
<1> QED
  BY <1>1 DEF File

LEMMA SameIs == ASSUME UNCHANGED <<files, opts>> PROVE \A y : File(y)' = File(y)
BY DEF File, Stem

LEMMA PutIs ==
  ASSUME IInv, NEW x, NEW c, Put(x, c), opts' = opts
  PROVE \A y \in Exts : File(y)' = IF y = x THEN c ELSE File(y)
<1> DEFINE f == [files[Stem] EXCEPT ![x] = c]
<1>1. files' = [files EXCEPT ![Stem] = f]
  BY DEF Put
<1>2. \A y \in Exts : f[y] = IF y = x THEN c ELSE File(y)
  BY StemFiles DEF File
<1>3. \A y : File(y)' = f[y]
  <2> HIDE DEF f
  <2> QED BY <1>1, StemIs
<1> QED
  BY <1>2, <1>3

LEMMA WithoutIs ==
  ASSUME IInv, NEW X, files' = Without(X), opts' = opts
  PROVE \A y \in Exts : File(y)' = IF y \in X /\ ~opts.keep THEN "none" ELSE File(y)
<1> DEFINE f == [x \in Exts |-> IF x \in X /\ ~opts.keep THEN "none" ELSE files[Stem][x]]
<1>1. files' = [files EXCEPT ![Stem] = f]
  BY DEF Without
<1>2. \A y \in Exts : f[y] = IF y \in X /\ ~opts.keep THEN "none" ELSE File(y)
  BY DEF File
<1>3. \A y : File(y)' = f[y]
  <2> HIDE DEF f
  <2> QED BY <1>1, StemIs
<1> QED
  BY <1>2, <1>3

LEMMA ToolIs ==
  ASSUME NEW able, NEW fine \in BOOLEAN, Tool(able, fine)
  PROVE /\ troubled # {} => troubled' # {}
        /\ ~fine => troubled' # {}
BY DEF Tool

LEMMA GhostscriptIs ==
  ASSUME IInv, NEW x, NEW fine \in BOOLEAN, NEW print, Ghostscript(x, fine, print), opts' = opts
  PROVE /\ \A y \in Exts : File(y)' = File(y) \/ (y = x /\ ~print /\ File(y)' \in {"none", Made("eps")})
        /\ ~print /\ x \in Exts => File(x)' \in {"none", Made("eps")}
        /\ troubled # {} => troubled' # {}
<1>1. CASE print
  BY <1>1, SameIs, ToolIs DEF Ghostscript
<1>2. CASE ~print
  BY <1>2, PutIs, ToolIs DEF Ghostscript
<1> QED
  BY <1>1, <1>2

LEMMA LatexDvipsIs ==
  ASSUME IInv, NEW d \in {"eps", "ps"}, NEW fine \in BOOLEAN, LatexDvips(d, fine), opts' = opts
  PROVE /\ \A y \in Exts \ {d, "dvi", "log"} : File(y)' = File(y)
        /\ fine => File(d)' = Typeset("inceps")
        /\ ~fine => File(d)' \in {File(d), "none"}
        /\ troubled # {} => troubled' # {}
        /\ troubled' = {} => File("dvi")' = "none" /\ File("log")' = "none"
<1> DEFINE old == files[Stem]
           f == [old EXCEPT ![d] = Typeset("inceps"), !.dvi = "none", !.log = "none"]
           g == [old EXCEPT !.dvi = "none", !.log = "own"]
           h == [old EXCEPT ![d] = "none", !.dvi = "own", !.log = "own"]
<1>1. d \in Exts /\ {"dvi", "log"} \subseteq Exts /\ d \notin {"dvi", "log"} /\ DOMAIN old = Exts
  BY StemFiles DEF Exts, Temporary, Devices
<1>2. \A y \in Exts \ {d, "dvi", "log"} : f[y] = old[y] /\ g[y] = old[y] /\ h[y] = old[y]
  BY <1>1
<1>3. /\ f[d] = Typeset("inceps") /\ f["dvi"] = "none" /\ f["log"] = "none"
      /\ g[d] = old[d] /\ h[d] = "none"
  BY <1>1
<1>4. fine => files' = [files EXCEPT ![Stem] = f]
  BY DEF LatexDvips
<1>5. ~fine => files' = [files EXCEPT ![Stem] = g] \/ files' = [files EXCEPT ![Stem] = h]
  BY DEF LatexDvips
<1>6. \A y : old[y] = File(y)
  BY DEF File
<1>7. (troubled # {} => troubled' # {}) /\ (~fine => troubled' # {})
  BY ToolIs DEF LatexDvips
<1> HIDE DEF f, g, h, old
<1>8. CASE fine
  <2>1. \A y : File(y)' = f[y]
    BY <1>4, <1>8, StemIs
  <2> QED
    BY <2>1, <1>1, <1>2, <1>3, <1>6, <1>7, <1>8
<1>9. CASE ~fine /\ files' = [files EXCEPT ![Stem] = g]
  <2>1. \A y : File(y)' = g[y]
    BY <1>9, StemIs
  <2> QED
    BY <2>1, <1>1, <1>2, <1>3, <1>6, <1>7, <1>9
<1>10. CASE ~fine /\ files' = [files EXCEPT ![Stem] = h]
  <2>1. \A y : File(y)' = h[y]
    BY <1>10, StemIs
  <2> QED
    BY <2>1, <1>1, <1>2, <1>3, <1>6, <1>7, <1>10
<1> QED
  BY <1>5, <1>8, <1>9, <1>10

LEMMA PdflatexIs ==
  ASSUME IInv, NEW fine \in BOOLEAN, Pdflatex(fine), opts' = opts
  PROVE /\ \A y \in Exts \ {"pdf", "log"} : File(y)' = File(y)
        /\ File("pdf")' \in {"none", Typeset("incpdf")} /\ (~fine => File("pdf")' = "none")
        /\ File("log")' = "none"
        /\ troubled # {} => troubled' # {}
<1> DEFINE f == [files[Stem] EXCEPT !.pdf = IF fine THEN Typeset("incpdf") ELSE "none", !.log = "none"]
<1>1. files' = [files EXCEPT ![Stem] = f]
  BY DEF Pdflatex
<1>2. /\ \A y \in Exts \ {"pdf", "log"} : f[y] = File(y)
      /\ f["pdf"] \in {"none", Typeset("incpdf")} /\ (~fine => f["pdf"] = "none") /\ f["log"] = "none"
  BY StemFiles DEF File, Devices
<1>3. \A y : File(y)' = f[y]
  <2> HIDE DEF f
  <2> QED BY <1>1, StemIs
<1> QED
  BY <1>2, <1>3, ToolIs DEF Pdflatex

-----------------------------------------------------------------------------
(* Steps of a run.                                                          *)
LEMMA AllowedGrows ==
  ASSUME opts' = opts, troubled # {} => troubled' # {}
  PROVE  \A x : x \in Allowed => x \in Allowed'
BY DEF Allowed, Wants

LEMMA ExplainedStep ==
  ASSUME opts' = opts, ~opts.keep => \A y \in Exts : File(y)' \in New => Excused(y)'
  PROVE  Explained'
BY DEF Explained

\* What is excused stays excused while nothing is forgotten.
Remembers ==
  /\ opts' = opts /\ has'.tex = has.tex /\ has'.latex = has.latex
  /\ has.file \subseteq has'.file /\ has.inc \subseteq has'.inc
  /\ troubled # {} => troubled' # {}
  /\ pc \in Tail \ {"writeeps", "catps", "clean"} /\ pc' \in Tail \ {"clean"}
  /\ pc \in AfterBitmap => pc' \in AfterBitmap /\ buffer' = buffer

LEMMA ExcusedStays == ASSUME Remembers PROVE \A x : Excused(x) => Excused(x)'
<1>1. \A x : x \in Allowed => x \in Allowed'
  BY AllowedGrows DEF Remembers
<1>2. \A x : PopplerFile(x) /\ buffer' = buffer => PopplerFile(x)'
  BY DEF PopplerFile, FromPdf, Remembers
<1> QED
  BY <1>1, <1>2 DEF Excused, Remembers

LEMMA Remembered ==
  ASSUME IInv, LInv, Remembers, \A y \in Exts : File(y)' \in New => File(y) \in New \/ Excused(y)'
  PROVE  Explained'
<1>1. pc \notin Ended
  BY DEF Remembers, Tail, Ended
<1>2. ~opts.keep => \A y \in Exts : File(y)' \in New => Excused(y)'
  BY <1>1, ExcusedStays DEF LInv, Explained
<1> QED
  BY <1>2, ExplainedStep DEF Remembers

\* m_hasFile and m_hasIncFile.
LEMMA HasAdds ==
  ASSUME HasShape, NEW d,
         \/ has' = has
         \/ has' = [has EXCEPT !.file = has.file \cup {d}]
         \/ has' = [has EXCEPT !.inc = has.inc \cup {d}]
  PROVE /\ has'.tex = has.tex /\ has'.latex = has.latex /\ has'.generated = has.generated
        /\ has.file \subseteq has'.file /\ has.inc \subseteq has'.inc
        /\ has' = [has EXCEPT !.file = has.file \cup {d}] => d \in has'.file
        /\ has' = [has EXCEPT !.inc = has.inc \cup {d}] => d \in has'.inc
<1>1. CASE has' = has
  BY <1>1 DEF HasShape
<1>2. CASE has' = [has EXCEPT !.file = has.file \cup {d}]
  BY <1>2 DEF HasShape
<1>3. CASE has' = [has EXCEPT !.inc = has.inc \cup {d}]
  BY <1>3 DEF HasShape
<1> QED
  BY <1>1, <1>2, <1>3

LEMMA LConvert == ASSUME IInv, LInv, ConvertEpsToPdf PROVE Explained'
<1>1. opts' = opts /\ pc = "convert" /\ pc' = "bitmap" /\ HasShape
  BY DEF ConvertEpsToPdf, IInv, Typed
<1>2. CASE Wants("pdf") /\ "pdf" \notin has.generated
  <2>1. PICK fine \in BOOLEAN : Ghostscript("pdf", fine, opts.stdout)
    BY <1>2 DEF ConvertEpsToPdf
  <2>2. has' = [has EXCEPT !.file = has.file \cup {"pdf"}]
    BY <1>2 DEF ConvertEpsToPdf
  <2>3. Remembers
    BY <2>1, <2>2, <1>1, GhostscriptIs, HasAdds DEF Remembers, Tail, AfterBitmap
  <2>4. Excused("pdf")'
    BY <2>2, <1>1, HasAdds DEF Excused, Tail
  <2> QED
    BY <2>1, <2>3, <2>4, <1>1, GhostscriptIs, Remembered
<1>3. CASE ~(Wants("pdf") /\ "pdf" \notin has.generated)
  <2>1. UNCHANGED <<has, files, troubled>>
    BY <1>3 DEF ConvertEpsToPdf, counts
  <2>2. Remembers
    BY <2>1, <1>1 DEF Remembers, Tail, AfterBitmap
  <2> QED
    BY <2>1, <2>2, <1>1, SameIs, Remembered
<1> QED
  BY <1>2, <1>3

LEMMA LIncEps == ASSUME IInv, LInv, WriteIncEps PROVE Explained'
<1>1. opts' = opts /\ pc = "inceps" /\ pc' = "incpdf" /\ HasShape /\ UNCHANGED troubled
  BY DEF WriteIncEps, IInv, Typed, counts
<1>2. CASE WritesIncEps
  <2>1. Put("inceps", Made("eps")) /\ has' = [has EXCEPT !.inc = has.inc \cup {"eps"}]
    BY <1>2 DEF WriteIncEps
  <2>2. Remembers /\ "eps" \in has'.inc
    BY <2>1, <1>1, HasAdds DEF Remembers, Tail, AfterBitmap
  <2>3. Excused("inceps")'
    BY <2>2, <1>1 DEF Excused, Tail, LInv, LatexOn, WithLatex, Remembers
  <2> QED
    BY <2>1, <2>2, <2>3, <1>1, PutIs, Remembered
<1>3. CASE ~WritesIncEps
  <2>1. UNCHANGED <<has, files>>
    BY <1>3 DEF WriteIncEps
  <2>2. Remembers
    BY <2>1, <1>1 DEF Remembers, Tail, AfterBitmap
  <2> QED
    BY <2>1, <2>2, <1>1, SameIs, Remembered
<1> QED
  BY <1>2, <1>3

LEMMA LIncPdf == ASSUME IInv, LInv, WriteIncPdf PROVE Explained'
<1>1. opts' = opts /\ pc = "incpdf" /\ pc' \in {"eps", "bitmap"} /\ HasShape
  BY DEF WriteIncPdf, IInv, Typed
<1>2. CASE MakesIncPdf
  <2>1. /\ \A y \in Exts : File(y)' = File(y) \/ y = "incpdf"
        /\ troubled # {} => troubled' # {}
    <3>1. CASE "pdf" \notin has.generated
      BY <3>1, <1>1, <1>2, GhostscriptIs DEF WriteIncPdf
    <3>2. CASE "pdf" \in has.generated
      BY <3>2, <1>1, <1>2, PutIs DEF WriteIncPdf, counts
    <3> QED
      BY <3>1, <3>2
  <2>2. has' = [has EXCEPT !.inc = has.inc \cup {"pdf"}]
    BY <1>2 DEF WriteIncPdf
  <2>3. Remembers /\ "pdf" \in has'.inc
    BY <2>1, <2>2, <1>1, HasAdds DEF Remembers, Tail, AfterBitmap
  <2>4. Excused("incpdf")'
    BY <2>3, <1>1 DEF Excused, Tail, LInv, LatexOn, WithLatex, Remembers
  <2> QED
    BY <2>1, <2>3, <2>4, Remembered
<1>3. CASE ~MakesIncPdf
  <2>1. UNCHANGED <<has, files, troubled>>
    BY <1>3 DEF WriteIncPdf, counts
  <2>2. Remembers
    BY <2>1, <1>1 DEF Remembers, Tail, AfterBitmap
  <2> QED
    BY <2>1, <2>2, <1>1, SameIs, Remembered
<1> QED
  BY <1>2, <1>3

\* A log is left by a tool that has failed.
LEMMA Logs ==
  ASSUME troubled' # {}
  PROVE  Excused("dvi")' /\ Excused("log")'
BY DEF Excused, Allowed

LEMMA LEps == ASSUME IInv, LInv, CreateEps PROVE Explained'
<1>1. opts' = opts /\ pc = "eps" /\ pc' \in {"writeeps", "pdf"} /\ UNCHANGED has
  BY DEF CreateEps
<1>2. CASE requires_tex_eps
  <2>1. PICK fine \in BOOLEAN : LatexDvips("eps", fine)
    BY <1>2 DEF CreateEps
  <2>2. Remembers
    BY <2>1, <1>1, LatexDvipsIs DEF Remembers, Tail, AfterBitmap
  <2>3. Excused("eps")'
    BY <1>1, <1>2 DEF Excused, CreateEps
  <2>4. \A y \in Exts : File(y)' \in New => File(y) \in New \/ Excused(y)'
    BY <2>1, <2>3, <1>1, LatexDvipsIs, Logs DEF New
  <2> QED
    BY <2>2, <2>4, Remembered
<1>3. CASE ~requires_tex_eps
  <2>1. UNCHANGED <<files, troubled>>
    BY <1>3 DEF CreateEps, counts
  <2>2. Remembers
    BY <2>1, <1>1 DEF Remembers, Tail, AfterBitmap
  <2> QED
    BY <2>1, <2>2, <1>1, SameIs, Remembered
<1> QED
  BY <1>2, <1>3

\* The EPS that has been written is in m_hasFile.
LEMMA LWriteEps == ASSUME IInv, LInv, WriteEps PROVE Explained'
<1>1. /\ opts' = opts /\ pc = "writeeps" /\ pc' = "pdf" /\ HasShape /\ UNCHANGED troubled
      /\ Put("eps", Made("eps")) /\ has' = [has EXCEPT !.file = has.file \cup {"eps"}]
  BY DEF WriteEps, IInv, Typed, counts
<1>2. /\ has'.tex = has.tex /\ has'.latex = has.latex
      /\ has.file \subseteq has'.file /\ has.inc \subseteq has'.inc /\ "eps" \in has'.file
  BY <1>1, HasAdds
<1>3. \A x : Excused(x) => Excused(x)'
  BY <1>1, <1>2, AllowedGrows DEF Excused, Tail, AfterBitmap
<1>4. Excused("eps")'
  BY <1>1, <1>2 DEF Excused, Tail
<1>5. pc \notin Ended
  BY <1>1 DEF Ended
<1>6. ~opts.keep => \A y \in Exts : File(y)' \in New => Excused(y)'
  BY <1>1, <1>3, <1>4, <1>5, PutIs DEF LInv, Explained
<1> QED
  BY <1>1, <1>6, ExplainedStep

LEMMA LPdf == ASSUME IInv, LInv, CreatePdf PROVE Explained'
<1>1. opts' = opts /\ pc = "pdf" /\ pc' = "ps" /\ HasShape
  BY DEF CreatePdf, IInv, Typed
<1>2. CASE requires_tex_pdf
  <2>1. PICK fine \in BOOLEAN : IF opts.pdftex THEN Pdflatex(fine) ELSE Ghostscript("pdf", fine, opts.stdout)
    BY <1>2 DEF CreatePdf
  <2>2. /\ \A y \in Exts : File(y)' \in New => File(y)' = File(y) \/ y = "pdf"
        /\ troubled # {} => troubled' # {}
    <3>1. CASE opts.pdftex
      BY <3>1, <2>1, <1>1, PdflatexIs DEF New
    <3>2. CASE ~opts.pdftex
      BY <3>2, <2>1, <1>1, GhostscriptIs
    <3> QED
      BY <3>1, <3>2
  <2>3. has' = [has EXCEPT !.file = has.file \cup {"pdf"}]
    BY <1>2 DEF CreatePdf
  <2>4. Remembers
    BY <2>2, <2>3, <1>1, HasAdds DEF Remembers, Tail, AfterBitmap
  <2>5. Excused("pdf")'
    BY <2>3, <1>1, HasAdds DEF Excused, Tail
  <2> QED
    BY <2>2, <2>4, <2>5, Remembered
<1>3. CASE ~requires_tex_pdf
  <2>1. UNCHANGED <<has, files, troubled>>
    BY <1>3 DEF CreatePdf, counts
  <2>2. Remembers
    BY <2>1, <1>1 DEF Remembers, Tail, AfterBitmap
  <2> QED
    BY <2>1, <2>2, <1>1, SameIs, Remembered
<1> QED
  BY <1>2, <1>3

LEMMA LPs == ASSUME IInv, LInv, CreatePs PROVE Explained'
<1>1. opts' = opts /\ pc = "ps" /\ pc' \in {"catps", "bitmap"} /\ UNCHANGED has
  BY DEF CreatePs
<1>2. CASE Wants("ps")
  <2>1. PICK fine \in BOOLEAN : LatexDvips("ps", fine)
    BY <1>2 DEF CreatePs
  <2>2. Remembers
    BY <2>1, <1>1, LatexDvipsIs DEF Remembers, Tail, AfterBitmap
  <2>3. Excused("ps")'
    BY <1>1, <1>2 DEF Excused, CreatePs
  <2>4. \A y \in Exts : File(y)' \in New => File(y) \in New \/ Excused(y)'
    BY <2>1, <2>3, <1>1, LatexDvipsIs, Logs DEF New
  <2> QED
    BY <2>2, <2>4, Remembered
<1>3. CASE ~Wants("ps")
  <2>1. UNCHANGED <<files, troubled>>
    BY <1>3 DEF CreatePs, counts
  <2>2. Remembers
    BY <2>1, <1>1 DEF Remembers, Tail, AfterBitmap
  <2> QED
    BY <2>1, <2>2, <1>1, SameIs, Remembered
<1> QED
  BY <1>2, <1>3

\* It is there only if it is wanted; on standard output it is no longer a file.
LEMMA LCatPs == ASSUME IInv, LInv, CatPs PROVE Explained'
<1>1. opts' = opts /\ pc = "catps" /\ pc' = "bitmap" /\ UNCHANGED <<has, troubled>>
  BY DEF CatPs, counts
<1>2. \A x : Excused(x) /\ x # "ps" => Excused(x)'
  BY <1>1, AllowedGrows DEF Excused, Tail, AfterBitmap
<1>3. ~opts.keep => \A y \in Exts : File(y) \in New => Excused(y)
  BY <1>1 DEF LInv, Explained, Ended
<1>4. CASE opts.stdout
  <2>1. \A y \in Exts : File(y)' = IF y \in {"ps"} /\ ~opts.keep THEN "none" ELSE File(y)
    BY <1>1, <1>4, WithoutIs DEF CatPs
  <2> QED
    BY <2>1, <1>1, <1>2, <1>3, ExplainedStep DEF New
<1>5. CASE ~opts.stdout
  <2>1. UNCHANGED files
    BY <1>5 DEF CatPs
  <2>2. Excused("ps")'
    BY <1>1, <1>5 DEF Excused, Allowed, Wants, LInv, PsWanted
  <2> QED
    BY <2>1, <2>2, <1>1, <1>2, <1>3, SameIs, ExplainedStep
<1> QED
  BY <1>4, <1>5

LEMMA LBitmap == ASSUME IInv, LInv, CreateBitmap PROVE Explained'
<1>1. opts' = opts /\ pc = "bitmap" /\ pc' = "recordeps" /\ UNCHANGED <<has, buffer>> /\ opts.stdout \in BOOLEAN
  BY StemType DEF CreateBitmap, IInv, Typed
<1>2. /\ UNCHANGED files \/ (Wants("png") /\ ((FromPdf /\ UsesPoppler) \/ ~opts.stdout) /\ \E c : Put("png", c))
      /\ troubled # {} => troubled' # {}
  <2>1. CASE ~Wants("png") \/ (FromPdf /\ UsesPoppler)
    BY <2>1 DEF CreateBitmap, counts
  <2>2. CASE ~(~Wants("png") \/ (FromPdf /\ UsesPoppler))
    <3>1. PICK fine \in BOOLEAN :
            /\ Tool(TRUE, fine)
            /\ IF opts.stdout THEN UNCHANGED files ELSE Put("png", IF fine THEN Picture ELSE "none")
      BY <2>2 DEF CreateBitmap
    <3> QED
      BY <3>1, <2>2, <1>1, ToolIs
  <2> QED
    BY <2>1, <2>2
<1>3. Remembers
  BY <1>1, <1>2 DEF Remembers, Tail, AfterBitmap
<1>4. CASE UNCHANGED files
  BY <1>1, <1>3, <1>4, SameIs, Remembered
<1>5. CASE Wants("png") /\ ((FromPdf /\ UsesPoppler) \/ ~opts.stdout) /\ \E c : Put("png", c)
  <2>1. Excused("png")'
    <3>1. CASE FromPdf /\ UsesPoppler /\ opts.stdout
      BY <3>1, <1>1 DEF Excused, AfterBitmap, PopplerFile, FromPdf
    <3>2. CASE ~opts.stdout
      BY <3>2, <1>1, <1>5 DEF Excused, Allowed, Wants
    <3> QED
      BY <3>1, <3>2, <1>1, <1>5
  <2>2. \A y \in Exts : File(y)' = File(y) \/ y = "png"
    BY <1>1, <1>5, PutIs
  <2> QED
    BY <2>1, <2>2, <1>3, Remembered
<1> QED
  BY <1>2, <1>4, <1>5

LEMMA LRecord ==
  ASSUME IInv, LInv, NEW d \in {"eps", "pdf"}, write_recorded_data(d), UNCHANGED <<opts, buffer, has, counts>>,
         pc \in {"recordeps", "recordpdf"}, pc' \in {"recordpdf", "delete"}
  PROVE Explained'
<1>1. Remembers
  BY DEF Remembers, Tail, AfterBitmap, counts
<1>2. UNCHANGED files \/ (Records(d) /\ ~opts.stdout /\ Put(d, Made(d)))
  BY DEF write_recorded_data
<1>3. CASE UNCHANGED files
  BY <1>1, <1>3, SameIs, Remembered
<1>4. CASE Records(d) /\ ~opts.stdout /\ Put(d, Made(d))
  <2>1. Excused(d)'
    BY <1>4 DEF Records, Excused, Allowed, Wants
  <2>2. \A y \in Exts : File(y)' = File(y) \/ y = d
    BY <1>4, PutIs
  <2> QED
    BY <2>1, <2>2, <1>1, Remembered
<1> QED
  BY <1>2, <1>3, <1>4

\* What the run was to make only on the way to another file is in m_hasFile.
LEMMA LDelete == ASSUME IInv, LInv, delete_original_eps_pdf PROVE Explained'
<1>1. /\ UNCHANGED <<opts, has, buffer, troubled>> /\ pc = "delete" /\ pc' = "clean"
      /\ files' = Without(Originals)
  BY DEF delete_original_eps_pdf, counts
<1>2. \A y \in Exts : File(y)' = IF y \in Originals /\ ~opts.keep THEN "none" ELSE File(y)
  BY <1>1, WithoutIs
<1>3. \A x : x \in Allowed <=> x \in Allowed'
  BY <1>1 DEF Allowed, Wants
<1>4. \A x \in Exts : x \in has.file \ Originals => x \in Allowed
  BY OptionsAssumption DEF Originals, Wants, Allowed, IInv, Typed, Option
<1>5. \A x \in Exts : Excused(x) /\ x \notin Originals => Excused(x)'
  BY <1>1, <1>3, <1>4 DEF Excused, AfterBitmap, PopplerFile, FromPdf, Tail
<1>6. ~opts.keep => \A y \in Exts : File(y) \in New => Excused(y)
  BY <1>1 DEF LInv, Explained, Ended
<1> QED
  BY <1>1, <1>2, <1>5, <1>6, ExplainedStep DEF New

\* And the files LaTeX worked with are in m_hasIncFile, or are the .tex file.
LEMMA LClean == ASSUME IInv, LInv, clean_tex_temp_files PROVE Explained'
<1> DEFINE T == IF has.latex THEN TempFiles ELSE {}
<1>1. /\ UNCHANGED <<opts, has, buffer, troubled>> /\ pc = "clean" /\ pc' = "plainps"
      /\ files' = Without(T) /\ has.tex \in BOOLEAN /\ has.latex \in BOOLEAN
  BY DEF clean_tex_temp_files, IInv, Typed, HasShape
<1>2. \A y \in Exts : File(y)' = IF y \in T /\ ~opts.keep THEN "none" ELSE File(y)
  <2> HIDE DEF T
  <2> QED BY <1>1, WithoutIs
<1>3. \A x : x \in Allowed <=> x \in Allowed'
  BY <1>1 DEF Allowed, Wants
<1>4. has.tex => has.latex
  BY <1>1 DEF IInv, Owner, Tail
<1>5. \A x \in Exts : Excused(x) /\ x \notin T => Excused(x)'
  <2>1. ASSUME has.latex, "eps" \in has.inc, "inceps" \notin TempFiles PROVE "inceps" \in Allowed
    BY <2>1 DEF TempFiles, CleanInc, Allowed
  <2>2. ASSUME has.latex, "pdf" \in has.inc, "incpdf" \notin TempFiles PROVE "incpdf" \in Allowed
    BY <2>2 DEF TempFiles, CleanInc, Allowed
  <2>3. has.tex => "tex" \in TempFiles
    BY DEF TempFiles
  <2> QED
    BY <2>1, <2>2, <2>3, <1>1, <1>3, <1>4 DEF Excused, AfterBitmap, PopplerFile, FromPdf, Tail
<1>6. ~opts.keep => \A y \in Exts : File(y) \in New => Excused(y)
  BY <1>1 DEF LInv, Explained, Ended
<1> HIDE DEF T
<1> QED
  BY <1>1, <1>2, <1>5, <1>6, ExplainedStep DEF New

\* Formats that are drawn separately go where they are wanted.
LEMMA LPlain ==
  ASSUME IInv, LInv, UNCHANGED <<opts, buffer, has, counts>>,
         pc \in {"start", "plainps", "svg"}, pc' \in {"plainps", "svg", "done"},
         pc = "start" => \A y \in Exts : File(y) \notin New,
         NEW d \in {"ps", "svg"},
         UNCHANGED files \/ (Wants(d) /\ \E c : Put(d, c) /\ (opts.stdout => c = "none" \/ opts.keep))
  PROVE Explained'
<1>1. \A x : x \in Allowed => x \in Allowed'
  BY AllowedGrows DEF counts
<1>2. \A x : Excused(x) => Excused(x)'
  BY <1>1 DEF Excused, AfterBitmap, PopplerFile, FromPdf, Tail, counts
<1>3. ~opts.keep => \A y \in Exts : File(y) \in New => Excused(y)
  BY DEF LInv, Explained, Ended
<1>4. CASE UNCHANGED files
  BY <1>2, <1>3, <1>4, SameIs, ExplainedStep
<1>5. CASE Wants(d) /\ \E c : Put(d, c) /\ (opts.stdout => c = "none" \/ opts.keep)
  <2>1. PICK c : Put(d, c) /\ (opts.stdout => c = "none" \/ opts.keep)
    BY <1>5
  <2>2. \A y \in Exts : File(y)' = IF y = d THEN c ELSE File(y)
    BY <2>1, PutIs
  <2>3. ~opts.stdout => Excused(d)'
    BY <1>5 DEF Excused, Allowed, Wants
  <2> QED
    BY <2>1, <2>2, <2>3, <1>2, <1>3, ExplainedStep DEF New
<1> QED
  BY <1>4, <1>5

LEMMA LPlainPs == ASSUME IInv, LInv, PlainPs PROVE Explained'
<1>1. /\ UNCHANGED <<opts, buffer, has, counts>> /\ pc = "plainps" /\ pc' \in {"svg", "failed"}
      /\ opts.keep \in BOOLEAN /\ opts.stdout \in BOOLEAN
  BY OptionsAssumption DEF PlainPs, IInv, Typed, Option
<1>2. UNCHANGED files \/ (Wants("ps") /\ \E c : Put("ps", c) /\ (opts.stdout => c = "none" \/ opts.keep))
  BY <1>1 DEF PlainPs
<1>3. CASE pc' = "failed"
  BY <1>3 DEF Explained, Ended
<1> QED
  BY <1>1, <1>2, <1>3, LPlain

LEMMA LSvg == ASSUME IInv, LInv, Svg PROVE Explained'
<1>1. /\ UNCHANGED <<opts, buffer, has, counts>> /\ pc = "svg" /\ pc' \in {"done", "failed", "nosvg"}
      /\ opts.keep \in BOOLEAN /\ opts.stdout \in BOOLEAN
  BY OptionsAssumption DEF Svg, IInv, Typed, Option
<1>2. CASE pc' = "done"
  <2>1. UNCHANGED files \/ (Wants("svg") /\ \E c : Put("svg", c) /\ (opts.stdout => c = "none" \/ opts.keep))
    BY <1>1, <1>2 DEF Svg
  <2> QED
    BY <2>1, <1>1, <1>2, LPlain
<1>3. CASE pc' \in {"failed", "nosvg"}
  BY <1>3 DEF Explained, Ended
<1> QED
  BY <1>1, <1>2, <1>3

-----------------------------------------------------------------------------
(* The beginning of a run.                                                  *)

LEMMA AgedIs == ASSUME IInv, files' = Aged, opts' \in Options PROVE \A y \in Exts : File(y)' \notin New
<1>1. Stem' \in {"out", "temp"}
  BY OptionsAssumption DEF Stem, Option
<1>2. \A y \in Exts : Aged["out"][y] \notin New /\ Aged["temp"][y] \notin New
  BY DEF Aged, NoFiles, New
<1> QED
  BY <1>1, <1>2 DEF File

LEMMA DeletePreviousIs ==
  ASSUME IInv, delete_previous_output
  PROVE \A y \in Exts : File(y)' \in {File(y), "none"}
<1> DEFINE f == [x \in Exts |-> IF x \in PreviousOutputs /\ Wants(x) THEN "none" ELSE files.out[x]]
<1>1. opts' = opts
  BY DEF delete_previous_output
<1>2. CASE opts.stdout
  BY <1>1, <1>2, SameIs DEF delete_previous_output
<1>3. CASE ~opts.stdout
  <2>1. files' = [files EXCEPT ![Stem] = f] /\ Stem = "out"
    BY <1>3 DEF delete_previous_output, Stem
  <2>2. \A y \in Exts : f[y] \in {File(y), "none"}
    BY <2>1 DEF File
  <2>3. \A y : File(y)' = f[y]
    <3> HIDE DEF f
    <3> QED BY <2>1, <1>1, StemIs
  <2> QED
    BY <2>2, <2>3
<1> QED
  BY <1>2, <1>3

\* createInc and createTeX.
LEMMA TeXIs ==
  ASSUME IInv, CreateTeX
  PROVE /\ \A y \in Exts \ {"inc", "tex"} : File(y)' = File(y)
        /\ File("inc")' # File("inc") => opts.inc
        /\ File("tex")' # File("tex") => has'.tex /\ pc' # "refused"
<1>1. /\ Stem \in Stems /\ Shape /\ HasShape /\ opts' = opts
      /\ {"inc", "tex"} \subseteq Exts
  BY StemType DEF IInv, Typed, CreateTeX, Exts, Temporary
<1> DEFINE inc == IF opts.inc THEN [files[Stem] EXCEPT !.inc = "own"] ELSE files[Stem]
           made == objects /\ requires_tex
           tex == [inc EXCEPT !.tex = IF made THEN "own" ELSE inc.tex]
<1>2. WithInc = [files EXCEPT ![Stem] = inc] \/ (WithInc = files /\ inc = files[Stem])
  BY DEF WithInc
<1>3. /\ DOMAIN inc = Exts /\ \A y \in Exts \ {"inc"} : inc[y] = File(y)
      /\ inc["inc"] # File("inc") => opts.inc
  BY <1>1 DEF Shape, File
<1>4. CASE objects /\ requires_tex /\ TeXExists
  <2>1. files' = WithInc /\ pc' = "refused"
    BY <1>4 DEF CreateTeX
  <2>2. \A y : File(y)' = inc[y]
    <3>1. CASE WithInc = [files EXCEPT ![Stem] = inc]
      <4> HIDE DEF inc
      <4> QED BY <2>1, <3>1, <1>1, StemIs
    <3>2. CASE WithInc = files /\ inc = files[Stem]
      BY <2>1, <3>2, <1>1, SameIs DEF File
    <3> QED BY <3>1, <3>2, <1>2
  <2> QED
    BY <2>1, <2>2, <1>1, <1>3
<1>5. CASE ~(objects /\ requires_tex /\ TeXExists)
  <2>1. /\ files' = [WithInc EXCEPT ![Stem] = [WithInc[Stem] EXCEPT !.tex = IF made THEN "own" ELSE @]]
        /\ has' = [has EXCEPT !.tex = made, !.latex = opts.inc \/ objects]
        /\ pc' \in {"inceps", "convert"}
    BY <1>5 DEF CreateTeX
  <2>2. files' = [files EXCEPT ![Stem] = tex]
    <3>1. WithInc[Stem] = inc
      BY <1>1, <1>2 DEF Shape
    <3> HIDE DEF inc
    <3> QED BY <3>1, <2>1, <1>1, <1>2 DEF Shape
  <2>3. \A y : File(y)' = tex[y]
    <3> HIDE DEF tex
    <3> QED BY <2>2, <1>1, StemIs
  <2>4. has'.tex = made
    BY <2>1, <1>1 DEF HasShape
  <2>5. /\ \A y \in Exts \ {"tex"} : tex[y] = inc[y]
        /\ tex["tex"] # inc["tex"] => made
    <3> HIDE DEF inc
    <3> QED BY <1>1, <1>3
  <2> HIDE DEF inc, tex
  <2> QED
    BY <2>1, <2>3, <2>4, <2>5, <1>1, <1>3
<1> QED
  BY <1>4, <1>5

LEMMA LTeX == ASSUME IInv, LInv, CreateTeX PROVE Explained' /\ LatexOn'
<1>1. /\ opts' = opts /\ pc = "tex" /\ pc' \in {"refused", "inceps", "convert"} /\ HasShape
      /\ \A y \in Exts : File(y) \notin New
  BY DEF CreateTeX, IInv, Typed, LInv, NothingYet
<1>2. LatexOn'
  <2>1. pc' = "inceps" => has' = [has EXCEPT !.tex = objects /\ requires_tex, !.latex = opts.inc \/ objects] /\ (opts.inc \/ objects)
    BY DEF CreateTeX
  <2> QED
    BY <2>1, <1>1 DEF LatexOn, WithLatex, HasShape
<1>3. CASE pc' = "refused"
  BY <1>2, <1>3 DEF Explained, Ended
<1>4. CASE pc' # "refused"
  <2>1. has'.tex => Excused("tex")'
    BY <1>1, <1>4 DEF Excused, Tail
  <2>2. opts.inc => Excused("inc")'
    BY <1>1 DEF Excused, Allowed
  <2>3. \A y \in Exts : File(y)' \in New => Excused(y)'
    BY <2>1, <2>2, <1>1, TeXIs
  <2> QED
    BY <2>3, <1>1, <1>2, ExplainedStep
<1> QED
  BY <1>3, <1>4

LEMMA LStart ==
  ASSUME IInv, LInv, delete_previous_output \/ Draw
  PROVE  NothingYet' /\ Explained'
<1>1. /\ pc \in {"start", "draw"} /\ pc' \in {"draw", "tex", "failed"} /\ opts' = opts
      /\ \A y \in Exts : File(y) \notin New
  BY DEF delete_previous_output, Draw, LInv, NothingYet
<1>2. \A y \in Exts : File(y)' \in {File(y), "none"}
  <2>1. CASE delete_previous_output
    BY <2>1, DeletePreviousIs
  <2>2. CASE Draw
    BY <2>2, SameIs DEF Draw
  <2> QED
    BY <2>1, <2>2
<1>3. \A y \in Exts : File(y)' \notin New
  BY <1>1, <1>2 DEF New
<1> QED
  BY <1>1, <1>3 DEF NothingYet, Explained

LEMMA LStep == ASSUME IInv, LInv, [Next]_vars PROVE LInv'
<1>1. CASE UNCHANGED vars
  <2>1. \A y : File(y)' = File(y) /\ (Excused(y) => Excused(y)')
    BY <1>1 DEF vars, counts, File, Stem, Excused, Allowed, Wants, PopplerFile, FromPdf
  <2>2. UNCHANGED <<pc, opts, has>>
    BY <1>1 DEF vars
  <2> QED
    BY <2>1, <2>2 DEF LInv, LatexOn, PsWanted, NothingYet, Explained, Wants
<1>2. CASE LoadOneFile \/ Exit
  <2>1. pc' \in {"start", "off"} /\ files' = Aged /\ opts' \in Options
    BY <1>2, OptionsAssumption DEF LoadOneFile, Exit, Fresh, IInv, Typed, NoOptions
  <2>2. \A y \in Exts : File(y)' \notin New
    BY <2>1, AgedIs
  <2> QED
    BY <2>1, <2>2 DEF LInv, LatexOn, WithLatex, PsWanted, NothingYet, Explained
<1>3. CASE delete_previous_output \/ Draw
  <2>1. pc' \in {"draw", "tex", "failed"}
    BY <1>3 DEF delete_previous_output, Draw
  <2> QED
    BY <1>3, <2>1, LStart DEF LInv, LatexOn, WithLatex, PsWanted
<1>4. CASE CreateTeX
  <2>1. pc' \in {"refused", "inceps", "convert"}
    BY <1>4 DEF CreateTeX
  <2> QED
    BY <1>4, <2>1, LTeX DEF LInv, PsWanted, NothingYet
<1>5. CASE OnlyPlain
  <2>1. /\ UNCHANGED <<opts, buffer, has, counts, files>> /\ pc = "start" /\ pc' = "plainps"
        /\ \A y \in Exts : File(y) \notin New
    BY <1>5 DEF OnlyPlain, LInv, NothingYet
  <2>2. Explained'
    BY <2>1, LPlain
  <2> QED
    BY <2>1, <2>2 DEF LInv, LatexOn, WithLatex, PsWanted, NothingYet
<1>6. CASE PlainPs \/ Svg
  <2>1. pc' \in {"svg", "failed", "done", "nosvg"}
    BY <1>6 DEF PlainPs, Svg
  <2> QED
    BY <1>6, <2>1, LPlainPs, LSvg DEF LInv, LatexOn, WithLatex, PsWanted, NothingYet
<1>7. CASE CannotWrite \/ Kill
  <2>1. pc' \in {"failed", "killed"}
    BY <1>7 DEF CannotWrite, Kill
  <2> QED
    BY <2>1 DEF LInv, LatexOn, WithLatex, PsWanted, NothingYet, Explained, Ended
<1>8. CASE ConvertEpsToPdf \/ WriteIncEps \/ WriteIncPdf \/ CreateEps \/ WriteEps \/ CreatePdf \/ CreatePs \/ CatPs
  <2>1. Explained'
    BY <1>8, LConvert, LIncEps, LIncPdf, LEps, LWriteEps, LPdf, LPs, LCatPs
  <2>2. /\ pc \in {"convert"} \cup WithLatex /\ pc' \in ({"bitmap"} \cup WithLatex) \ {"inceps"}
        /\ pc' # "bitmap" => pc \in WithLatex
    BY <1>8 DEF ConvertEpsToPdf, WriteIncEps, WriteIncPdf, CreateEps, WriteEps, CreatePdf, CreatePs, CatPs, WithLatex
  <2>3. LatexOn'
    <3>1. has'.latex = has.latex
      <4>1. \/ has' = has
            \/ \E d : has' = [has EXCEPT !.file = has.file \cup {d}]
            \/ \E d : has' = [has EXCEPT !.inc = has.inc \cup {d}]
        BY <1>8 DEF ConvertEpsToPdf, WriteIncEps, WriteIncPdf, CreateEps, WriteEps, CreatePdf, CreatePs, CatPs
      <4> QED
        BY <4>1, HasAdds DEF IInv, Typed
    <3> QED
      BY <3>1, <2>2 DEF LInv, LatexOn, WithLatex
  <2>4. PsWanted'
    <3>1. pc' = "catps" => Wants("ps") /\ opts' = opts
      BY <1>8 DEF ConvertEpsToPdf, WriteIncEps, WriteIncPdf, CreateEps, WriteEps, CreatePdf, CreatePs, CatPs
    <3> QED
      BY <3>1 DEF PsWanted, Wants
  <2> QED
    BY <2>1, <2>2, <2>3, <2>4 DEF LInv, NothingYet, WithLatex
<1>9. CASE CreateBitmap \/ RecordEps \/ RecordPdf \/ delete_original_eps_pdf \/ clean_tex_temp_files
  <2>1. pc' \in {"recordeps", "recordpdf", "delete", "clean", "plainps"}
    BY <1>9 DEF CreateBitmap, RecordEps, RecordPdf, delete_original_eps_pdf, clean_tex_temp_files
  <2>2. RecordEps \/ RecordPdf => Explained'
    BY LRecord DEF RecordEps, RecordPdf
  <2>3. Explained'
    BY <1>9, <2>2, LBitmap, LDelete, LClean
  <2> QED
    BY <2>1, <2>3 DEF LInv, LatexOn, WithLatex, PsWanted, NothingYet
<1> QED
  BY <1>1, <1>2, <1>3, <1>4, <1>5, <1>6, <1>7, <1>8, <1>9 DEF Next

\* A run that comes to its end leaves no temporary file and no step to another
\* file, whatever formats, options and failures of tools it has had.
THEOREM NothingLeftBehind == Spec => []NoLeftovers
<1>1. Init => LInv
  BY DEF Init, LInv, LatexOn, WithLatex, PsWanted, NothingYet, Explained, Ended
<1>2. IInv /\ LInv /\ [Next]_vars => LInv'
  BY LStep
<1>3. LInv => NoLeftovers
  <2>1. ASSUME Explained, pc = "done", ~opts.keep, NEW x \in Exts \ Allowed
        PROVE  File(x) \notin New \/ PopplerFile(x)
    BY <2>1 DEF Explained, Excused, Ended, Tail
  <2> QED
    BY <2>1 DEF LInv, NoLeftovers
<1> QED
  BY <1>1, <1>2, <1>3, AlwaysIInv, PTL DEF Spec

-----------------------------------------------------------------------------
(***************************************************************************)
(* NoPreviousOutput: an EPS or a PDF can only be of an earlier run if LaTeX  *)
(* makes it of an earlier .tex file or of an earlier figure.  The .tex file  *)
(* is that of this run whenever LaTeX is needed (OwnTeX), and the figure has *)
(* been written by then (Figures), because of what has been drawn (Drawn).   *)
(***************************************************************************)
Pictures == {"eps", "pdf"}
Drawn ==
  /\ DOMAIN buffer = Pictures
  /\ pc \in {"start", "draw"} => buffer = NoBuffer /\ has.generated = {}
  /\ pc \in Tail \cup {"tex"} /\ "eps" \notin has.generated => "pdf" \in has.generated /\ opts.cairo /\ ~Wants("eps")
  /\ pc \in {"tex", "convert", "inceps", "incpdf", "eps"} =>
       \A b \in Pictures : buffer[b] = IF b \in has.generated THEN "plain" ELSE "none"
  /\ pc = "tex" => objects = script.latex
OwnTeX ==
  pc \in Tail =>
    /\ has.tex => script.latex
    /\ pc \in WithLatex => opts.inc \/ script.latex
    /\ pc \in WithLatex /\ requires_tex /\ script.latex => has.tex
Figures ==
  /\ pc \in {"incpdf", "eps"} /\ WritesIncEps => File("inceps") = "plain"
  /\ pc \in {"eps", "writeeps", "pdf"} /\ MakesIncPdf => File("incpdf") \in {"plain", "none"}

Exempt == opts.stdout \/ ForeignTeX \/ CairoOnly \/ ~has_eps_or_pdf_based_device
Current == \A d \in Pictures : (Wants(d) => File(d) # "old") /\ buffer[d] # "old"
NotOld == pc \notin {"off", "killed", "start"} /\ ~Exempt => Current

RInv == Drawn /\ OwnTeX /\ Figures /\ NotOld

\* What the exemptions depend on.
Lasting ==
  /\ opts' = opts /\ script' = script
  /\ has'.generated = has.generated /\ File("tex")' = File("tex")

LEMMA LastingExempt == ASSUME Lasting PROVE Exempt' <=> Exempt
BY DEF Lasting, Exempt, ForeignTeX, CairoOnly, has_eps_or_pdf_based_device, Wants

LEMMA NotOldStep ==
  ASSUME NotOld, Lasting, pc \notin {"off", "killed", "start"}, ~Exempt /\ Current => Current'
  PROVE  NotOld'
BY LastingExempt DEF NotOld

\* The rest of a run adds nothing to what has been drawn.
Proceeds ==
  /\ Lasting /\ has'.tex = has.tex
  /\ pc \in Tail /\ pc' \in Tail /\ (pc' \in WithLatex => pc \in WithLatex)
  /\ DOMAIN buffer' = DOMAIN buffer
  /\ pc' \in {"convert", "inceps", "incpdf", "eps"} =>
       pc \in {"convert", "inceps", "incpdf", "eps"} /\ buffer' = buffer

LEMMA ProceedStep == ASSUME RInv, Proceeds PROVE Drawn' /\ OwnTeX'
<1>1. Drawn'
  BY DEF RInv, Drawn, Proceeds, Lasting, Tail, Wants
<1>2. OwnTeX'
  BY DEF RInv, OwnTeX, Proceeds, Lasting, requires_tex, Wants
<1> QED
  BY <1>1, <1>2

LEMMA MadeOf == ASSUME Current, NEW d \in Pictures PROVE Made(d) # "old"
BY DEF Current, Made

LEMMA InExts == Pictures \cup {"tex", "inceps", "incpdf", "ps", "svg", "png"} \subseteq Exts
BY DEF Pictures, Exts, Devices, Temporary

LEMMA SameFigures ==
  ASSUME RInv, Lasting, \A y \in {"inceps", "incpdf"} : File(y)' = File(y),
         pc' \notin {"incpdf", "eps"}, pc' \in {"writeeps", "pdf"} => pc \in {"eps", "writeeps", "pdf"}
  PROVE  Figures'
BY DEF RInv, Figures, Lasting, MakesIncPdf, Wants

LEMMA RConvert == ASSUME IInv, RInv, ConvertEpsToPdf PROVE RInv'
<1>1. /\ UNCHANGED <<opts, script, buffer>> /\ pc = "convert" /\ pc' = "bitmap" /\ HasShape
      /\ has' = has \/ has' = [has EXCEPT !.file = has.file \cup {"pdf"}]
  BY DEF ConvertEpsToPdf, IInv, Typed
<1>2. \A y \in Exts : File(y)' = File(y) \/ (y = "pdf" /\ File(y)' \in {"none", Made("eps")})
  <2>1. CASE Wants("pdf") /\ "pdf" \notin has.generated
    BY <2>1, <1>1, GhostscriptIs DEF ConvertEpsToPdf
  <2>2. CASE ~(Wants("pdf") /\ "pdf" \notin has.generated)
    BY <2>2, <1>1, SameIs DEF ConvertEpsToPdf
  <2> QED
    BY <2>1, <2>2
<1>3. Lasting /\ Proceeds
  BY <1>1, <1>2, InExts, HasAdds DEF Lasting, Proceeds, Tail, WithLatex
<1>4. Current => Current'
  BY <1>1, <1>2, MadeOf, InExts DEF Current, Wants, Pictures
<1>5. NotOld' /\ Figures'
  BY <1>1, <1>2, <1>3, <1>4, NotOldStep, InExts DEF RInv, Figures
<1> QED
  BY <1>3, <1>5, ProceedStep DEF RInv

LEMMA RIncEps == ASSUME IInv, RInv, WriteIncEps PROVE RInv'
<1>1. /\ UNCHANGED <<opts, script, buffer>> /\ pc = "inceps" /\ pc' = "incpdf" /\ HasShape
      /\ has' = has \/ has' = [has EXCEPT !.inc = has.inc \cup {"eps"}]
  BY DEF WriteIncEps, IInv, Typed
<1>2. \A y \in Exts : File(y)' = IF y = "inceps" /\ WritesIncEps THEN Made("eps") ELSE File(y)
  <2>1. CASE WritesIncEps
    BY <2>1, <1>1, PutIs DEF WriteIncEps
  <2>2. CASE ~WritesIncEps
    BY <2>2, <1>1, SameIs DEF WriteIncEps
  <2> QED
    BY <2>1, <2>2
<1>3. Lasting /\ Proceeds
  BY <1>1, <1>2, InExts, HasAdds DEF Lasting, Proceeds, Tail, WithLatex
<1>4. Current => Current'
  BY <1>1, <1>2, InExts DEF Current, Wants, Pictures
<1>5. Figures'
  <2>1. WritesIncEps => Made("eps") = "plain"
    BY <1>1 DEF RInv, Drawn, WritesIncEps, Made, Pictures
  <2>2. WritesIncEps' <=> WritesIncEps
    BY <1>3 DEF WritesIncEps, Lasting
  <2> QED
    BY <2>1, <2>2, <1>1, <1>2, InExts DEF Figures
<1>6. NotOld'
  BY <1>1, <1>3, <1>4, NotOldStep DEF RInv
<1> QED
  BY <1>3, <1>5, <1>6, ProceedStep DEF RInv

LEMMA RIncPdf == ASSUME IInv, RInv, WriteIncPdf PROVE RInv'
<1>1. /\ UNCHANGED <<opts, script, buffer>> /\ pc = "incpdf" /\ pc' \in {"eps", "bitmap"} /\ HasShape
      /\ has' = has \/ has' = [has EXCEPT !.inc = has.inc \cup {"pdf"}]
  BY DEF WriteIncPdf, IInv, Typed
<1>2. \A y \in Exts \ {"incpdf"} : File(y)' = File(y)
  <2>1. CASE MakesIncPdf /\ "pdf" \notin has.generated
    BY <2>1, <1>1, GhostscriptIs DEF WriteIncPdf
  <2>2. CASE MakesIncPdf /\ "pdf" \in has.generated
    BY <2>2, <1>1, PutIs DEF WriteIncPdf
  <2>3. CASE ~MakesIncPdf
    BY <2>3, <1>1, SameIs DEF WriteIncPdf
  <2> QED
    BY <2>1, <2>2, <2>3
<1>3. MakesIncPdf => File("incpdf")' \in {"plain", "none"}
  <2>1. CASE MakesIncPdf /\ "pdf" \notin has.generated
    <3>1. "eps" \in has.generated
      BY <2>1, <1>1 DEF RInv, Drawn, Tail
    <3>2. Made("eps") = "plain"
      BY <3>1, <1>1 DEF RInv, Drawn, Made, Pictures
    <3> QED
      BY <3>2, <2>1, <1>1, InExts, GhostscriptIs DEF WriteIncPdf
  <2>2. CASE MakesIncPdf /\ "pdf" \in has.generated
    <3>1. Made("pdf") = "plain"
      BY <2>2, <1>1 DEF RInv, Drawn, Made, Pictures
    <3> QED
      BY <3>1, <2>2, <1>1, InExts, PutIs DEF WriteIncPdf
  <2> QED
    BY <2>1, <2>2
<1>4. Lasting /\ Proceeds
  BY <1>1, <1>2, InExts, HasAdds DEF Lasting, Proceeds, Tail, WithLatex
<1>5. Current => Current'
  BY <1>1, <1>2, InExts DEF Current, Wants, Pictures
<1>6. Figures'
  <2>1. (WritesIncEps' <=> WritesIncEps) /\ (MakesIncPdf' <=> MakesIncPdf)
    BY <1>4 DEF WritesIncEps, MakesIncPdf, Lasting, Wants
  <2> QED
    BY <2>1, <1>1, <1>2, <1>3, InExts DEF RInv, Figures
<1>7. NotOld'
  BY <1>1, <1>4, <1>5, NotOldStep DEF RInv
<1> QED
  BY <1>4, <1>6, <1>7, ProceedStep DEF RInv

\* LaTeX works on what GLE has made in this run.
LEMMA NewFigure ==
  ASSUME IInv, RInv, ~Exempt, pc \in {"eps", "pdf"}, requires_tex,
         NEW fig \in {"inceps", "incpdf"}, Typesets(fig), File(fig) \in {"plain", "none"}
  PROVE  Typeset(fig) # "old"
<1>1. (opts.inc \/ script.latex) /\ (script.latex => has.tex)
  BY DEF RInv, OwnTeX, Tail, WithLatex
<1>2. CASE script.latex
  <2>1. File("tex") = "own"
    BY <1>1, <1>2 DEF IInv, Owner, Tail, Exempt, File, Stem
  <2> QED
    BY <2>1 DEF Typeset, Typesets
<1>3. CASE ~script.latex
  <2>1. File("tex") = "none"
    BY <1>1, <1>3 DEF Exempt, ForeignTeX
  <2> QED
    BY <2>1 DEF Typesets
<1> QED
  BY <1>2, <1>3

LEMMA EpsFigure ==
  ASSUME IInv, RInv, ~Exempt, pc = "eps", requires_tex_eps, Typesets("inceps")
  PROVE  Typeset("inceps") # "old"
<1>1. requires_tex
  BY DEF requires_tex, requires_tex_eps
<1>2. CASE WritesIncEps
  BY <1>1, <1>2, NewFigure DEF RInv, Figures
<1>3. CASE ~WritesIncEps
  <2>1. "eps" \notin has.generated
    BY <1>3 DEF WritesIncEps, requires_tex_eps, Wants
  <2>2. "pdf" \in has.generated /\ opts.cairo /\ ~Wants("eps")
    BY <2>1 DEF RInv, Drawn, Tail
  <2>3. ~opts.inc /\ ~opts.pdftex
    BY <2>2 DEF requires_tex_eps
  <2>4. script.latex
    BY <2>3 DEF RInv, OwnTeX, Tail, WithLatex
  <2> QED
    BY <2>2, <2>3, <2>4 DEF Exempt, CairoOnly
<1> QED
  BY <1>2, <1>3

LEMMA PdfFigure ==
  ASSUME IInv, RInv, ~Exempt, pc = "pdf", requires_tex_pdf, opts.pdftex, Typesets("incpdf")
  PROVE  Typeset("incpdf") # "old"
<1>1. requires_tex /\ MakesIncPdf
  BY DEF requires_tex, requires_tex_pdf, MakesIncPdf
<1> QED
  BY <1>1, NewFigure DEF RInv, Figures

LEMMA REps == ASSUME IInv, RInv, CreateEps PROVE RInv'
<1>1. UNCHANGED <<opts, script, has>> /\ pc = "eps" /\ pc' \in {"writeeps", "pdf"}
  BY DEF CreateEps
<1>2. CASE requires_tex_eps
  <2>1. PICK fine \in BOOLEAN :
          /\ LatexDvips("eps", fine)
          /\ buffer' = IF fine THEN [buffer EXCEPT !.eps = Typeset("inceps")] ELSE buffer
    BY <1>2 DEF CreateEps
  <2>2. \A y \in Exts \ {"eps", "dvi", "log"} : File(y)' = File(y)
    BY <2>1, <1>1, LatexDvipsIs
  <2>3. Lasting /\ Proceeds
    BY <2>1, <2>2, <1>1, <1>2, InExts DEF Lasting, Proceeds, Tail, WithLatex, CreateEps
  <2>4. ~Exempt /\ Current => Current'
    <3>1. CASE fine
      <4>1. Typesets("inceps")
        BY <2>1, <3>1 DEF LatexDvips, Tool
      <4>2. File("eps")' = Typeset("inceps")
        BY <2>1, <3>1, <1>1, LatexDvipsIs
      <4>3. buffer' = [buffer EXCEPT !.eps = Typeset("inceps")] /\ DOMAIN buffer = Pictures
        BY <2>1, <3>1 DEF RInv, Drawn
      <4> QED
        BY <4>1, <4>2, <4>3, <2>2, <1>1, <1>2, EpsFigure, InExts DEF Current, Wants, Pictures
    <3>2. CASE ~fine
      <4>1. File("eps")' \in {File("eps"), "none"}
        BY <2>1, <3>2, <1>1, LatexDvipsIs
      <4> QED
        BY <4>1, <2>1, <3>2, <2>2, <1>1, InExts DEF Current, Wants, Pictures
    <3> QED
      BY <3>1, <3>2
  <2>5. NotOld' /\ Figures'
    <3>1. \A y \in {"inceps", "incpdf"} : File(y)' = File(y)
      BY <2>2, InExts
    <3> QED
      BY <2>3, <2>4, <3>1, <1>1, NotOldStep, SameFigures DEF RInv
  <2> QED
    BY <2>3, <2>5, ProceedStep DEF RInv
<1>3. CASE ~requires_tex_eps
  <2>1. UNCHANGED <<files, buffer>> /\ pc' = "pdf"
    BY <1>3 DEF CreateEps
  <2>2. Lasting /\ Proceeds /\ \A y : File(y)' = File(y)
    BY <2>1, <1>1, SameIs DEF Lasting, Proceeds, Tail, WithLatex
  <2>3. Current => Current'
    BY <2>1, <2>2, <1>1 DEF Current, Wants
  <2> QED
    BY <2>1, <2>2, <2>3, <1>1, NotOldStep, SameFigures, ProceedStep DEF RInv
<1> QED
  BY <1>2, <1>3

LEMMA RWriteEps == ASSUME IInv, RInv, WriteEps PROVE RInv'
<1>1. /\ UNCHANGED <<opts, script, buffer>> /\ pc = "writeeps" /\ pc' = "pdf" /\ HasShape
      /\ Put("eps", Made("eps")) /\ has' = [has EXCEPT !.file = has.file \cup {"eps"}]
  BY DEF WriteEps, IInv, Typed
<1>2. \A y \in Exts : File(y)' = IF y = "eps" THEN Made("eps") ELSE File(y)
  BY <1>1, PutIs
<1>3. Lasting /\ Proceeds
  BY <1>1, <1>2, InExts, HasAdds DEF Lasting, Proceeds, Tail, WithLatex
<1>4. Current => Current'
  BY <1>1, <1>2, MadeOf, InExts DEF Current, Wants, Pictures
<1>5. \A y \in {"inceps", "incpdf"} : File(y)' = File(y)
  BY <1>2, InExts
<1> QED
  BY <1>1, <1>3, <1>4, <1>5, NotOldStep, SameFigures, ProceedStep DEF RInv

LEMMA RPdf == ASSUME IInv, RInv, CreatePdf PROVE RInv'
<1>1. /\ UNCHANGED <<opts, script>> /\ pc = "pdf" /\ pc' = "ps" /\ HasShape
      /\ has' = has \/ has' = [has EXCEPT !.file = has.file \cup {"pdf"}]
  BY DEF CreatePdf, IInv, Typed
<1>2. CASE requires_tex_pdf /\ opts.pdftex
  <2>1. PICK fine \in BOOLEAN : Pdflatex(fine)
    BY <1>2 DEF CreatePdf
  <2>2. /\ \A y \in Exts \ {"pdf", "log"} : File(y)' = File(y)
        /\ File("pdf")' \in {"none", Typeset("incpdf")} /\ (~fine => File("pdf")' = "none")
        /\ buffer' = IF fine THEN [buffer EXCEPT !.pdf = Typeset("incpdf")] ELSE buffer
    BY <2>1, <1>1, PdflatexIs DEF Pdflatex
  <2>3. fine => Typesets("incpdf")
    BY <2>1 DEF Pdflatex, Tool
  <2>4. Lasting /\ Proceeds
    BY <2>2, <1>1, InExts, HasAdds DEF Lasting, Proceeds, Tail, WithLatex
  <2>5. ~Exempt /\ Current => Current'
    <3>1. CASE fine
      <4>1. ~Exempt => Typeset("incpdf") # "old"
        BY <2>3, <3>1, <1>1, <1>2, PdfFigure
      <4> QED
        BY <4>1, <2>2, <3>1, <1>1, InExts DEF Current, Wants, Pictures, RInv, Drawn
    <3>2. CASE ~fine
      BY <2>2, <3>2, <1>1, InExts DEF Current, Wants, Pictures
    <3> QED
      BY <3>1, <3>2
  <2> QED
    BY <2>2, <2>4, <2>5, <1>1, InExts, NotOldStep, SameFigures, ProceedStep DEF RInv
<1>3. CASE requires_tex_pdf /\ ~opts.pdftex
  <2>1. PICK fine \in BOOLEAN : Ghostscript("pdf", fine, opts.stdout) /\ UNCHANGED buffer
    BY <1>3 DEF CreatePdf
  <2>2. \A y \in Exts : File(y)' = File(y) \/ (y = "pdf" /\ File(y)' \in {"none", Made("eps")})
    BY <2>1, <1>1, GhostscriptIs
  <2>3. Lasting /\ Proceeds
    BY <2>1, <2>2, <1>1, InExts, HasAdds DEF Lasting, Proceeds, Tail, WithLatex
  <2>4. Current => Current'
    BY <2>1, <2>2, <1>1, MadeOf, InExts DEF Current, Wants, Pictures
  <2> QED
    BY <2>2, <2>3, <2>4, <1>1, InExts, NotOldStep, SameFigures, ProceedStep DEF RInv
<1>4. CASE ~requires_tex_pdf
  <2>1. UNCHANGED <<files, buffer>>
    BY <1>4 DEF CreatePdf
  <2>2. Lasting /\ Proceeds /\ \A y : File(y)' = File(y)
    BY <2>1, <1>1, SameIs, HasAdds DEF Lasting, Proceeds, Tail, WithLatex
  <2>3. Current => Current'
    BY <2>1, <2>2, <1>1 DEF Current, Wants
  <2> QED
    BY <2>2, <2>3, <1>1, NotOldStep, SameFigures, ProceedStep DEF RInv
<1> QED
  BY <1>2, <1>3, <1>4

\* The steps after create_latex_eps_ps_pdf's EPS and PDF.
LEMMA ROthers ==
  ASSUME IInv, RInv, UNCHANGED <<opts, script, buffer, has>>,
         pc \in Tail, pc' \in Tail \ {"convert", "inceps", "incpdf", "eps", "writeeps", "pdf"},
         pc' \in WithLatex => pc \in WithLatex,
         File("tex")' = File("tex"),
         \A y \in Pictures : File(y)' = File(y) \/ File(y)' \in {"none", Made(y)}
  PROVE  RInv'
<1>1. Lasting /\ Proceeds
  BY DEF Lasting, Proceeds
<1>2. Current => Current'
  BY MadeOf DEF Current, Wants
<1>3. pc \notin {"off", "killed", "start"}
  BY DEF Tail
<1>4. Figures'
  BY DEF Figures, Tail
<1> QED
  BY <1>1, <1>2, <1>3, <1>4, NotOldStep, ProceedStep DEF RInv

LEMMA RPs == ASSUME IInv, RInv, CreatePs PROVE RInv'
<1>1. UNCHANGED <<opts, script, buffer, has>> /\ pc = "ps" /\ pc' \in {"catps", "bitmap"}
  BY DEF CreatePs
<1>2. \A y \in Exts \ {"ps", "dvi", "log"} : File(y)' = File(y)
  <2>1. CASE Wants("ps")
    BY <2>1, <1>1, LatexDvipsIs DEF CreatePs
  <2>2. CASE ~Wants("ps")
    BY <2>2, <1>1, SameIs DEF CreatePs
  <2> QED
    BY <2>1, <2>2
<1> QED
  BY <1>1, <1>2, ROthers, InExts DEF Tail, WithLatex, Pictures

LEMMA RCatPs == ASSUME IInv, RInv, CatPs PROVE RInv'
<1>1. UNCHANGED <<opts, script, buffer, has>> /\ pc = "catps" /\ pc' = "bitmap"
  BY DEF CatPs
<1>2. \A y \in Exts \ {"ps"} : File(y)' = File(y)
  <2>1. CASE opts.stdout
    <3>1. files' = Without({"ps"})
      BY <2>1 DEF CatPs
    <3> QED
      BY <3>1, <1>1, WithoutIs
  <2>2. CASE ~opts.stdout
    BY <2>2, <1>1, SameIs DEF CatPs
  <2> QED
    BY <2>1, <2>2
<1> QED
  BY <1>1, <1>2, ROthers, InExts DEF Tail, WithLatex, Pictures

LEMMA RBitmap == ASSUME IInv, RInv, CreateBitmap PROVE RInv'
<1>1. UNCHANGED <<opts, script, buffer, has>> /\ pc = "bitmap" /\ pc' = "recordeps"
  BY DEF CreateBitmap
<1>2. UNCHANGED files \/ \E c : Put("png", c)
  BY DEF CreateBitmap
<1>3. \A y \in Exts \ {"png"} : File(y)' = File(y)
  BY <1>1, <1>2, SameIs, PutIs
<1> QED
  BY <1>1, <1>3, ROthers, InExts DEF Tail, WithLatex, Pictures

LEMMA RRecord == ASSUME IInv, RInv, RecordEps \/ RecordPdf PROVE RInv'
<1>1. /\ UNCHANGED <<opts, script, buffer, has>> /\ pc \in {"recordeps", "recordpdf"} /\ pc' \in {"recordpdf", "delete"}
      /\ \E d \in Pictures : write_recorded_data(d)
  BY DEF RecordEps, RecordPdf, Pictures
<1>2. PICK d \in Pictures : UNCHANGED files \/ Put(d, Made(d))
  BY <1>1 DEF write_recorded_data
<1>3. \A y \in Exts : File(y)' = File(y) \/ (y = d /\ File(y)' = Made(y))
  BY <1>1, <1>2, SameIs, PutIs
<1> QED
  BY <1>1, <1>3, ROthers, InExts DEF Tail, WithLatex, Pictures

LEMMA RDelete == ASSUME IInv, RInv, delete_original_eps_pdf PROVE RInv'
<1>1. /\ UNCHANGED <<opts, script, buffer, has>> /\ pc = "delete" /\ pc' = "clean" /\ files' = Without(Originals)
      /\ "tex" \notin Originals
  BY DEF delete_original_eps_pdf, Originals, IInv, Typed, HasShape
<1>2. \A y \in Exts : File(y)' = IF y \in Originals /\ ~opts.keep THEN "none" ELSE File(y)
  BY <1>1, WithoutIs
<1> QED
  BY <1>1, <1>2, ROthers, InExts DEF Tail, WithLatex

\* The .tex file that is removed is not one that has exempted the run.
LEMMA RClean == ASSUME IInv, RInv, clean_tex_temp_files PROVE RInv'
<1> DEFINE T == IF has.latex THEN TempFiles ELSE {}
<1>1. /\ UNCHANGED <<opts, script, buffer, has>> /\ pc = "clean" /\ pc' = "plainps" /\ files' = Without(T)
      /\ T \subseteq {"inceps", "incpdf", "tex"} /\ ("tex" \in T => has.tex)
  BY DEF clean_tex_temp_files, TempFiles
<1>2. \A y \in Exts : File(y)' = IF y \in T /\ ~opts.keep THEN "none" ELSE File(y)
  <2> HIDE DEF T
  <2> QED BY <1>1, WithoutIs
<1>3. "tex" \in T => script.latex
  BY <1>1 DEF RInv, OwnTeX, Tail
<1> HIDE DEF T
<1>4. ForeignTeX' <=> ForeignTeX
  BY <1>1, <1>2, <1>3, InExts DEF ForeignTeX
<1>5. Exempt' <=> Exempt
  BY <1>1, <1>4 DEF Exempt, CairoOnly, has_eps_or_pdf_based_device, Wants
<1>6. Current => Current'
  BY <1>1, <1>2, InExts DEF Current, Wants, Pictures
<1>7. NotOld'
  BY <1>1, <1>5, <1>6 DEF RInv, NotOld
<1>8. Drawn' /\ OwnTeX' /\ Figures'
  BY <1>1 DEF RInv, Drawn, OwnTeX, Figures, Tail
<1> QED
  BY <1>7, <1>8 DEF RInv

LEMMA RPlain == ASSUME IInv, RInv, PlainPs \/ Svg PROVE RInv'
<1>1. /\ UNCHANGED <<opts, script, buffer, has>> /\ pc \in {"plainps", "svg"} /\ pc' \in {"svg", "failed", "done", "nosvg"}
      /\ UNCHANGED files \/ \E d \in {"ps", "svg"} : \E c : Put(d, c)
  BY DEF PlainPs, Svg
<1>2. \A y \in Exts \ {"ps", "svg"} : File(y)' = File(y)
  BY <1>1, SameIs, PutIs
<1>3. Lasting /\ (Current => Current')
  BY <1>1, <1>2, InExts DEF Lasting, Current, Wants, Pictures
<1>4. Drawn' /\ OwnTeX' /\ Figures'
  BY <1>1 DEF RInv, Drawn, OwnTeX, Figures, Tail
<1> QED
  BY <1>1, <1>3, <1>4, NotOldStep DEF RInv

LEMMA RStopped == ASSUME IInv, RInv, CannotWrite \/ Kill PROVE RInv'
<1>1. /\ UNCHANGED <<opts, script, buffer, has, files>> /\ pc' \in {"failed", "killed"}
      /\ pc' = "failed" => pc \notin {"off", "killed", "start"}
  BY DEF CannotWrite, Kill
<1>2. Lasting /\ (Current => Current')
  BY <1>1, SameIs DEF Lasting, Current, Wants
<1>3. Drawn' /\ OwnTeX' /\ Figures'
  BY <1>1 DEF RInv, Drawn, OwnTeX, Figures, Tail
<1>4. NotOld'
  BY <1>1, <1>2, NotOldStep DEF RInv, NotOld
<1> QED
  BY <1>3, <1>4 DEF RInv

\* The beginning of a run.
LEMMA RLoad == ASSUME IInv, RInv, LoadOneFile \/ Exit PROVE RInv'
<1>1. pc' \in {"start", "off"} /\ buffer' = NoBuffer /\ has'.generated = {}
  BY DEF LoadOneFile, Exit, Fresh, HasNothing
<1> QED
  BY <1>1 DEF RInv, Drawn, NoBuffer, Pictures, OwnTeX, Figures, NotOld, Tail

LEMMA ROnlyPlain == ASSUME IInv, RInv, OnlyPlain PROVE RInv'
<1>1. UNCHANGED <<opts, buffer>> /\ pc' = "plainps" /\ ~has_eps_or_pdf_based_device
  BY DEF OnlyPlain
<1>2. Exempt'
  BY <1>1 DEF Exempt, has_eps_or_pdf_based_device, Wants
<1> QED
  BY <1>1, <1>2 DEF RInv, Drawn, OwnTeX, Figures, NotOld, Tail

LEMMA RDeletePrevious == ASSUME IInv, RInv, delete_previous_output PROVE RInv'
<1> DEFINE f == [x \in Exts |-> IF x \in PreviousOutputs /\ Wants(x) THEN "none" ELSE files.out[x]]
<1>1. UNCHANGED <<opts, buffer, has>> /\ pc = "start" /\ pc' = "draw"
  BY DEF delete_previous_output
<1>2. buffer' = NoBuffer /\ has'.generated = {}
  BY <1>1 DEF RInv, Drawn
<1>3. ~Exempt' => Current'
  <2>1. CASE opts.stdout
    BY <1>1, <2>1 DEF Exempt
  <2>2. CASE ~opts.stdout
    <3>1. files' = [files EXCEPT ![Stem] = f]
      BY <2>2 DEF delete_previous_output, Stem
    <3>2. \A y : File(y)' = f[y]
      <4> HIDE DEF f
      <4> QED BY <3>1, <1>1, StemIs
    <3>3. \A d \in Pictures : Wants(d) => f[d] = "none"
      BY InExts DEF PreviousOutputs, Pictures
    <3> QED
      BY <3>2, <3>3, <1>1, <1>2 DEF Current, Wants, NoBuffer, Pictures
  <2> QED
    BY <2>1, <2>2
<1> QED
  BY <1>1, <1>2, <1>3 DEF RInv, Drawn, NoBuffer, Pictures, OwnTeX, Figures, NotOld, Tail

LEMMA RDraw == ASSUME IInv, RInv, Draw PROVE RInv'
<1>1. /\ UNCHANGED <<opts, script, files>> /\ pc = "draw" /\ pc' \in {"tex", "failed"} /\ HasShape
      /\ buffer = NoBuffer /\ has.generated = {} /\ objects' = script.latex
  BY DEF Draw, IInv, Typed, RInv, Drawn
<1>2. \A y : File(y)' = File(y)
  BY <1>1, SameIs
<1>3. ~Exempt' => ~Exempt
  BY <1>1, <1>2 DEF Exempt, ForeignTeX, CairoOnly, has_eps_or_pdf_based_device, Wants
<1>4. ~Exempt' => \A d \in Pictures : Wants(d) => File(d) # "old"
  BY <1>1, <1>3 DEF RInv, NotOld, Current
<1>5. OwnTeX' /\ Figures'
  BY <1>1 DEF OwnTeX, Figures, Tail
<1>6. CASE script.error # "none"
  <2>1. pc' = "failed" /\ UNCHANGED <<buffer, has>>
    BY <1>6 DEF Draw
  <2> QED
    BY <2>1, <1>1, <1>2, <1>4, <1>5 DEF RInv, Drawn, NotOld, Current, Wants, NoBuffer, Pictures, Tail
<1>7. CASE ~(script.error # "none")
  <2> DEFINE first == IF has_cairo_pdf_based_device THEN "pdf" ELSE "eps"
             all == {first} \cup IF Wants("eps") /\ opts.cairo THEN {"eps"} ELSE {}
  <2>1. /\ pc' = "tex" /\ has' = [has EXCEPT !.generated = all]
        /\ buffer' = [b \in DOMAIN buffer |-> IF b \in all THEN "plain" ELSE "none"]
    BY <1>7 DEF Draw
  <2>2. DOMAIN buffer = Pictures
    BY DEF RInv, Drawn
  <2>3. "eps" \notin all => "pdf" \in all /\ opts.cairo /\ ~Wants("eps")
    BY DEF has_cairo_pdf_based_device
  <2>4. has'.generated = all
    BY <2>1, <1>1 DEF HasShape
  <2> HIDE DEF all
  <2>5. Drawn'
    BY <2>1, <2>2, <2>3, <2>4, <1>1 DEF Drawn, Wants
  <2>6. NotOld'
    BY <2>1, <2>2, <1>1, <1>2, <1>4 DEF NotOld, Current, Wants
  <2> QED
    BY <2>5, <2>6, <1>5 DEF RInv
<1> QED
  BY <1>6, <1>7

LEMMA RTeX == ASSUME IInv, RInv, CreateTeX PROVE RInv'
<1>1. /\ UNCHANGED <<opts, script, buffer>> /\ pc = "tex" /\ pc' \in {"refused", "inceps", "convert"} /\ HasShape
      /\ objects = script.latex
  BY DEF CreateTeX, IInv, Typed, RInv, Drawn
<1>2. /\ has'.generated = has.generated
      /\ pc' # "refused" => /\ has'.tex <=> objects /\ requires_tex
                            /\ pc' = "inceps" => opts.inc \/ objects
  <2>1. \/ UNCHANGED has /\ pc' = "refused"
        \/ /\ has' = [has EXCEPT !.tex = objects /\ requires_tex, !.latex = opts.inc \/ objects]
           /\ pc' = "inceps" => opts.inc \/ objects
    BY DEF CreateTeX
  <2> QED
    BY <2>1, <1>1 DEF HasShape
<1>3. File("tex")' # File("tex") => script.latex
  BY <1>1, <1>2, TeXIs
<1>4. Exempt' <=> Exempt
  BY <1>1, <1>2, <1>3 DEF Exempt, ForeignTeX, CairoOnly, has_eps_or_pdf_based_device, Wants
<1>5. Current => Current'
  BY <1>1, TeXIs, InExts DEF Current, Wants, Pictures
<1>6. NotOld'
  BY <1>1, <1>4, <1>5 DEF RInv, NotOld
<1>7. Drawn'
  BY <1>1, <1>2 DEF RInv, Drawn, Wants, Tail
<1>8. OwnTeX'
  BY <1>1, <1>2 DEF OwnTeX, WithLatex, Tail, requires_tex, Wants
<1>9. Figures'
  BY <1>1 DEF Figures
<1> QED
  BY <1>6, <1>7, <1>8, <1>9 DEF RInv

LEMMA RStep == ASSUME IInv, RInv, [Next]_vars PROVE RInv'
<1>1. CASE UNCHANGED vars
  <2>1. UNCHANGED <<pc, opts, script, files, buffer, has, objects>>
    BY <1>1 DEF vars
  <2>2. Lasting /\ \A y : File(y)' = File(y)
    BY <2>1, SameIs DEF Lasting
  <2>3. NotOld'
    BY <2>1, <2>2, LastingExempt DEF RInv, NotOld, Current, Wants
  <2>4. Drawn' /\ OwnTeX' /\ Figures'
    BY <2>1, <2>2 DEF RInv, Drawn, OwnTeX, Figures, Wants, requires_tex, WritesIncEps, MakesIncPdf
  <2> QED
    BY <2>3, <2>4 DEF RInv
<1>2. CASE LoadOneFile \/ Exit \/ delete_previous_output \/ OnlyPlain \/ Draw \/ CreateTeX
  BY <1>2, RLoad, RDeletePrevious, ROnlyPlain, RDraw, RTeX
<1>3. CASE ConvertEpsToPdf \/ WriteIncEps \/ WriteIncPdf \/ CreateEps \/ WriteEps \/ CreatePdf
  BY <1>3, RConvert, RIncEps, RIncPdf, REps, RWriteEps, RPdf
<1>4. CASE CreatePs \/ CatPs \/ CreateBitmap \/ RecordEps \/ RecordPdf \/ delete_original_eps_pdf \/ clean_tex_temp_files
  BY <1>4, RPs, RCatPs, RBitmap, RRecord, RDelete, RClean
<1>5. CASE PlainPs \/ Svg \/ CannotWrite \/ Kill
  BY <1>5, RPlain, RStopped
<1> QED
  BY <1>1, <1>2, <1>3, <1>4, <1>5 DEF Next

LEMMA InitRInv == Init => RInv
BY DEF Init, RInv, Drawn, NoBuffer, Pictures, OwnTeX, Figures, NotOld, Tail

\* However a run ends, with whatever was there before it, the EPS and the PDF it
\* was asked for are not those of an earlier run.
THEOREM NothingOfBefore == Spec => []NoPreviousOutput
<1>1. Init => RInv
  BY InitRInv
<1>2. IInv /\ RInv /\ [Next]_vars => RInv'
  BY RStep
<1>3. RInv => NoPreviousOutput
  <2>1. ASSUME NotOld, pc \in {"done", "failed", "refused", "nosvg"}, ~opts.stdout, ~ForeignTeX, ~CairoOnly,
               has_eps_or_pdf_based_device, NEW d \in {"eps", "pdf"} \cap opts.devices
        PROVE  files.out[d] # "old"
    BY <2>1 DEF NotOld, Exempt, Current, Wants, Pictures, File, Stem
  <2> QED
    BY <2>1 DEF RInv, NoPreviousOutput
<1> QED
  BY <1>1, <1>2, <1>3, AlwaysIInv, PTL DEF Spec
-----------------------------------------------------------------------------
(* A script that is done has made what the command line asks for: for every *)
(* combination of output formats and options, whatever earlier runs left.   *)

Early == {"start", "draw", "tex", "convert", "inceps", "incpdf", "eps", "writeeps"}
AfterEps == {"pdf", "ps", "catps", "bitmap", "recordeps"}
AfterPdf == {"ps", "catps", "bitmap", "recordeps", "recordpdf"}
End == {"delete", "clean", "plainps", "svg", "done"}
AfterTeX == Tail \cup {"plainps", "svg", "done"}

\* No tool has failed; and the run is none of the gaps that are known.
Smooth == "tool" \notin troubled
Regular == Smooth /\ ~opts.nosave /\ ~ForeignTeX /\ ~CairoOnly
Text == IF script.latex THEN "full" ELSE "plain"
Out(d) == IF opts.stdout THEN printed[d] ELSE File(d)

Bookkeeping ==
  /\ DOMAIN printed = Devices
  /\ has.file \subseteq Pictures
  /\ pc \in Early => has.file = {}
  /\ pc \in Early \cup {"pdf"} /\ opts.stdout => File("pdf") = "none"
  /\ pc \in Tail /\ has.tex => File("tex") = "own"
  /\ pc = "convert" => ~opts.inc /\ ~script.latex
  /\ pc \in Tail \cup {"tex"} /\ "pdf" \in has.generated => opts.cairo

\* The figures LaTeX includes are those without their texts ...
Includes ==
  /\ pc \in {"incpdf", "eps", "writeeps", "pdf", "ps"} /\ WritesIncEps => File("inceps") = "plain"
  /\ pc \in {"eps", "writeeps", "pdf"} /\ MakesIncPdf /\ Smooth => File("incpdf") = "plain"
\* ... and stay for the user who has asked for them.
IncDone ==
  opts.inc =>
    /\ pc \in AfterTeX /\ (Wants("eps") \/ Wants("pdf")) => File("inc") = "own"
    /\ pc \in AfterTeX \ {"inceps"} /\ Wants("eps") => File("inceps") = "plain"
    /\ pc \in AfterTeX \ {"inceps", "incpdf"} /\ Wants("pdf") /\ Smooth => File("incpdf") = "plain"

(***************************************************************************)
(* RequestedDone speaks of the end.  Before, each format is as far as the   *)
(* steps so far have brought it: in a buffer, in a file that is known of,   *)
(* or where it was asked for.                                               *)
(***************************************************************************)
Buffers ==
  /\ pc \in {"writeeps", "pdf"} => buffer["pdf"] = IF "pdf" \in has.generated THEN "plain" ELSE "none"
  /\ pc \in AfterEps \cup {"writeeps", "recordpdf"} /\ "eps" \in has.generated /\ (script.latex => requires_tex_eps)
       => buffer["eps"] = Text
  /\ pc \in AfterPdf /\ "pdf" \in has.generated /\ (script.latex => requires_tex_pdf) => buffer["pdf"] = Text
  /\ pc \in AfterPdf /\ "pdf" \notin has.generated => buffer["pdf"] \in {"none", Text}
EpsComes == ~opts.inc /\ Wants("eps") =>
  /\ pc \in AfterEps => ("eps" \in has.file => File("eps") = Text) /\ (script.latex => "eps" \in has.file)
  /\ pc \in {"recordpdf"} \cup End => Out("eps") = Text
PdfComes == ~opts.inc /\ Wants("pdf") =>
  /\ pc \in AfterPdf =>
       IF "pdf" \in has.file THEN File("pdf") = Text \/ (opts.stdout /\ File("pdf") = "none" /\ printed["pdf"] = Text)
       ELSE ~script.latex /\ "pdf" \in has.generated
  /\ pc \in End => Out("pdf") = Text
PngComes == Wants("png") /\ pc \in {"recordeps", "recordpdf"} \cup End => Out("png") = Text \/ PopplerFile("png")
PsComes == Wants("ps") =>
  /\ opts.tex /\ script.latex /\ pc = "catps" => File("ps") = "full"
  /\ opts.tex /\ script.latex /\ pc \in {"bitmap", "recordeps", "recordpdf"} \cup End => Out("ps") = "full"
  /\ ~opts.tex /\ pc \in {"svg", "done"} => Out("ps") = Figure
SvgComes == Wants("svg") /\ pc = "done" => Out("svg") = Figure
Coming == Buffers /\ EpsComes /\ PdfComes /\ PngComes /\ PsComes /\ SvgComes

BInv == Bookkeeping /\ Includes /\ IncDone
QInv == BInv /\ (Regular => Coming)

-----------------------------------------------------------------------------
LEMMA OptionTypes ==
  ASSUME IInv
  PROVE  /\ opts.stdout \in BOOLEAN /\ opts.inc \in BOOLEAN /\ opts.pdftex \in BOOLEAN /\ opts.tex \in BOOLEAN
         /\ opts.cairo \in BOOLEAN /\ opts.nosave \in BOOLEAN /\ opts.keep \in BOOLEAN
         /\ opts.devices \subseteq Devices
BY OptionsAssumption DEF IInv, Typed, Option

LEMMA LastingNeeds ==
  ASSUME Lasting
  PROVE  /\ requires_tex' <=> requires_tex
         /\ requires_tex_eps' <=> requires_tex_eps
         /\ requires_tex_pdf' <=> requires_tex_pdf
         /\ WritesIncEps' <=> WritesIncEps
         /\ MakesIncPdf' <=> MakesIncPdf
         /\ Text' = Text /\ Figure' = Figure
         /\ \A d : Wants(d)' <=> Wants(d)
BY DEF Lasting, requires_tex, requires_tex_eps, requires_tex_pdf, WritesIncEps, MakesIncPdf, Text, Figure, Wants

LEMMA LastingRegular ==
  ASSUME Lasting, Smooth' => Smooth
  PROVE  Regular' => Regular
BY DEF Lasting, Regular, ForeignTeX, CairoOnly

LEMMA ToolSmooth ==
  ASSUME NEW able, NEW fine \in BOOLEAN, Tool(able, fine)
  PROVE  /\ Smooth' => Smooth
         /\ Smooth' /\ able => fine
         /\ fine => able
BY DEF Tool, Smooth

LEMMA GhostscriptDoes ==
  ASSUME IInv, Bookkeeping, NEW x \in Exts, NEW fine \in BOOLEAN, NEW print, Ghostscript(x, fine, print), opts' = opts
  PROVE  /\ Smooth' => Smooth /\ fine
         /\ DOMAIN printed' = Devices /\ \A d \in Devices : d # "pdf" => printed'[d] = printed[d]
         /\ \A y \in Exts : y # x \/ print => File(y)' = File(y)
         /\ fine /\ print => printed'["pdf"] = Made("eps")
         /\ fine /\ ~print => File(x)' = Made("eps")
<1>1. Smooth' => Smooth /\ fine
  BY ToolSmooth DEF Ghostscript
<1>2. DOMAIN printed = Devices /\ "pdf" \in Devices
  BY DEF Bookkeeping, Devices
<1>3. CASE print
  <2>1. printed' = [printed EXCEPT !["pdf"] = IF fine THEN Made("eps") ELSE printed["pdf"]] /\ UNCHANGED files
    BY <1>3 DEF Ghostscript
  <2> QED
    BY <2>1, <1>1, <1>2, <1>3, SameIs
<1>4. CASE ~print
  <2>1. Put(x, IF fine THEN Made("eps") ELSE "none") /\ UNCHANGED printed
    BY <1>4 DEF Ghostscript
  <2>2. \A y \in Exts : File(y)' = IF y = x THEN IF fine THEN Made("eps") ELSE "none" ELSE File(y)
    BY <2>1, PutIs
  <2> QED
    BY <2>1, <2>2, <1>1, <1>2, <1>4
<1> QED
  BY <1>3, <1>4

\* LaTeX'ing the .tex file of this run with the figure of this run.
LEMMA Full ==
  ASSUME IInv, RInv, Bookkeeping, Regular, pc \in {"eps", "pdf", "ps"}, requires_tex,
         NEW fig \in {"inceps", "incpdf"}, File(fig) = "plain"
  PROVE  /\ script.latex => Typesets(fig) /\ Typeset(fig) = "full"
         /\ ~script.latex => ~Typesets(fig)
<1>1. (opts.inc \/ script.latex) /\ (script.latex => has.tex)
  BY DEF RInv, OwnTeX, Tail, WithLatex
<1>2. CASE script.latex
  <2>1. File("tex") = "own"
    BY <1>1, <1>2 DEF Bookkeeping, Tail
  <2> QED
    BY <2>1, <1>2 DEF Typeset, Typesets
<1>3. CASE ~script.latex
  <2>1. File("tex") = "none"
    BY <1>1, <1>3 DEF Regular, ForeignTeX
  <2> QED
    BY <2>1, <1>3 DEF Typesets
<1> QED
  BY <1>2, <1>3

-----------------------------------------------------------------------------
LEMMA QConvert == ASSUME IInv, RInv, QInv, ConvertEpsToPdf PROVE QInv'
<1>1. /\ UNCHANGED <<opts, script, buffer>> /\ pc = "convert" /\ pc' = "bitmap" /\ HasShape
      /\ ~opts.inc /\ ~script.latex /\ has.file = {} /\ Bookkeeping
      /\ (opts.stdout => File("pdf") = "none")
  BY DEF ConvertEpsToPdf, IInv, Typed, QInv, BInv, Bookkeeping, Early
<1> DEFINE makes == Wants("pdf") /\ "pdf" \notin has.generated
<1>2. /\ DOMAIN printed' = Devices
      /\ \A y \in Exts : y # "pdf" => File(y)' = File(y)
      /\ has'.file = IF makes THEN {"pdf"} ELSE {}
      /\ has'.generated = has.generated /\ has'.tex = has.tex
      /\ makes /\ Smooth' /\ opts.stdout => File("pdf")' = "none" /\ printed'["pdf"] = Made("eps")
      /\ makes /\ Smooth' /\ ~opts.stdout => File("pdf")' = Made("eps")
  <2>1. CASE makes
    <3>1. PICK fine \in BOOLEAN : Ghostscript("pdf", fine, opts.stdout)
      BY <2>1 DEF ConvertEpsToPdf
    <3>2. has' = [has EXCEPT !.file = has.file \cup {"pdf"}]
      BY <2>1 DEF ConvertEpsToPdf
    <3>3. has'.file = {"pdf"} /\ has'.generated = has.generated /\ has'.tex = has.tex
      BY <3>2, <1>1 DEF HasShape
    <3> QED
      BY <3>1, <3>3, <2>1, <1>1, GhostscriptDoes, InExts DEF Pictures
  <2>2. CASE ~makes
    BY <2>2, <1>1, SameIs DEF ConvertEpsToPdf, Bookkeeping
  <2> QED
    BY <2>1, <2>2
<1>3. "eps" \in has.generated => buffer["eps"] = "plain"
  BY <1>1 DEF RInv, Drawn, Pictures
<1>4. "pdf" \in has.generated => buffer["pdf"] = "plain"
  BY <1>1 DEF RInv, Drawn, Pictures
<1>5. "pdf" \notin has.generated => buffer["pdf"] = "none" /\ "eps" \in has.generated
  BY <1>1 DEF RInv, Drawn, Pictures, Tail
<1>6. makes => Made("eps") = "plain"
  BY <1>3, <1>5 DEF Made
<1>7. BInv'
  BY <1>1, <1>2, InExts DEF BInv, Bookkeeping, Includes, IncDone, Early, Pictures, QInv, Tail
<1>8. ASSUME Smooth' PROVE Coming'
  <2>1. Buffers'
    BY <1>1, <1>2, <1>3, <1>4, <1>5 DEF Buffers, Text
  <2>2. EpsComes'
    BY <1>1, <1>2 DEF EpsComes, End
  <2>3. PdfComes'
    BY <1>1, <1>2, <1>6, <1>8 DEF PdfComes, End, Text, Wants
  <2>4. PngComes' /\ PsComes' /\ SvgComes'
    BY <1>1 DEF PngComes, PsComes, SvgComes, End
  <2> QED
    BY <2>1, <2>2, <2>3, <2>4 DEF Coming
<1> QED
  BY <1>7, <1>8 DEF QInv, Regular

\* Before create_latex_eps_ps_pdf makes anything, nothing has to come yet.
LEMMA NothingYetComes ==
  ASSUME pc' \in {"start", "draw", "tex", "convert", "inceps", "incpdf", "eps"}
  PROVE  Coming'
BY DEF Coming, Buffers, EpsComes, PdfComes, PngComes, PsComes, SvgComes, AfterEps, AfterPdf, End

LEMMA QIncEps == ASSUME IInv, RInv, QInv, WriteIncEps PROVE QInv'
<1>1. /\ UNCHANGED <<opts, script, buffer, printed, troubled>> /\ pc = "inceps" /\ pc' = "incpdf" /\ HasShape
      /\ has' = has \/ has' = [has EXCEPT !.inc = has.inc \cup {"eps"}]
      /\ Bookkeeping
  BY DEF WriteIncEps, IInv, Typed, counts, QInv, BInv
<1>2. \A y \in Exts : File(y)' = IF y = "inceps" /\ WritesIncEps THEN Made("eps") ELSE File(y)
  <2>1. CASE WritesIncEps
    BY <2>1, <1>1, PutIs DEF WriteIncEps
  <2>2. CASE ~WritesIncEps
    BY <2>2, <1>1, SameIs DEF WriteIncEps
  <2> QED
    BY <2>1, <2>2
<1>3. has'.tex = has.tex /\ has'.generated = has.generated /\ has'.file = has.file
  BY <1>1 DEF HasShape
<1>4. Lasting
  BY <1>1, <1>2, <1>3, InExts DEF Lasting
<1>5. WritesIncEps => Made("eps") = "plain"
  BY <1>1 DEF RInv, Drawn, WritesIncEps, Made, Pictures
<1>6. {"eps", "pdf", "tex", "inc", "inceps"} \subseteq Exts
  BY DEF Exts, Devices, Temporary
<1>7. opts.inc /\ Wants("eps") => WritesIncEps
  BY <1>1 DEF RInv, Drawn, Tail, WritesIncEps, Wants
<1>8. Bookkeeping'
  BY <1>1, <1>2, <1>3, <1>6 DEF Bookkeeping, Early, Tail
<1>9. Includes' /\ IncDone'
  BY <1>1, <1>2, <1>4, <1>5, <1>6, <1>7, LastingNeeds DEF Includes, IncDone, QInv, BInv, AfterTeX, Tail
<1> QED
  BY <1>1, <1>8, <1>9, NothingYetComes DEF QInv, BInv

LEMMA QIncPdf == ASSUME IInv, RInv, QInv, WriteIncPdf PROVE QInv'
<1>1. /\ UNCHANGED <<opts, script, buffer>> /\ pc = "incpdf" /\ HasShape
      /\ pc' = IF requires_tex_eps \/ requires_tex_pdf \/ Wants("ps") THEN "eps" ELSE "bitmap"
      /\ has' = has \/ has' = [has EXCEPT !.inc = has.inc \cup {"pdf"}]
      /\ Bookkeeping /\ has.file = {}
  BY DEF WriteIncPdf, IInv, Typed, QInv, BInv, Bookkeeping, Early
<1>2. {"eps", "pdf", "tex", "inc", "inceps", "incpdf"} \subseteq Exts
  BY DEF Exts, Devices, Temporary
<1>3. "pdf" \notin has.generated => Made("eps") = "plain"
  BY <1>1 DEF RInv, Drawn, Made, Pictures, Tail
<1>4. "pdf" \in has.generated => Made("pdf") = "plain"
  BY <1>1 DEF RInv, Drawn, Made, Pictures
<1>5. /\ \A y \in Exts \ {"incpdf"} : File(y)' = File(y)
      /\ MakesIncPdf /\ Smooth' => File("incpdf")' = "plain"
      /\ Smooth' => Smooth
      /\ DOMAIN printed' = Devices
  <2>1. CASE MakesIncPdf /\ "pdf" \notin has.generated
    <3>1. PICK fine \in BOOLEAN : Ghostscript("incpdf", fine, FALSE)
      BY <2>1 DEF WriteIncPdf
    <3>2. /\ Smooth' => Smooth /\ fine
          /\ DOMAIN printed' = Devices
          /\ \A y \in Exts : y # "incpdf" \/ FALSE => File(y)' = File(y)
          /\ fine /\ ~FALSE => File("incpdf")' = Made("eps")
      BY <3>1, <1>1, <1>2, GhostscriptDoes
    <3> QED
      BY <3>2, <2>1, <1>3
  <2>2. CASE MakesIncPdf /\ "pdf" \in has.generated
    <3>1. Put("incpdf", Made("pdf")) /\ UNCHANGED <<printed, troubled>>
      BY <2>2 DEF WriteIncPdf, counts
    <3> QED
      BY <3>1, <2>2, <1>1, <1>2, <1>4, PutIs DEF Smooth, Bookkeeping
  <2>3. CASE ~MakesIncPdf
    BY <2>3, <1>1, SameIs DEF WriteIncPdf, counts, Smooth, Bookkeeping
  <2> QED
    BY <2>1, <2>2, <2>3
<1>6. has'.tex = has.tex /\ has'.generated = has.generated /\ has'.file = has.file
  BY <1>1 DEF HasShape
<1>7. Lasting
  BY <1>1, <1>2, <1>5, <1>6 DEF Lasting
<1>8. opts.inc /\ Wants("pdf") => MakesIncPdf
  BY DEF MakesIncPdf
<1>9. Bookkeeping'
  BY <1>1, <1>2, <1>5, <1>6 DEF Bookkeeping, Early, Tail
<1>10. Includes' /\ IncDone'
  BY <1>1, <1>2, <1>5, <1>7, <1>8, LastingNeeds DEF Includes, IncDone, QInv, BInv, AfterTeX, Tail
<1>11. CASE pc' = "eps"
  BY <1>9, <1>10, <1>11, NothingYetComes DEF QInv, BInv
\* Without LaTeX there are only bitmaps of plain figures, and -inc.
<1>12. CASE pc' = "bitmap"
  <2>1. ~requires_tex_eps /\ ~requires_tex_pdf /\ ~Wants("ps")
    BY <1>1, <1>12
  <2>2. opts.inc \/ (~Wants("eps") /\ ~Wants("pdf"))
    BY <2>1 DEF requires_tex_eps, requires_tex_pdf
  <2>3. Buffers'
    BY <2>1, <1>1, <1>6, <1>7, <1>12, LastingNeeds DEF Buffers, Text, RInv, Drawn, Pictures, AfterPdf
  <2>4. EpsComes' /\ PdfComes' /\ PngComes' /\ PsComes' /\ SvgComes'
    BY <2>1, <2>2, <1>1, <1>7, <1>12, LastingNeeds DEF EpsComes, PdfComes, PngComes, PsComes, SvgComes, End
  <2> QED
    BY <2>3, <2>4, <1>9, <1>10 DEF QInv, BInv, Coming
<1> QED
  BY <1>1, <1>11, <1>12

LEMMA QEps == ASSUME IInv, RInv, QInv, CreateEps PROVE QInv'
<1>1. /\ UNCHANGED <<opts, script, has, printed>> /\ pc = "eps"
      /\ pc' = IF requires_tex_eps THEN "writeeps" ELSE "pdf"
      /\ Bookkeeping /\ has.file = {} /\ DOMAIN buffer = Pictures
  BY DEF CreateEps, QInv, BInv, Bookkeeping, Early, RInv, Drawn
<1>2. {"eps", "pdf", "tex", "inc", "inceps", "incpdf"} \subseteq Exts \ {"dvi", "log"}
  BY DEF Exts, Devices, Temporary
<1>3. /\ \A y \in Exts \ {"eps", "dvi", "log"} : File(y)' = File(y)
      /\ Smooth' => Smooth
      /\ buffer' = buffer \/ (requires_tex_eps /\ buffer' = [buffer EXCEPT !.eps = Typeset("inceps")] /\ Typesets("inceps"))
      /\ requires_tex_eps /\ Smooth' /\ Typesets("inceps") => buffer' = [buffer EXCEPT !.eps = Typeset("inceps")]
  <2>1. CASE requires_tex_eps
    <3>1. PICK fine \in BOOLEAN :
            /\ LatexDvips("eps", fine)
            /\ buffer' = IF fine THEN [buffer EXCEPT !.eps = Typeset("inceps")] ELSE buffer
      BY <2>1 DEF CreateEps
    <3>2. Tool(Typesets("inceps"), fine)
      BY <3>1 DEF LatexDvips
    <3> QED
      BY <3>1, <3>2, <2>1, <1>1, LatexDvipsIs, ToolSmooth
  <2>2. CASE ~requires_tex_eps
    BY <2>2, <1>1, SameIs DEF CreateEps, counts, Smooth
  <2> QED
    BY <2>1, <2>2
<1>4. Lasting
  BY <1>1, <1>2, <1>3 DEF Lasting
<1>5. Bookkeeping'
  BY <1>1, <1>2, <1>3 DEF Bookkeeping, Early, Tail
<1>6. Includes' /\ IncDone'
  BY <1>1, <1>2, <1>3, <1>4, LastingNeeds DEF Includes, IncDone, QInv, BInv, AfterTeX, Tail
<1>7. ASSUME Regular' PROVE Coming'
  <2>1. Regular /\ Smooth'
    BY <1>3, <1>4, <1>7, LastingRegular DEF Regular
  <2>2. requires_tex_eps => requires_tex
    BY DEF requires_tex, requires_tex_eps
  <2>3. requires_tex_eps /\ script.latex => WritesIncEps
    <3>1. ASSUME requires_tex_eps, script.latex, "eps" \notin has.generated PROVE FALSE
      <4>1. "pdf" \in has.generated /\ opts.cairo /\ ~Wants("eps")
        BY <3>1, <1>1 DEF RInv, Drawn, Tail
      <4>2. ~opts.pdftex
        BY <4>1, <3>1 DEF requires_tex_eps
      <4> QED
        BY <4>1, <4>2, <3>1, <2>1 DEF Regular, CairoOnly
    <3> QED
      BY <3>1 DEF WritesIncEps, requires_tex_eps, Wants
  <2>4. WritesIncEps => File("inceps") = "plain"
    BY <1>1 DEF QInv, BInv, Includes
  <2>5. requires_tex_eps /\ script.latex => buffer'["eps"] = "full"
    <3>1. ASSUME requires_tex_eps, script.latex PROVE Typesets("inceps") /\ Typeset("inceps") = "full"
      BY <3>1, <2>1, <2>2, <2>3, <2>4, <1>1, Full
    <3> QED
      BY <3>1, <2>1, <1>1, <1>3 DEF Pictures
  <2>6. ~script.latex => buffer' = buffer
    <3>1. CASE requires_tex_eps /\ Typesets("inceps") /\ ~script.latex
      <4>1. opts.inc
        BY <3>1, <1>1 DEF RInv, OwnTeX, Tail, WithLatex
      <4>2. File("tex") = "none"
        BY <4>1, <3>1, <2>1 DEF Regular, ForeignTeX
      <4> QED
        BY <4>2, <3>1 DEF Typesets
    <3> QED
      BY <3>1, <1>3
  <2>7. Buffers'
    <3>1. buffer'["pdf"] = buffer["pdf"]
      BY <1>1, <1>3 DEF Pictures
    <3>2. \A b \in {"eps", "pdf"} : buffer[b] = IF b \in has.generated THEN "plain" ELSE "none"
      BY <1>1 DEF RInv, Drawn, Pictures
    <3> QED
      BY <2>5, <2>6, <3>1, <3>2, <1>1, <1>4, LastingNeeds DEF Buffers, Text, AfterPdf, AfterEps
  <2>8. EpsComes' /\ PdfComes' /\ PngComes' /\ PsComes' /\ SvgComes'
    BY <1>1, <1>4, LastingNeeds DEF EpsComes, PdfComes, PngComes, PsComes, SvgComes, End, AfterEps, AfterPdf, requires_tex_eps
  <2> QED
    BY <2>7, <2>8 DEF Coming
<1> QED
  BY <1>5, <1>6, <1>7 DEF QInv, BInv

LEMMA QWriteEps == ASSUME IInv, RInv, QInv, WriteEps PROVE QInv'
<1>1. /\ UNCHANGED <<opts, script, buffer, printed, troubled>> /\ pc = "writeeps" /\ pc' = "pdf" /\ HasShape
      /\ Put("eps", Made("eps")) /\ has' = [has EXCEPT !.file = has.file \cup {"eps"}]
      /\ Bookkeeping /\ has.file = {}
  BY DEF WriteEps, IInv, Typed, counts, QInv, BInv, Bookkeeping, Early
<1>2. {"eps", "pdf", "tex", "inc", "inceps", "incpdf"} \subseteq Exts
  BY DEF Exts, Devices, Temporary
<1>3. \A y \in Exts : File(y)' = IF y = "eps" THEN Made("eps") ELSE File(y)
  BY <1>1, PutIs
<1>4. has'.tex = has.tex /\ has'.generated = has.generated /\ has'.file = {"eps"}
  BY <1>1 DEF HasShape
<1>5. Lasting
  BY <1>1, <1>2, <1>3, <1>4 DEF Lasting
<1>6. Bookkeeping'
  BY <1>1, <1>2, <1>3, <1>4 DEF Bookkeeping, Early, Tail, Pictures
<1>7. Includes' /\ IncDone'
  BY <1>1, <1>2, <1>3, <1>5, LastingNeeds DEF Includes, IncDone, QInv, BInv, AfterTeX, Tail, Smooth
<1>8. ASSUME Regular' PROVE Coming'
  <2>1. Regular
    BY <1>1, <1>5, <1>8, LastingRegular DEF Smooth
  <2>2. Buffers
    BY <2>1 DEF QInv, Coming
  <2>3. Buffers'
    BY <2>2, <1>1, <1>4, <1>5, LastingNeeds DEF Buffers, AfterEps, AfterPdf
  \* What is written is what is wanted.
  <2>4. ~opts.inc /\ Wants("eps") => Made("eps") = Text
    <3>1. ASSUME ~opts.inc, Wants("eps") PROVE requires_tex_eps /\ "eps" \in has.generated
      BY <3>1, <1>1 DEF requires_tex_eps, RInv, Drawn, Tail
    <3> QED
      BY <3>1, <2>2, <1>1 DEF Buffers, Made, Text
  <2>5. EpsComes'
    BY <2>4, <1>1, <1>2, <1>3, <1>4, <1>5, LastingNeeds DEF EpsComes, End
  <2>6. PdfComes' /\ PngComes' /\ PsComes' /\ SvgComes'
    BY <1>1 DEF PdfComes, PngComes, PsComes, SvgComes, End, AfterPdf
  <2> QED
    BY <2>3, <2>5, <2>6 DEF Coming
<1> QED
  BY <1>6, <1>7, <1>8 DEF QInv, BInv

LEMMA QPdf == ASSUME IInv, RInv, QInv, CreatePdf PROVE QInv'
<1>1. /\ UNCHANGED <<opts, script>> /\ pc = "pdf" /\ pc' = "ps" /\ HasShape
      /\ has' = IF requires_tex_pdf THEN [has EXCEPT !.file = has.file \cup {"pdf"}] ELSE has
      /\ Bookkeeping /\ (opts.stdout => File("pdf") = "none") /\ DOMAIN buffer = Pictures
      /\ opts.inc \/ script.latex
  BY DEF CreatePdf, IInv, Typed, QInv, BInv, Bookkeeping, Early, RInv, Drawn, OwnTeX, Tail, WithLatex
<1>2. {"eps", "pdf", "tex", "inc", "inceps", "incpdf"} \subseteq Exts \ {"log"}
  BY DEF Exts, Devices, Temporary
<1>3. /\ has'.tex = has.tex /\ has'.generated = has.generated
      /\ has'.file = IF requires_tex_pdf THEN has.file \cup {"pdf"} ELSE has.file
  BY <1>1 DEF HasShape
\* What pdflatex, or Ghostscript, does.
<1>4. /\ \A y \in Exts \ {"pdf", "log"} : File(y)' = File(y)
      /\ Smooth' => Smooth
      /\ DOMAIN printed' = Devices
      /\ buffer' = buffer \/ (requires_tex_pdf /\ opts.pdftex /\ Typesets("incpdf") /\ buffer' = [buffer EXCEPT !.pdf = Typeset("incpdf")])
      /\ Smooth' /\ requires_tex_pdf /\ opts.pdftex /\ Typesets("incpdf") =>
           buffer' = [buffer EXCEPT !.pdf = Typeset("incpdf")] /\ File("pdf")' = Typeset("incpdf")
      /\ Smooth' /\ requires_tex_pdf /\ ~opts.pdftex =>
           IF opts.stdout THEN File("pdf")' = "none" /\ printed'["pdf"] = Made("eps") ELSE File("pdf")' = Made("eps")
  <2>1. CASE requires_tex_pdf /\ opts.pdftex
    <3>1. PICK fine \in BOOLEAN : Pdflatex(fine)
      BY <2>1 DEF CreatePdf
    <3>2. /\ Tool(Typesets("incpdf"), fine) /\ UNCHANGED printed
          /\ buffer' = IF fine THEN [buffer EXCEPT !.pdf = Typeset("incpdf")] ELSE buffer
      BY <3>1 DEF Pdflatex
    <3>3. \A y \in Exts \ {"pdf", "log"} : File(y)' = File(y)
      BY <3>1, <1>1, PdflatexIs
    <3>4. fine => File("pdf")' = Typeset("incpdf")
      <4> DEFINE f == [files[Stem] EXCEPT !.pdf = IF fine THEN Typeset("incpdf") ELSE "none", !.log = "none"]
      <4>1. files' = [files EXCEPT ![Stem] = f]
        BY <3>1 DEF Pdflatex
      <4>2. fine => f["pdf"] = Typeset("incpdf")
        BY StemFiles DEF Devices
      <4>3. \A y : File(y)' = f[y]
        <5> HIDE DEF f
        <5> QED BY <4>1, <1>1, StemIs
      <4> QED
        BY <4>2, <4>3
    <3> QED
      BY <3>2, <3>3, <3>4, <2>1, <1>1, ToolSmooth DEF Bookkeeping
  <2>2. CASE requires_tex_pdf /\ ~opts.pdftex
    <3>1. PICK fine \in BOOLEAN : Ghostscript("pdf", fine, opts.stdout) /\ UNCHANGED buffer
      BY <2>2 DEF CreatePdf
    <3> QED
      BY <3>1, <2>2, <1>1, <1>2, GhostscriptDoes
  <2>3. CASE ~requires_tex_pdf
    BY <2>3, <1>1, SameIs DEF CreatePdf, counts, Smooth, Bookkeeping
  <2> QED
    BY <2>1, <2>2, <2>3, OptionTypes
<1>5. Lasting
  BY <1>1, <1>2, <1>3, <1>4 DEF Lasting
<1>6. Bookkeeping'
  BY <1>1, <1>2, <1>3, <1>4 DEF Bookkeeping, Early, Tail, Pictures
<1>7. Includes' /\ IncDone'
  BY <1>1, <1>2, <1>4, <1>5, LastingNeeds DEF Includes, IncDone, QInv, BInv, AfterTeX, Tail
<1>8. ASSUME Regular' PROVE Coming'
  <2>1. Regular /\ Smooth'
    BY <1>4, <1>5, <1>8, LastingRegular DEF Regular
  <2>2. Coming
    BY <2>1 DEF QInv
  <2>3. requires_tex_pdf => requires_tex
    BY DEF requires_tex, requires_tex_pdf
  <2>4. requires_tex_pdf /\ opts.pdftex => File("incpdf") = "plain"
    BY <2>1, <1>1 DEF QInv, BInv, Includes, MakesIncPdf, requires_tex_pdf, Regular
  <2>5. requires_tex_pdf /\ opts.pdftex /\ script.latex =>
          buffer' = [buffer EXCEPT !.pdf = "full"] /\ File("pdf")' = "full"
    <3>1. ASSUME requires_tex_pdf, opts.pdftex, script.latex PROVE Typesets("incpdf") /\ Typeset("incpdf") = "full"
      BY <3>1, <2>1, <2>3, <2>4, <1>1, Full
    <3> QED
      BY <3>1, <2>1, <1>4
  <2>6. ~script.latex => buffer' = buffer
    <3>1. CASE requires_tex_pdf /\ opts.pdftex /\ ~script.latex
      BY <3>1, <2>1, <2>3, <2>4, <1>1, <1>4, Full
    <3> QED
      BY <3>1, <1>4
  <2>7. buffer'["eps"] = buffer["eps"]
    BY <1>1, <1>4 DEF Pictures
  <2>8. script.latex /\ "pdf" \in has.generated => opts.pdftex
    BY <2>1, <1>1 DEF Regular, CairoOnly, Bookkeeping, Tail
  <2>9. Buffers'
    <3>1. requires_tex_pdf /\ opts.pdftex /\ script.latex => buffer'["pdf"] = "full"
      BY <2>5, <1>1 DEF Pictures
    <3>2. buffer'["pdf"] \in {buffer["pdf"], "full"} /\ (~script.latex => buffer'["pdf"] = buffer["pdf"])
      BY <2>5, <2>6, <1>4, <3>1
    <3>3. buffer["pdf"] = IF "pdf" \in has.generated THEN "plain" ELSE "none"
      BY <2>2, <1>1 DEF Coming, Buffers
    <3> QED
      BY <2>2, <2>7, <2>8, <3>1, <3>2, <3>3, <1>1, <1>5, LastingNeeds DEF Coming, Buffers, AfterEps, AfterPdf, Text, Lasting
  <2>10. EpsComes'
    BY <2>2, <1>1, <1>2, <1>3, <1>4, <1>5, LastingNeeds DEF Coming, EpsComes, End, AfterEps
  <2>11. PdfComes'
    <3>1. ASSUME ~opts.inc, Wants("pdf") PROVE requires_tex_pdf /\ script.latex
      BY <3>1, <1>1 DEF requires_tex_pdf
    <3>2. ASSUME ~opts.inc, Wants("pdf"), ~opts.pdftex PROVE Made("eps") = "full"
      <4>1. "eps" \in has.generated /\ requires_tex_eps
        BY <3>1, <3>2, <2>8, <1>1 DEF requires_tex_eps, RInv, Drawn, Tail
      <4> QED
        BY <4>1, <3>1, <3>2, <2>2, <1>1 DEF Coming, Buffers, AfterEps, Made, Text
    <3> QED
      BY <3>1, <3>2, <2>1, <2>5, <1>1, <1>3, <1>4, <1>5, LastingNeeds DEF PdfComes, End, Text, Lasting
  <2>12. PngComes' /\ PsComes' /\ SvgComes'
    BY <1>1 DEF PngComes, PsComes, SvgComes, End
  <2> QED
    BY <2>9, <2>10, <2>11, <2>12 DEF Coming
<1> QED
  BY <1>6, <1>7, <1>8 DEF QInv, BInv

\* Steps after that write outputs only.
Late == {"ps", "catps", "bitmap", "recordeps", "recordpdf", "delete", "clean", "plainps", "svg", "done"}
LEMMA LateBInv ==
  ASSUME BInv, Lasting, UNCHANGED has, Smooth' => Smooth, DOMAIN printed' = Devices,
         pc \in Late, pc' \in Late \ {"ps"}, pc' \in Tail => pc \in Tail, \A y \in {"inc", "inceps", "incpdf"} : File(y)' = File(y)
  PROVE  BInv'
<1>1. Bookkeeping'
  BY DEF BInv, Bookkeeping, Lasting, Late, Early, Tail
<1>2. Includes'
  BY DEF Includes, Late
<1>3. IncDone'
  BY LastingNeeds DEF BInv, IncDone, Lasting, Late, AfterTeX, Tail
<1> QED
  BY <1>1, <1>2, <1>3 DEF BInv

LEMMA Outputs == {"eps", "pdf", "ps", "png", "svg", "tex", "inc", "inceps", "incpdf"} \subseteq Exts \ {"dvi", "log"}
BY DEF Exts, Devices, Temporary

LEMMA QPs == ASSUME IInv, RInv, QInv, CreatePs PROVE QInv'
<1>1. /\ UNCHANGED <<opts, script, buffer, has, printed>> /\ pc = "ps" /\ pc' = IF Wants("ps") THEN "catps" ELSE "bitmap"
      /\ Bookkeeping
  BY DEF CreatePs, QInv, BInv
<1>2. /\ \A y \in Exts \ {"ps", "dvi", "log"} : File(y)' = File(y)
      /\ Smooth' => Smooth
      /\ Smooth' /\ Wants("ps") /\ Typesets("inceps") => File("ps")' = Typeset("inceps")
  <2>1. CASE Wants("ps")
    <3>1. PICK fine \in BOOLEAN : LatexDvips("ps", fine)
      BY <2>1 DEF CreatePs
    <3>2. Tool(Typesets("inceps"), fine)
      BY <3>1 DEF LatexDvips
    <3> QED
      BY <3>1, <3>2, <2>1, <1>1, LatexDvipsIs, ToolSmooth
  <2>2. CASE ~Wants("ps")
    BY <2>2, <1>1, SameIs DEF CreatePs, counts, Smooth
  <2> QED
    BY <2>1, <2>2
<1>3. Lasting
  BY <1>1, <1>2, Outputs DEF Lasting
<1>4. BInv'
  BY <1>1, <1>2, <1>3, Outputs, LateBInv DEF Late, Tail, QInv, Bookkeeping
<1>5. ASSUME Regular' PROVE Coming'
  <2>1. Regular /\ Smooth' /\ Coming
    BY <1>2, <1>3, <1>5, LastingRegular DEF Regular, QInv
  <2>2. Buffers'
    BY <2>1, <1>1, <1>3, LastingNeeds DEF Coming, Buffers, AfterEps, AfterPdf
  <2>3. EpsComes'
    BY <2>1, <1>1, <1>2, <1>3, Outputs, LastingNeeds DEF Coming, EpsComes, AfterEps, End
  <2>4. PdfComes'
    BY <2>1, <1>1, <1>2, <1>3, Outputs, LastingNeeds DEF Coming, PdfComes, AfterPdf, End
  <2>5. PsComes'
    <3>1. ASSUME Wants("ps"), opts.tex, script.latex PROVE File("ps")' = "full"
      <4>1. "eps" \in has.generated
        BY <3>1, <2>1, <1>1 DEF RInv, Drawn, Tail, Regular, CairoOnly
      <4>2. File("inceps") = "plain"
        BY <4>1, <3>1, <1>1 DEF QInv, BInv, Includes, WritesIncEps, Wants
      <4>3. Typesets("inceps") /\ Typeset("inceps") = "full"
        BY <4>2, <3>1, <2>1, <1>1, Full DEF requires_tex
      <4> QED
        BY <4>3, <3>1, <2>1, <1>2
    <3> QED
      BY <3>1, <1>1, <1>3, LastingNeeds DEF PsComes, End
  <2>6. PngComes' /\ SvgComes'
    BY <1>1 DEF PngComes, SvgComes, End
  <2> QED
    BY <2>2, <2>3, <2>4, <2>5, <2>6 DEF Coming
<1> QED
  BY <1>4, <1>5 DEF QInv

LEMMA CatDoes ==
  ASSUME Bookkeeping, NEW d \in Devices, Cat(d)
  PROVE  /\ DOMAIN printed' = Devices /\ \A x \in Devices : x # d => printed'[x] = printed[x]
         /\ printed'[d] = IF File(d) = "none" THEN printed[d] ELSE File(d)
<1> DEFINE c == IF File(d) = "none" THEN printed[d] ELSE File(d)
<1>1. printed' = [printed EXCEPT ![d] = c] /\ DOMAIN printed = Devices
  BY DEF Cat, Bookkeeping
<1> HIDE DEF c
<1>2. DOMAIN printed' = Devices /\ (\A x \in Devices : x # d => printed'[x] = printed[x]) /\ printed'[d] = c
  BY <1>1
<1> QED
  BY <1>2 DEF c

LEMMA QCatPs == ASSUME IInv, RInv, QInv, CatPs PROVE QInv'
<1>1. /\ UNCHANGED <<opts, script, buffer, has, troubled>> /\ pc = "catps" /\ pc' = "bitmap" /\ Bookkeeping
  BY DEF CatPs, QInv, BInv, counts
<1>2. /\ \A y \in Exts \ {"ps"} : File(y)' = File(y)
      /\ DOMAIN printed' = Devices /\ \A x \in Devices : x # "ps" => printed'[x] = printed[x]
      /\ opts.stdout => printed'["ps"] = IF File("ps") = "none" THEN printed["ps"] ELSE File("ps")
      /\ ~opts.stdout => File("ps")' = File("ps")
  <2>1. CASE opts.stdout
    <3>1. files' = Without({"ps"}) /\ Cat("ps")
      BY <2>1 DEF CatPs
    <3> QED
      BY <3>1, <2>1, <1>1, WithoutIs, CatDoes DEF Devices
  <2>2. CASE ~opts.stdout
    BY <2>2, <1>1, SameIs DEF CatPs, Bookkeeping
  <2> QED
    BY <2>1, <2>2
<1>3. Lasting
  BY <1>1, <1>2, Outputs DEF Lasting
<1>4. BInv'
  BY <1>1, <1>2, <1>3, Outputs, LateBInv DEF Late, Tail, QInv, Smooth
<1>5. ASSUME Regular' PROVE Coming'
  <2>1. Coming
    BY <1>1, <1>3, <1>5, LastingRegular DEF Smooth, QInv
  <2>2. Buffers'
    BY <2>1, <1>1, <1>3, LastingNeeds DEF Coming, Buffers, AfterEps, AfterPdf
  <2>3. EpsComes'
    BY <2>1, <1>1, <1>2, <1>3, Outputs, LastingNeeds DEF Coming, EpsComes, AfterEps, End
  <2>4. PdfComes'
    BY <2>1, <1>1, <1>2, <1>3, Outputs, LastingNeeds DEF Coming, PdfComes, AfterPdf, End, Devices
  <2>5. PsComes'
    BY <2>1, <1>1, <1>2, <1>3, LastingNeeds DEF Coming, PsComes, Out, End
  <2>6. PngComes' /\ SvgComes'
    BY <1>1 DEF PngComes, SvgComes, End
  <2> QED
    BY <2>2, <2>3, <2>4, <2>5, <2>6 DEF Coming
<1> QED
  BY <1>4, <1>5 DEF QInv

LEMMA QBitmap == ASSUME IInv, RInv, QInv, CreateBitmap PROVE QInv'
<1>1. /\ UNCHANGED <<opts, script, buffer, has>> /\ pc = "bitmap" /\ pc' = "recordeps" /\ Bookkeeping
  BY DEF CreateBitmap, QInv, BInv
<1>2. /\ \A y \in Exts \ {"png"} : File(y)' = File(y)
      /\ DOMAIN printed' = Devices /\ \A x \in Devices : x # "png" => printed'[x] = printed[x]
      /\ Smooth' => Smooth
      /\ Smooth' /\ Wants("png") =>
           (FromPdf /\ UsesPoppler /\ opts.stdout) \/ (IF opts.stdout THEN printed'["png"] ELSE File("png")') = Picture
  <2>1. CASE ~Wants("png")
    BY <2>1, <1>1, SameIs DEF CreateBitmap, counts, Smooth, Bookkeeping
  <2>2. CASE Wants("png") /\ FromPdf /\ UsesPoppler
    <3>1. Put("png", Picture) /\ UNCHANGED <<printed, troubled>>
      BY <2>2 DEF CreateBitmap, counts
    <3> QED
      BY <3>1, <2>2, <1>1, PutIs, Outputs DEF Smooth, Bookkeeping
  <2>3. CASE Wants("png") /\ ~(FromPdf /\ UsesPoppler)
    <3>1. PICK fine \in BOOLEAN :
            /\ Tool(TRUE, fine)
            /\ IF opts.stdout
               THEN printed' = [printed EXCEPT !.png = IF fine THEN Picture ELSE printed["png"]] /\ UNCHANGED files
               ELSE Put("png", IF fine THEN Picture ELSE "none") /\ UNCHANGED printed
      BY <2>3 DEF CreateBitmap
    <3>2. (Smooth' => Smooth /\ fine) /\ DOMAIN printed = Devices /\ "png" \in Devices
      BY <3>1, <1>1 DEF Tool, Smooth, Bookkeeping, Devices
    <3>3. CASE opts.stdout
      <4> HIDE DEF Picture
      <4>1. /\ DOMAIN printed' = Devices /\ \A x \in Devices : x # "png" => printed'[x] = printed[x]
            /\ fine => printed'["png"] = Picture
        BY <3>1, <3>2, <3>3
      <4> QED
        BY <4>1, <3>1, <3>2, <3>3, <1>1, SameIs
    <3>4. CASE ~opts.stdout
      BY <3>1, <3>2, <3>4, <1>1, PutIs, Outputs
    <3> QED
      BY <3>3, <3>4
  <2> QED
    BY <2>1, <2>2, <2>3
<1>3. Lasting
  BY <1>1, <1>2, Outputs DEF Lasting
<1>4. BInv'
  BY <1>1, <1>2, <1>3, Outputs, LateBInv DEF Late, Tail, QInv
<1>5. ASSUME Regular' PROVE Coming'
  <2>1. Coming /\ Smooth'
    BY <1>2, <1>3, <1>5, LastingRegular DEF Regular, QInv
  <2>2. Buffers'
    BY <2>1, <1>1, <1>3, LastingNeeds DEF Coming, Buffers, AfterEps, AfterPdf
  <2>3. EpsComes'
    BY <2>1, <1>1, <1>2, <1>3, Outputs, LastingNeeds DEF Coming, EpsComes, AfterEps, End
  <2>4. PdfComes'
    BY <2>1, <1>1, <1>2, <1>3, Outputs, LastingNeeds DEF Coming, PdfComes, AfterPdf, End, Devices
  \* The picture comes from a buffer that is complete, whichever it is.
  <2>5. Wants("png") => Picture = Text
    <3>1. CASE "pdf" \in has.generated
      <4>1. Wants("png") => requires_tex_pdf
        BY <3>1 DEF requires_tex_pdf
      <4> QED
        BY <4>1, <3>1, <2>1, <1>1 DEF Coming, Buffers, AfterPdf, Picture, FromPdf, Text
    <3>2. CASE "pdf" \notin has.generated
      <4>1. (Wants("png") => requires_tex_eps) /\ "eps" \in has.generated
        BY <3>2, <1>1 DEF requires_tex_eps, RInv, Drawn, Tail
      <4> QED
        BY <4>1, <3>2, <2>1, <1>1 DEF Coming, Buffers, AfterPdf, AfterEps, Picture, FromPdf, Made, Text
    <3> QED
      BY <3>1, <3>2
  <2>6. PngComes'
    BY <2>1, <2>5, <1>1, <1>2, <1>3, LastingNeeds DEF PngComes, Out, PopplerFile, FromPdf
  <2>7. PsComes'
    BY <2>1, <1>1, <1>2, <1>3, Outputs, LastingNeeds DEF Coming, PsComes, Out, End, Devices
  <2>8. SvgComes'
    BY <1>1 DEF SvgComes
  <2> QED
    BY <2>2, <2>3, <2>4, <2>6, <2>7, <2>8 DEF Coming
<1> QED
  BY <1>4, <1>5 DEF QInv

\* write_recorded_data
LEMMA RecordDoes ==
  ASSUME IInv, Bookkeeping, NEW d \in Pictures, write_recorded_data(d), UNCHANGED opts
  PROVE  /\ \A y \in Exts : y # d => File(y)' = File(y)
         /\ DOMAIN printed' = Devices /\ \A x \in Devices : x # d => printed'[x] = printed[x]
         /\ opts.stdout => File(d)' = File(d)
         /\ Records(d) /\ d \in has.file => File(d)' = File(d)
         /\ Records(d) /\ d \in has.file /\ opts.stdout =>
              printed'[d] = IF File(d) = "none" THEN printed[d] ELSE File(d)
         /\ Records(d) /\ d \notin has.file => (IF opts.stdout THEN printed'[d] ELSE File(d)') = Made(d)
         /\ ~opts.stdout => printed'[d] = printed[d]
<1>1. DOMAIN printed = Devices /\ d \in Devices /\ d \in Exts
  BY DEF Bookkeeping, Pictures, Devices, Exts
<1>2. CASE ~Records(d)
  BY <1>1, <1>2, SameIs DEF write_recorded_data
<1>3. CASE Records(d) /\ opts.stdout /\ d \in has.file
  BY <1>1, <1>3, SameIs, CatDoes DEF write_recorded_data
<1>4. CASE Records(d) /\ opts.stdout /\ d \notin has.file
  <2>1. printed' = [printed EXCEPT ![d] = Made(d)] /\ UNCHANGED files
    BY <1>4 DEF write_recorded_data
  <2> QED
    BY <2>1, <1>1, <1>4, SameIs
<1>5. CASE Records(d) /\ ~opts.stdout /\ d \in has.file
  BY <1>1, <1>5, SameIs DEF write_recorded_data
<1>6. CASE Records(d) /\ ~opts.stdout /\ d \notin has.file
  <2>1. Put(d, Made(d)) /\ UNCHANGED printed
    BY <1>6 DEF write_recorded_data
  <2> QED
    BY <2>1, <1>1, <1>6, PutIs
<1> QED
  BY <1>2, <1>3, <1>4, <1>5, <1>6

LEMMA QRecordEps == ASSUME IInv, RInv, QInv, RecordEps PROVE QInv'
<1>1. /\ UNCHANGED <<opts, script, buffer, has, troubled>> /\ pc = "recordeps" /\ pc' = "recordpdf" /\ Bookkeeping
      /\ write_recorded_data("eps") /\ "eps" \in Pictures
  BY DEF RecordEps, QInv, BInv, counts, Pictures
<1>2. Lasting
  BY <1>1, Outputs, RecordDoes DEF Lasting
<1>3. BInv'
  BY <1>1, <1>2, Outputs, RecordDoes, LateBInv DEF Late, Tail, QInv, Smooth
<1>4. ASSUME Regular' PROVE Coming'
  <2>1. Coming /\ Regular
    BY <1>1, <1>2, <1>4, LastingRegular DEF Smooth, QInv
  <2>2. Buffers'
    BY <2>1, <1>1, <1>2, LastingNeeds DEF Coming, Buffers, AfterEps, AfterPdf
  <2>3. ASSUME ~opts.inc, Wants("eps") PROVE Out("eps")' = Text
    <3>1. Records("eps") /\ (script.latex => "eps" \in has.file)
      BY <2>1, <2>3, <1>1, OptionTypes DEF Records, Regular, Coming, EpsComes, AfterEps
    <3>2. CASE "eps" \in has.file
      <4>1. File("eps") = Text
        BY <2>1, <2>3, <3>2, <1>1 DEF Coming, EpsComes, AfterEps
      <4>2. File("eps")' = File("eps") /\ (opts.stdout => printed'["eps"] = File("eps"))
        BY <4>1, <3>1, <3>2, <1>1, RecordDoes DEF Text
      <4> QED
        BY <4>1, <4>2, <1>1 DEF Out
    <3>3. CASE "eps" \notin has.file
      <4>1. "eps" \in has.generated
        BY <2>3, <1>1 DEF RInv, Drawn, Tail
      <4>2. Made("eps") = Text
        BY <4>1, <3>1, <3>3, <2>1, <1>1 DEF Coming, Buffers, AfterEps, Made, Text
      <4> QED
        BY <4>2, <3>1, <3>3, <1>1, RecordDoes DEF Out
    <3> QED
      BY <3>2, <3>3
  <2>4. EpsComes'
    BY <2>3, <1>1, <1>2, LastingNeeds DEF EpsComes, AfterEps
  <2>5. File("pdf")' = File("pdf") /\ printed'["pdf"] = printed["pdf"]
    BY <1>1, Outputs, RecordDoes DEF Devices
  <2>6. PdfComes'
    BY <2>1, <2>5, <1>1, <1>2, LastingNeeds DEF Coming, PdfComes, AfterPdf, End
  <2>7. /\ File("png")' = File("png") /\ printed'["png"] = printed["png"]
        /\ File("ps")' = File("ps") /\ printed'["ps"] = printed["ps"]
    BY <1>1, Outputs, RecordDoes DEF Devices
  <2>8. PngComes'
    BY <2>1, <2>7, <1>1, <1>2, LastingNeeds DEF Coming, PngComes, Out, PopplerFile, FromPdf
  <2>9. PsComes'
    BY <2>1, <2>7, <1>1, <1>2, LastingNeeds DEF Coming, PsComes, Out, End
  <2>10. SvgComes'
    BY <1>1 DEF SvgComes
  <2> QED
    BY <2>2, <2>4, <2>6, <2>8, <2>9, <2>10 DEF Coming
<1> QED
  BY <1>3, <1>4 DEF QInv

LEMMA QRecordPdf == ASSUME IInv, RInv, QInv, RecordPdf PROVE QInv'
<1>1. /\ UNCHANGED <<opts, script, buffer, has, troubled>> /\ pc = "recordpdf" /\ pc' = "delete" /\ Bookkeeping
      /\ write_recorded_data("pdf") /\ "pdf" \in Pictures
  BY DEF RecordPdf, QInv, BInv, counts, Pictures
<1>2. Lasting
  BY <1>1, Outputs, RecordDoes DEF Lasting
<1>3. BInv'
  BY <1>1, <1>2, Outputs, RecordDoes, LateBInv DEF Late, Tail, QInv, Smooth
<1>4. ASSUME Regular' PROVE Coming'
  <2>1. Coming /\ Regular
    BY <1>1, <1>2, <1>4, LastingRegular DEF Smooth, QInv
  <2>2. Buffers'
    BY <1>1 DEF Buffers, AfterEps, AfterPdf
  <2>3. ASSUME ~opts.inc, Wants("pdf") PROVE Out("pdf")' = Text
    <3>1. Records("pdf")
      BY <2>1, <2>3 DEF Records, Regular
    <3>2. CASE "pdf" \in has.file
      <4>1. File("pdf") = Text \/ (opts.stdout /\ File("pdf") = "none" /\ printed["pdf"] = Text)
        BY <2>1, <2>3, <3>2, <1>1 DEF Coming, PdfComes, AfterPdf
      <4>2. File("pdf")' = File("pdf") /\ (opts.stdout => printed'["pdf"] = IF File("pdf") = "none" THEN printed["pdf"] ELSE File("pdf"))
        BY <3>1, <3>2, <1>1, RecordDoes
      <4> QED
        BY <4>1, <4>2, <1>1 DEF Out, Text
    <3>3. CASE "pdf" \notin has.file
      <4>1. ~script.latex /\ "pdf" \in has.generated
        BY <2>1, <2>3, <3>3, <1>1 DEF Coming, PdfComes, AfterPdf
      <4>2. Made("pdf") = Text
        BY <4>1, <2>1, <1>1 DEF Coming, Buffers, AfterPdf, Made, Text
      <4> QED
        BY <4>2, <3>1, <3>3, <1>1, RecordDoes DEF Out
    <3> QED
      BY <3>2, <3>3
  <2>4. PdfComes'
    BY <2>3, <1>1, <1>2, LastingNeeds DEF PdfComes, AfterPdf
  <2>5. File("eps")' = File("eps") /\ printed'["eps"] = printed["eps"]
    BY <1>1, Outputs, RecordDoes DEF Devices
  <2>6. EpsComes'
    BY <2>1, <2>5, <1>1, <1>2, LastingNeeds DEF Coming, EpsComes, AfterEps, End, Out
  <2>7. /\ File("png")' = File("png") /\ printed'["png"] = printed["png"]
        /\ File("ps")' = File("ps") /\ printed'["ps"] = printed["ps"]
    BY <1>1, Outputs, RecordDoes DEF Devices
  <2>8. PngComes'
    BY <2>1, <2>7, <1>1, <1>2, LastingNeeds DEF Coming, PngComes, Out, PopplerFile, FromPdf, End
  <2>9. PsComes'
    BY <2>1, <2>7, <1>1, <1>2, LastingNeeds DEF Coming, PsComes, Out, End
  <2>10. SvgComes'
    BY <1>1 DEF SvgComes
  <2> QED
    BY <2>2, <2>4, <2>6, <2>8, <2>9, <2>10 DEF Coming
<1> QED
  BY <1>3, <1>4 DEF QInv

-----------------------------------------------------------------------------
(* The files that are removed, and the formats that are drawn separately.   *)

LEMMA QDelete == ASSUME IInv, RInv, QInv, delete_original_eps_pdf PROVE QInv'
<1>1. /\ UNCHANGED <<opts, script, buffer, has, troubled, printed>> /\ pc = "delete" /\ pc' = "clean" /\ Bookkeeping
      /\ files' = Without(Originals) /\ Originals \subseteq Pictures
  BY DEF delete_original_eps_pdf, QInv, BInv, Bookkeeping, counts, Originals
<1>2. \A y \in Exts : File(y)' = IF y \in Originals /\ ~opts.keep THEN "none" ELSE File(y)
  BY <1>1, WithoutIs
<1>3. \A y \in Exts \ Pictures : File(y)' = File(y)
  BY <1>1, <1>2
<1>4. \A d \in Pictures : Wants(d) /\ ~opts.inc /\ ~opts.stdout => File(d)' = File(d)
  BY <1>2, InExts DEF Originals
<1>5. Lasting
  BY <1>1, <1>3, Outputs DEF Lasting, Pictures
<1>6. BInv'
  BY <1>1, <1>3, <1>5, Outputs, LateBInv DEF Late, Tail, QInv, Smooth, Bookkeeping, Pictures
<1>7. ASSUME Regular' PROVE Coming'
  <2>1. Coming
    BY <1>1, <1>5, <1>7, LastingRegular DEF Smooth, QInv
  <2>2. Buffers'
    BY <1>1 DEF Buffers, AfterEps, AfterPdf
  <2>3. EpsComes' /\ PdfComes'
    BY <2>1, <1>1, <1>4, <1>5, LastingNeeds DEF Coming, EpsComes, PdfComes, AfterEps, AfterPdf, End, Out, Pictures
  <2>4. File("png")' = File("png") /\ File("ps")' = File("ps")
    BY <1>3, Outputs DEF Pictures
  <2>5. PngComes' /\ PsComes' /\ SvgComes'
    BY <2>1, <2>4, <1>1, <1>5, LastingNeeds DEF Coming, PngComes, PsComes, SvgComes, Out, PopplerFile, FromPdf, End
  <2> QED
    BY <2>2, <2>3, <2>5 DEF Coming
<1> QED
  BY <1>6, <1>7 DEF QInv

LEMMA QClean == ASSUME IInv, RInv, QInv, clean_tex_temp_files PROVE QInv'
<1> DEFINE T == IF has.latex THEN TempFiles ELSE {}
<1>1. /\ UNCHANGED <<opts, script, buffer, has, printed, troubled>> /\ pc = "clean" /\ pc' = "plainps" /\ files' = Without(T)
      /\ T \subseteq {"inceps", "incpdf", "tex"} /\ ("tex" \in T => has.tex) /\ Bookkeeping
      /\ (opts.inc /\ Wants("eps") => "inceps" \notin T) /\ (opts.inc /\ Wants("pdf") => "incpdf" \notin T)
  BY DEF clean_tex_temp_files, TempFiles, CleanInc, QInv, BInv
<1>2. \A y \in Exts : File(y)' = IF y \in T /\ ~opts.keep THEN "none" ELSE File(y)
  <2> HIDE DEF T
  <2> QED BY <1>1, WithoutIs
<1>3. "tex" \in T => script.latex
  BY <1>1 DEF RInv, OwnTeX, Tail
<1> HIDE DEF T
<1>4. ForeignTeX' <=> ForeignTeX
  BY <1>1, <1>2, <1>3, InExts DEF ForeignTeX
<1>5. \A y \in Exts \ {"inceps", "incpdf", "tex"} : File(y)' = File(y)
  BY <1>1, <1>2
<1>6. Bookkeeping' /\ Includes'
  BY <1>1 DEF Bookkeeping, Includes, Early, Tail
<1>7. IncDone'
  BY <1>1, <1>2, Outputs DEF QInv, BInv, IncDone, AfterTeX, Tail, Wants, Smooth
<1>8. ASSUME Regular' PROVE Coming'
  <2>1. Coming
    BY <1>1, <1>4, <1>8 DEF QInv, Regular, Smooth, CairoOnly
  <2>2. File("eps")' = File("eps") /\ File("pdf")' = File("pdf") /\ File("png")' = File("png") /\ File("ps")' = File("ps")
    BY <1>5, Outputs
  <2>3. Buffers'
    BY <1>1 DEF Buffers, AfterEps, AfterPdf
  <2>4. EpsComes' /\ PdfComes'
    BY <2>1, <2>2, <1>1 DEF Coming, EpsComes, PdfComes, AfterEps, AfterPdf, End, Out, Wants, Text
  <2>5. PngComes' /\ PsComes' /\ SvgComes'
    BY <2>1, <2>2, <1>1 DEF Coming, PngComes, PsComes, SvgComes, Out, PopplerFile, FromPdf, End, Wants, Text
  <2> QED
    BY <2>3, <2>4, <2>5 DEF Coming
<1> QED
  BY <1>6, <1>7, <1>8 DEF QInv, BInv

\* A run that has ended otherwise has promised nothing.
LEMMA EndedOtherwise ==
  ASSUME QInv, DOMAIN printed' = Devices, has' = has, pc' \in {"failed", "refused", "nosvg", "killed"}
  PROVE  QInv'
<1>1. Bookkeeping' /\ Includes' /\ IncDone'
  BY DEF QInv, BInv, Bookkeeping, Includes, IncDone, Early, Tail, AfterTeX
<1>2. Coming'
  BY DEF Coming, Buffers, EpsComes, PdfComes, PngComes, PsComes, SvgComes, AfterEps, AfterPdf, End
<1> QED
  BY <1>1, <1>2 DEF QInv, BInv

\* Drawing d anew, or not: what PlainPs and Svg have in common.
LEMMA PlainDoes ==
  ASSUME IInv, Bookkeeping, UNCHANGED opts, NEW d \in Devices,
         \/ UNCHANGED <<files, printed>>
         \/ opts.stdout /\ printed' = [printed EXCEPT ![d] = Figure] /\ \E c : Put(d, c)
         \/ ~opts.stdout /\ Put(d, Figure) /\ UNCHANGED printed
  PROVE  /\ DOMAIN printed' = Devices
         /\ \A y \in Exts \ {d} : File(y)' = File(y)
         /\ \A x \in Devices : x # d => printed'[x] = printed[x]
         /\ ~UNCHANGED <<files, printed>> => Out(d)' = Figure
<1>1. DOMAIN printed = Devices /\ d \in Exts
  BY DEF Bookkeeping, Exts
<1>2. CASE UNCHANGED <<files, printed>>
  BY <1>1, <1>2, SameIs
<1>3. CASE opts.stdout /\ printed' = [printed EXCEPT ![d] = Figure] /\ \E c : Put(d, c)
  BY <1>1, <1>3, PutIs DEF Out
<1>4. CASE ~opts.stdout /\ Put(d, Figure) /\ UNCHANGED printed
  BY <1>1, <1>4, PutIs DEF Out
<1> QED
  BY <1>2, <1>3, <1>4

LEMMA QPlainPs == ASSUME IInv, RInv, QInv, PlainPs PROVE QInv'
<1>1. /\ UNCHANGED <<opts, script, buffer, has, troubled>> /\ pc = "plainps" /\ pc' \in {"svg", "failed"} /\ Bookkeeping
  BY DEF PlainPs, QInv, BInv, counts
<1>2. \/ UNCHANGED <<files, printed>> /\ (Wants("ps") /\ ~opts.tex => pc' = "failed")
      \/ /\ Wants("ps") /\ ~opts.tex
         /\ \/ opts.stdout /\ printed' = [printed EXCEPT !["ps"] = Figure] /\ \E c : Put("ps", c)
            \/ ~opts.stdout /\ Put("ps", Figure) /\ UNCHANGED printed
  BY DEF PlainPs
<1>3. /\ DOMAIN printed' = Devices
      /\ \A y \in Exts \ {"ps"} : File(y)' = File(y)
      /\ \A x \in Devices : x # "ps" => printed'[x] = printed[x]
      /\ pc' # "failed" /\ Wants("ps") /\ ~opts.tex => Out("ps")' = Figure
      /\ opts.tex => UNCHANGED <<files, printed>>
  <2>1. "ps" \in Devices /\ (opts.tex => UNCHANGED <<files, printed>>)
    BY <1>2 DEF Devices
  <2>2. CASE UNCHANGED <<files, printed>> /\ (Wants("ps") /\ ~opts.tex => pc' = "failed")
    BY <2>1, <2>2, <1>1, PlainDoes
  <2>3. CASE ~UNCHANGED <<files, printed>>
    BY <2>1, <2>3, <1>1, <1>2, PlainDoes
  <2>4. CASE UNCHANGED <<files, printed>> /\ Wants("ps") /\ ~opts.tex /\ opts.stdout
              /\ printed' = [printed EXCEPT !["ps"] = Figure]
    BY <2>1, <2>4, <1>1, PlainDoes DEF Out, Bookkeeping
  <2>5. CASE UNCHANGED <<files, printed>> /\ Wants("ps") /\ ~opts.tex /\ ~opts.stdout /\ Put("ps", Figure)
    <3>1. File("ps")' = Figure
      BY <2>5, <1>1, PutIs, Outputs
    <3> QED
      BY <3>1, <2>1, <2>5, <1>1, PlainDoes DEF Out
  <2> QED
    BY <2>2, <2>3, <2>4, <2>5, <1>2
<1>4. CASE pc' = "failed"
  BY <1>1, <1>3, <1>4, EndedOtherwise DEF QInv
<1>5. CASE pc' = "svg"
  <2>1. Lasting
    BY <1>1, <1>3, Outputs DEF Lasting
  <2>2. BInv'
    BY <2>1, <1>1, <1>3, <1>5, Outputs, LateBInv DEF Late, Tail, QInv, Smooth
  <2>3. ASSUME Regular' PROVE Coming'
    <3>1. Coming
      BY <2>1, <2>3, <1>1, LastingRegular DEF Smooth, QInv
    <3>2. Buffers'
      BY <1>5 DEF Buffers, AfterEps, AfterPdf
    <3>3. \A x \in {"eps", "pdf", "png"} : File(x)' = File(x) /\ printed'[x] = printed[x]
      BY <1>3, Outputs DEF Devices
    <3>4. EpsComes' /\ PdfComes'
      BY <3>1, <3>3, <2>1, <1>1, <1>5, LastingNeeds DEF Coming, EpsComes, PdfComes, AfterEps, AfterPdf, End, Out
    <3>5. PngComes'
      BY <3>1, <3>3, <2>1, <1>1, <1>5, LastingNeeds DEF Coming, PngComes, Out, PopplerFile, FromPdf, End
    <3>6. PsComes'
      BY <3>1, <2>1, <1>1, <1>3, <1>5, LastingNeeds, SameIs DEF Coming, PsComes, Out, End
    <3>7. SvgComes'
      BY <1>5 DEF SvgComes
    <3> QED
      BY <3>2, <3>4, <3>5, <3>6, <3>7 DEF Coming
  <2> QED
    BY <2>2, <2>3 DEF QInv
<1> QED
  BY <1>1, <1>4, <1>5

LEMMA QSvg == ASSUME IInv, RInv, QInv, Svg PROVE QInv'
<1>1. /\ UNCHANGED <<opts, script, buffer, has, troubled>> /\ pc = "svg" /\ pc' \in {"done", "failed", "nosvg"} /\ Bookkeeping
  BY DEF Svg, QInv, BInv, counts
<1>2. pc' # "done" => DOMAIN printed' = Devices
  BY DEF Svg, QInv, BInv, Bookkeeping
<1>3. CASE pc' # "done"
  BY <1>1, <1>2, <1>3, EndedOtherwise DEF QInv
<1>4. CASE pc' = "done"
  <2>1. \/ UNCHANGED <<files, printed>> /\ ~Wants("svg")
        \/ opts.stdout /\ printed' = [printed EXCEPT !["svg"] = Figure] /\ \E c : Put("svg", c)
        \/ ~opts.stdout /\ Put("svg", Figure) /\ UNCHANGED printed
    BY <1>4 DEF Svg
  <2>2. /\ DOMAIN printed' = Devices
        /\ \A y \in Exts \ {"svg"} : File(y)' = File(y)
        /\ \A x \in Devices : x # "svg" => printed'[x] = printed[x]
    BY <2>1, <1>1, PlainDoes DEF Devices
  <2>3. Wants("svg") => Out("svg")' = Figure
    <3>1. CASE opts.stdout
      BY <2>1, <3>1, <1>1 DEF Out, Bookkeeping, Devices
    <3>2. CASE ~opts.stdout
      BY <2>1, <3>2, <1>1, PutIs, Outputs DEF Out
    <3> QED
      BY <3>1, <3>2
  <2>4. Lasting
    BY <2>2, <1>1, Outputs DEF Lasting
  <2>5. BInv'
    BY <2>2, <2>4, <1>1, <1>4, Outputs, LateBInv DEF Late, Tail, QInv, Smooth
  <2>6. ASSUME Regular' PROVE Coming'
    <3>1. Coming
      BY <2>4, <2>6, <1>1, LastingRegular DEF Smooth, QInv
    <3>2. Buffers'
      BY <1>4 DEF Buffers, AfterEps, AfterPdf
    <3>3. \A x \in {"eps", "pdf", "png", "ps"} : File(x)' = File(x) /\ printed'[x] = printed[x]
      BY <2>2, Outputs DEF Devices
    <3>4. EpsComes' /\ PdfComes'
      BY <3>1, <3>3, <2>4, <1>1, <1>4, LastingNeeds DEF Coming, EpsComes, PdfComes, AfterEps, AfterPdf, End, Out
    <3>5. PngComes'
      BY <3>1, <3>3, <2>4, <1>1, <1>4, LastingNeeds DEF Coming, PngComes, Out, PopplerFile, FromPdf, End
    <3>6. PsComes'
      BY <3>1, <3>3, <2>4, <1>1, <1>4, LastingNeeds DEF Coming, PsComes, Out, End
    <3>7. SvgComes'
      BY <2>3, <2>4, LastingNeeds DEF SvgComes
    <3> QED
      BY <3>2, <3>4, <3>5, <3>6, <3>7 DEF Coming
  <2> QED
    BY <2>5, <2>6 DEF QInv
<1> QED
  BY <1>3, <1>4

-----------------------------------------------------------------------------
(* The beginning of a run.                                                  *)

LEMMA QLoad == ASSUME IInv, RInv, QInv, LoadOneFile \/ Exit PROVE QInv'
<1>1. /\ pc' \in {"start", "off"} /\ printed' = Nothing /\ has' = HasNothing /\ files' = Aged
  BY DEF LoadOneFile, Exit, Fresh
<1>2. opts'.stdout => File("pdf")' = "none"
  BY <1>1, Outputs DEF File, Stem, Aged, NoFiles
<1>3. Bookkeeping' /\ Includes' /\ IncDone'
  BY <1>1, <1>2 DEF Bookkeeping, Includes, IncDone, Nothing, HasNothing, Early, Tail, AfterTeX
<1>4. Coming'
  BY <1>1 DEF Coming, Buffers, EpsComes, PdfComes, PngComes, PsComes, SvgComes, AfterEps, AfterPdf, End
<1> QED
  BY <1>3, <1>4 DEF QInv, BInv

LEMMA QDeletePrevious == ASSUME IInv, RInv, QInv, delete_previous_output PROVE QInv'
<1>1. /\ UNCHANGED <<opts, script, printed, has>> /\ pc = "start" /\ pc' = "draw" /\ Bookkeeping
      /\ opts.stdout => UNCHANGED files
  BY DEF delete_previous_output, QInv, BInv
<1>2. opts.stdout => File("pdf")' = File("pdf")
  BY <1>1, SameIs
<1>3. Bookkeeping' /\ Includes' /\ IncDone'
  BY <1>1, <1>2 DEF Bookkeeping, Includes, IncDone, Early, Tail, AfterTeX
<1> QED
  BY <1>1, <1>3, NothingYetComes DEF QInv, BInv

\* A run that only draws plain PostScript or SVG.
LEMMA QOnlyPlain == ASSUME IInv, RInv, QInv, OnlyPlain PROVE QInv'
<1>1. /\ UNCHANGED <<opts, script, printed, has, files>> /\ pc = "start" /\ pc' = "plainps" /\ Bookkeeping
      /\ ~opts.tex /\ ~Wants("eps") /\ ~Wants("pdf") /\ ~Wants("png")
  BY DEF OnlyPlain, QInv, BInv, has_eps_or_pdf_based_device
<1>2. Bookkeeping' /\ Includes' /\ IncDone'
  BY <1>1 DEF Bookkeeping, Includes, IncDone, Early, Tail, AfterTeX, Wants
<1>3. Coming'
  BY <1>1 DEF Coming, Buffers, EpsComes, PdfComes, PngComes, PsComes, SvgComes, AfterEps, AfterPdf, Wants
<1> QED
  BY <1>2, <1>3 DEF QInv, BInv

LEMMA QDraw == ASSUME IInv, RInv, QInv, Draw PROVE QInv'
<1>1. /\ UNCHANGED <<opts, script, files, printed>> /\ pc = "draw" /\ pc' \in {"tex", "failed"} /\ HasShape /\ Bookkeeping
  BY DEF Draw, IInv, Typed, QInv, BInv
<1>2. CASE script.error # "none"
  BY <1>1, <1>2, EndedOtherwise DEF Draw, Bookkeeping
<1>3. CASE ~(script.error # "none")
  <2> DEFINE first == IF has_cairo_pdf_based_device THEN "pdf" ELSE "eps"
             all == {first} \cup IF Wants("eps") /\ opts.cairo THEN {"eps"} ELSE {}
  <2>1. pc' = "tex" /\ has' = [has EXCEPT !.generated = all]
    BY <1>3 DEF Draw
  <2>2. "pdf" \in all => opts.cairo
    BY DEF has_cairo_pdf_based_device
  <2> HIDE DEF all
  <2>3. has'.generated = all /\ has'.file = has.file
    BY <2>1, <1>1 DEF HasShape
  <2>4. \A y : File(y)' = File(y)
    BY <1>1, SameIs
  <2>5. Bookkeeping' /\ Includes' /\ IncDone'
    BY <2>1, <2>2, <2>3, <2>4, <1>1 DEF Bookkeeping, Includes, IncDone, Early, Tail, AfterTeX
  <2> QED
    BY <2>1, <2>5, NothingYetComes DEF QInv, BInv
<1> QED
  BY <1>2, <1>3

LEMMA QTeX == ASSUME IInv, RInv, QInv, CreateTeX PROVE QInv'
<1>1. /\ UNCHANGED <<opts, script, buffer, printed>> /\ pc = "tex" /\ HasShape /\ Bookkeeping
      /\ objects = script.latex /\ Stem \in Stems /\ Shape /\ {"inc", "tex"} \subseteq Exts
  BY StemType DEF CreateTeX, IInv, Typed, RInv, Drawn, QInv, BInv, Exts, Temporary
<1>2. CASE objects /\ requires_tex /\ TeXExists
  BY <1>1, <1>2, EndedOtherwise DEF CreateTeX, Bookkeeping
<1>3. CASE ~(objects /\ requires_tex /\ TeXExists)
  <2> DEFINE made == objects /\ requires_tex
             inc == IF opts.inc THEN [files[Stem] EXCEPT !.inc = "own"] ELSE files[Stem]
             tex == [inc EXCEPT !.tex = IF made THEN "own" ELSE inc.tex]
  <2>1. /\ files' = [WithInc EXCEPT ![Stem] = [WithInc[Stem] EXCEPT !.tex = IF made THEN "own" ELSE WithInc[Stem].tex]]
        /\ has' = [has EXCEPT !.tex = made, !.latex = opts.inc \/ objects]
        /\ pc' = IF opts.inc \/ objects THEN "inceps" ELSE "convert"
    BY <1>3 DEF CreateTeX
  <2>2. has'.tex = made /\ has'.generated = has.generated /\ has'.file = has.file
    BY <2>1, <1>1 DEF HasShape
  <2>3. files' = [files EXCEPT ![Stem] = tex]
    <3>1. WithInc = [files EXCEPT ![Stem] = inc] \/ (WithInc = files /\ inc = files[Stem])
      BY DEF WithInc
    <3>2. WithInc[Stem] = inc
      BY <3>1, <1>1 DEF Shape
    <3>3. files' = [WithInc EXCEPT ![Stem] = tex]
      BY <2>1, <3>2
    <3> HIDE DEF tex, inc
    <3> QED
      BY <3>1, <3>3, <1>1 DEF Shape
  <2>4. /\ made => tex["tex"] = "own"
        /\ opts.inc => tex["inc"] = "own"
    BY <1>1 DEF Shape
  <2>5. \A y : File(y)' = tex[y]
    <3> HIDE DEF tex
    <3> QED BY <2>3, <1>1, StemIs
  <2>6. File("pdf")' = File("pdf")
    BY TeXIs, Outputs
  <2> HIDE DEF made, tex
  <2>7. pc' = "convert" => ~opts.inc /\ ~script.latex
    BY <2>1, <1>1
  <2>8. Bookkeeping'
    BY <2>1, <2>2, <2>4, <2>5, <2>6, <2>7, <1>1 DEF Bookkeeping, Early, Tail
  <2>9. Includes' /\ IncDone'
    BY <2>1, <2>4, <2>5, <1>1 DEF Includes, IncDone, AfterTeX
  <2> QED
    BY <2>1, <2>8, <2>9, NothingYetComes DEF QInv, BInv
<1> QED
  BY <1>2, <1>3

LEMMA QStopped == ASSUME IInv, RInv, QInv, CannotWrite \/ Kill PROVE QInv'
BY EndedOtherwise DEF CannotWrite, Kill, QInv, BInv, Bookkeeping

LEMMA QStep == ASSUME IInv, RInv, QInv, [Next]_vars PROVE QInv'
<1>1. CASE UNCHANGED vars
  <2>1. UNCHANGED <<pc, opts, script, files, printed, buffer, has, troubled>> /\ \A y : File(y)' = File(y)
    BY <1>1, SameIs DEF vars, counts
  <2>2. Lasting /\ (Regular' <=> Regular)
    BY <2>1 DEF Lasting, Regular, Smooth, ForeignTeX, CairoOnly
  <2>3. BInv'
    BY <2>1, <2>2, LastingNeeds DEF QInv, BInv, Bookkeeping, Includes, IncDone, Smooth
  <2>4. Coming => Buffers' /\ EpsComes' /\ PdfComes'
    BY <2>1, <2>2, LastingNeeds DEF Coming, Buffers, EpsComes, PdfComes, Out
  <2>5. Coming => PngComes' /\ PsComes' /\ SvgComes'
    BY <2>1, <2>2, LastingNeeds DEF Coming, PngComes, PsComes, SvgComes, Out, PopplerFile, FromPdf
  <2> QED
    BY <2>2, <2>3, <2>4, <2>5 DEF QInv, Coming
<1>2. CASE LoadOneFile \/ Exit \/ delete_previous_output \/ OnlyPlain \/ Draw \/ CreateTeX
  BY <1>2, QLoad, QDeletePrevious, QOnlyPlain, QDraw, QTeX
<1>3. CASE ConvertEpsToPdf \/ WriteIncEps \/ WriteIncPdf \/ CreateEps \/ WriteEps \/ CreatePdf
  BY <1>3, QConvert, QIncEps, QIncPdf, QEps, QWriteEps, QPdf
<1>4. CASE CreatePs \/ CatPs \/ CreateBitmap \/ RecordEps \/ RecordPdf \/ delete_original_eps_pdf \/ clean_tex_temp_files
  BY <1>4, QPs, QCatPs, QBitmap, QRecordEps, QRecordPdf, QDelete, QClean
<1>5. CASE PlainPs \/ Svg \/ CannotWrite \/ Kill
  BY <1>5, QPlainPs, QSvg, QStopped
<1> QED
  BY <1>1, <1>2, <1>3, <1>4, <1>5 DEF Next

\* What has come of a format by the end is what RequestedDone expects.
LEMMA DoneIsExpected ==
  ASSUME IInv, Coming, pc = "done", NEW d \in opts.devices, ~(opts.inc /\ d \in {"eps", "pdf"})
  PROVE  PopplerFile(d) \/ NoTexts(d) \/ CutShort(d) \/ Delivered(d) = Expected(d)
<1>1. d \in Devices /\ Wants(d) /\ opts.tex \in BOOLEAN
  BY OptionTypes DEF Wants
<1>2. Delivered(d) = Out(d)
  BY DEF Delivered, Out, File, Stem
<1>3. CASE d = "eps"
  BY <1>1, <1>2, <1>3 DEF Coming, EpsComes, End, Expected, Text
<1>4. CASE d = "pdf"
  BY <1>1, <1>2, <1>4 DEF Coming, PdfComes, End, Expected, Text
<1>5. CASE d = "png"
  BY <1>1, <1>2, <1>5 DEF Coming, PngComes, End, Expected, Text
<1>6. CASE d = "ps"
  BY <1>1, <1>2, <1>6 DEF Coming, PsComes, End, Expected, NoTexts, CutShort, Figure
<1>7. CASE d = "svg"
  BY <1>1, <1>2, <1>7 DEF Coming, SvgComes, Expected, CutShort, Figure
<1> QED
  BY <1>1, <1>3, <1>4, <1>5, <1>6, <1>7 DEF Devices

\* A script that is done without a tool failing has made each output that was asked
\* for, with its LaTeX texts, where it was asked for, but for the named gaps: among
\* them PostScript and SVG cut short by an error met when the script runs.
THEOREM AllRequestedMade == Spec => []RequestedDone
<1>1. Init => RInv
  BY InitRInv
<1>2. Init => QInv
  <2>1. ASSUME Init PROVE Bookkeeping /\ Includes /\ IncDone
    BY <2>1 DEF Init, Bookkeeping, Includes, IncDone, Nothing, HasNothing, Early, Tail, AfterTeX
  <2>2. ASSUME Init PROVE Coming
    BY <2>2 DEF Init, Coming, Buffers, EpsComes, PdfComes, PngComes, PsComes, SvgComes, AfterEps, AfterPdf, End
  <2> QED
    BY <2>1, <2>2 DEF QInv, BInv
<1>3. IInv /\ RInv /\ [Next]_vars => RInv'
  BY RStep
<1>4. IInv /\ RInv /\ QInv /\ [Next]_vars => QInv'
  BY QStep
<1>5. IInv /\ QInv => RequestedDone
  <2> SUFFICES ASSUME IInv, QInv, pc = "done", "tool" \notin troubled, ~opts.nosave, NEW d \in opts.devices
               PROVE  IF opts.inc /\ d \in {"eps", "pdf"}
                      THEN files[Stem].inc = "own" /\ files[Stem][IF d = "eps" THEN "inceps" ELSE "incpdf"] = "plain"
                      ELSE ForeignTeX \/ CairoOnly \/ PopplerFile(d) \/ NoTexts(d) \/ CutShort(d)
                           \/ Delivered(d) = Expected(d)
    BY DEF RequestedDone
  <2>1. CASE opts.inc /\ d \in {"eps", "pdf"}
    BY <2>1 DEF QInv, BInv, IncDone, AfterTeX, Wants, Smooth, File
  <2>2. CASE ~(opts.inc /\ d \in {"eps", "pdf"})
    BY <2>2, DoneIsExpected DEF QInv, Regular, Smooth
  <2> QED
    BY <2>1, <2>2
<1> QED
  BY <1>1, <1>2, <1>3, <1>4, <1>5, AlwaysIInv, PTL DEF Spec
=============================================================================
