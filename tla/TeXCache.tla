------------------------------ MODULE TeXCache ------------------------------
(***************************************************************************)
(* TeXInterface (texinterface.cpp) and the loop of process_one_file_tex    *)
(* (gle.cpp) around it: GLE needs the size of a LaTeX text to lay out a    *)
(* figure, and LaTeX needs the text to tell its size.  A pass over the     *)
(* script collects the texts; when there are new ones, LaTeX and dvips     *)
(* typeset one page for each, and the next pass reads the sizes off the    *)
(* pages.  The texts (.texlines) and the pages (.ps) stay in the directory *)
(* .gle beside the script, for the next run; so do the sizes of the fonts  *)
(* of every preamble (.gle/texpreamble.pinfo), measured the same way.      *)
(*                                                                         *)
(* The text typeset is a line <<t, s>>: text t in the font that fits the   *)
(* height of characters by the sizes s.  Sizes are named by the preamble   *)
(* they have been measured under.  What has been read off a page is the    *)
(* preamble and the line that page was made of.                            *)
(***************************************************************************)
EXTENDS Integers, Sequences, FiniteSets

CONSTANTS
  Texts,      \* LaTeX texts
  Preambles,  \* document class and preamble
  Default,    \* the preamble of a script without "begin texpreamble"
  Scripts,    \* what a script draws, see Script
  MaxRuns,    \* bound: runs of GLE on the script
  MaxFaults   \* bound: failures of LaTeX or dvips, and crashes

ASSUME DefaultAssumption == Default \in Preambles
ASSUME BoundsAssumption == MaxRuns \in Nat \ {0} /\ MaxFaults \in Nat

\* A text that is measured and, unless "dont_print" is set, drawn.
Draws == [text : Texts, print : BOOLEAN]
\* The script draws "always" and, if its first text has a known size, "fits".
Script == [pre : Preambles, always : Seq(Draws) \ {<<>>}, fits : Seq(Draws)]
ASSUME ScriptsAssumption == Scripts \subseteq Script

VARIABLES
  pc,        \* "off", where process_one_file_tex is, or how it ended
  script,    \* the script of the current run
  drawn,     \* how many texts of the script the current pass has met
  hash,      \* m_TeXHash: line, dims and used of every object
  objects,   \* m_TeXObjects: lines drawn, with the dims they are drawn at
  loaded,    \* m_HashLoaded
  modified,  \* m_HashModified
  infos,     \* m_Preambles: preambles and their font sizes
  texlines,  \* the file .texlines
  ps,        \* the file .ps
  pinfo,     \* the file texpreamble.pinfo
  pps,       \* the file texpreamble.ps: the preamble it is made with
  measured,  \* the current run has had the pages made anew
  runs,      \* runs so far
  faults     \* failures and crashes so far

memory == <<hash, objects, loaded, modified>>
files == <<texlines, ps, pinfo, pps>>
vars == <<pc, script, drawn, memory, infos, files, measured, runs, faults>>

Ended == {"off", "done", "failed"}

NoFile == "NoFile"
\* No .ps file: there are no pages to be read.
NoPages == [pre |-> Default, lines |-> <<>>]
\* Font sizes: not asked for, LaTeX gave none, what is read for none: zeros.
Unknown == "Unknown"
None == "None"
Zero == "Zero"
Sizes == Preambles \cup {None, Zero}
Lines == Texts \X Sizes
\* The size of an object that has none.
NoDims == [pre |-> "none", line |-> <<>>]
Dims == [pre : Preambles, line : Lines]
Infos == [pre : Preambles, sizes : Sizes \cup {Unknown}]

\* No preamble goes by one of these names.
ASSUME PreamblesAssumption == Preambles \cap {Unknown, None, Zero} = {}

NoInfos == <<[pre |-> Default, sizes |-> Unknown]>>

-----------------------------------------------------------------------------
(* The hash: lines, and what is read off the pages.                        *)

Has(h, line) == \E i \in DOMAIN h : h[i].line = line
Of(h, line) == h[CHOOSE i \in DOMAIN h : h[i].line = line /\ \A j \in 1 .. i - 1 : h[j].line # line]
\* The members of s at the places of S, in their order: the n-th has n places up to it.
PlacesUpTo(S, i) == Cardinality(S \cap 1 .. i)
Picked(s, S) == [n \in 1 .. PlacesUpTo(S, Len(s)) |-> s[CHOOSE i \in S : PlacesUpTo(S, i) = n]]
\* The objects that are used.
Used(h) == Picked(h, {i \in DOMAIN h : h[i].used})
LinesOf(h) == [i \in DOMAIN h |-> h[i].line]

\* loadTeXLines: objects without dims and not used.
LoadTeXLines(ls) == [i \in DOMAIN ls |-> [line |-> ls[i], dims |-> NoDims, used |-> FALSE]]

\* Mutant: the calibration page is taken for the page of the first object.
LoadTeXPSOffByOne(h, pages) ==
  [i \in DOMAIN h |->
     IF i > 1 /\ i - 1 \in DOMAIN pages.lines
     THEN [h[i] EXCEPT !.dims = [pre |-> pages.pre, line |-> pages.lines[i - 1]]]
     ELSE h[i]]

\* loadTeXPS: the n-th page is that of the n-th object, whatever is on it.
LoadTeXPS(h, pages) ==
  [i \in DOMAIN h |->
     IF i \in DOMAIN pages.lines
     THEN [h[i] EXCEPT !.dims = [pre |-> pages.pre, line |-> pages.lines[i]]]
     ELSE h[i]]

\* tryLoadHash
Loaded ==
  IF loaded = "full" THEN hash
  ELSE LoadTeXPS(IF loaded = "none" THEN hash \o LoadTeXLines(texlines) ELSE hash, ps)

\* Mutant: an object without a size is not found, and added once more.
UseMeasured(h, line) ==
  IF Has(h, line) /\ (Of(h, line)).dims # NoDims
  THEN [i \in DOMAIN h |-> IF h[i] = Of(h, line) THEN [h[i] EXCEPT !.used = TRUE] ELSE h[i]]
  ELSE Append(h, [line |-> line, dims |-> NoDims, used |-> TRUE])

\* getHashObjectIndex and setUsed
Use(h, line) ==
  IF Has(h, line)
  THEN [i \in DOMAIN h |-> IF h[i] = Of(h, line) THEN [h[i] EXCEPT !.used = TRUE] ELSE h[i]]
  ELSE Append(h, [line |-> line, dims |-> NoDims, used |-> TRUE])

-----------------------------------------------------------------------------
(* The font sizes of the preambles.                                        *)

Known(is, p) == \E i \in DOMAIN is : is[i].pre = p
SizesOf(is, p) == IF Known(is, p)
                  THEN (is[CHOOSE i \in DOMAIN is : is[i].pre = p]).sizes ELSE Unknown
FindOrAdd(is, p) == IF Known(is, p) THEN is ELSE Append(is, [pre |-> p, sizes |-> Unknown])
SetSizes(is, p, s) == [i \in DOMAIN is |->
                         IF is[i].pre = p THEN [is[i] EXCEPT !.sizes = s] ELSE is[i]]

\* TeXPreambleInfoList::load: a record without numbers is read as zeros, and is
\* the last that is read.
LoadInfos(is, file) ==
  LET f[n \in 0 .. Len(file)] ==
        IF n = 0 \/ (n > 1 /\ file[n - 1].sizes = None) THEN is
        ELSE SetSizes(FindOrAdd(f[n - 1], file[n].pre), file[n].pre,
                      IF file[n].sizes = None THEN Zero ELSE file[n].sizes)
      last == {n \in DOMAIN file : \A m \in 1 .. n - 1 : file[m].sizes # None}
  IN  f[Cardinality(last)]

\* TeXPreambleInfoList::save: those whose sizes have been asked for.
SaveInfos(is) == Picked(is, {i \in DOMAIN is : is[i].sizes # Unknown})

-----------------------------------------------------------------------------
Init ==
  /\ pc = "off" /\ script \in Scripts /\ drawn = 0
  /\ hash = <<>> /\ objects = {} /\ loaded = "none" /\ modified = FALSE
  /\ infos = NoInfos
  /\ texlines = <<>> /\ ps = NoPages /\ pinfo = <<>> /\ pps = NoFile
  /\ measured = FALSE /\ runs = 0 /\ faults = 0

\* process_one_file_tex on a script that may have been edited, by the process
\* of the last run or a new one.
Run ==
  /\ pc \in Ended /\ runs < MaxRuns
  /\ script' \in Scripts
  /\ infos' \in {infos, NoInfos}
  /\ hash' = <<>> /\ objects' = {} /\ loaded' = "none" /\ modified' = FALSE
  /\ measured' = FALSE /\ runs' = runs + 1
  /\ pc' = "reset"
  /\ UNCHANGED <<drawn, files, faults>>

\* Mutant: objects that are not used stay in the hash.
ResetKeepsUnused ==
  /\ pc = "reset"
  /\ hash' = hash
  /\ objects' = {} /\ modified' = FALSE /\ drawn' = 0
  /\ infos' = FindOrAdd(infos, script.pre)
  /\ pc' = "draw"
  /\ UNCHANGED <<script, loaded, files, measured, runs, faults>>

\* A pass begins: reset, and the texpreamble block at the head of the script.
Reset ==
  /\ pc = "reset"
  /\ hash' = Used(hash)
  /\ objects' = {} /\ modified' = FALSE /\ drawn' = 0
  /\ infos' = FindOrAdd(infos, script.pre)
  /\ pc' = "draw"
  /\ UNCHANGED <<script, loaded, files, measured, runs, faults>>

FontSizes == SizesOf(infos, script.pre)
LineOf(d) == <<d.text, FontSizes>>
Fits == LET line == LineOf(script.always[1])
        IN  Has(hash, line) /\ (Of(hash, line)).dims # NoDims
Drawing == script.always \o (IF drawn > 0 /\ Fits THEN script.fits ELSE <<>>)
InPass == pc = "draw" /\ drawn < Len(Drawing)

\* Mutant: the sizes read from the file are those of whatever preamble was
\* measured last.
CheckTeXFontSizesOfAny ==
  /\ InPass /\ FontSizes = Unknown
  /\ LET read == LoadInfos(infos, pinfo)
         keep(sizes) == infos' = SetSizes(read, script.pre, sizes) /\ pinfo' = SaveInfos(infos')
     IN  \/ pinfo # <<>> /\ infos' = SetSizes(read, script.pre, pinfo[Len(pinfo)].sizes)
            /\ UNCHANGED <<pinfo, pps, faults>>
         \/ pinfo = <<>> /\ pps' = script.pre /\ keep(script.pre) /\ UNCHANGED faults
  /\ UNCHANGED <<pc, script, drawn, memory, texlines, ps, measured, runs>>

\* checkTeXFontSizes: from the file, or from the ten pages LaTeX makes for this
\* preamble.  Whether LaTeX and dvips succeed is not looked at: the pages that
\* are there are read, and what they give is saved.
CheckTeXFontSizes ==
  /\ InPass /\ FontSizes = Unknown
  /\ LET read == LoadInfos(infos, pinfo)
         keep(sizes) == infos' = SetSizes(read, script.pre, sizes) /\ pinfo' = SaveInfos(infos')
     IN  \/ /\ SizesOf(read, script.pre) # Unknown
            /\ infos' = read
            /\ UNCHANGED <<pinfo, pps, faults>>
         \/ /\ SizesOf(read, script.pre) = Unknown
            /\ pps' = script.pre /\ keep(script.pre)
            /\ UNCHANGED faults
         \/ /\ SizesOf(read, script.pre) = Unknown /\ faults < MaxFaults
            /\ pps' \in {pps, NoFile}
            /\ keep(IF pps' = NoFile THEN None ELSE pps')
            /\ faults' = faults + 1
  /\ UNCHANGED <<pc, script, drawn, memory, texlines, ps, measured, runs>>

\* draw, and createObj with drawObj: the object is looked up or added, and drawn
\* at the dims it has.
Draw ==
  /\ InPass /\ FontSizes # Unknown
  /\ LET d == Drawing[drawn + 1]
         line == LineOf(d)
     IN  /\ hash' = Use(Loaded, line)
         /\ modified' = ((loaded = "full" /\ modified) \/ ~Has(Loaded, line))
         /\ objects' = IF d.print THEN objects \cup {[line |-> line, dims |-> (Of(hash', line)).dims]}
                       ELSE objects
  /\ loaded' = "full" /\ drawn' = drawn + 1
  /\ UNCHANGED <<pc, script, infos, files, measured, runs, faults>>

\* The script has an error: no output, and the files stay as they are.
DrawError ==
  /\ pc = "draw"
  /\ pc' = "failed"
  /\ UNCHANGED <<script, drawn, memory, infos, files, measured, runs, faults>>

EndPass == pc = "draw" /\ drawn = Len(Drawing)

\* Mutant: LaTeX is run whether there are new lines or not.
TryCreateHashAlways ==
  /\ EndPass
  /\ IF objects # {}
     THEN pc' = "latex" /\ texlines' = LinesOf(Used(hash))
     ELSE pc' = "done" /\ UNCHANGED texlines
  /\ UNCHANGED <<script, drawn, memory, infos, ps, pinfo, pps, measured, runs, faults>>

\* tryCreateHash: nothing to do, or saveTeXLines and on to LaTeX.
TryCreateHash ==
  /\ EndPass
  /\ IF modified /\ objects # {}
     THEN pc' = "latex" /\ texlines' = LinesOf(Used(hash))
     ELSE pc' = "done" /\ UNCHANGED texlines
  /\ UNCHANGED <<script, drawn, memory, infos, ps, pinfo, pps, measured, runs, faults>>

\* run_latex on the pages of saveTeXPS; when it fails the .ps is not touched.
Latex ==
  /\ pc = "latex"
  /\ \/ pc' = "dvips" /\ UNCHANGED faults
     \/ faults < MaxFaults /\ pc' = "failed" /\ faults' = faults + 1
  /\ UNCHANGED <<script, drawn, memory, infos, files, measured, runs>>

\* Mutant: the pages are those of all objects, used or not.
DvipsAll ==
  /\ pc = "dvips"
  /\ ps' = [pre |-> script.pre, lines |-> LinesOf(hash)]
  /\ loaded' = "partial" /\ measured' = TRUE /\ pc' = "reset"
  /\ UNCHANGED <<script, drawn, hash, objects, modified, infos, texlines, pinfo, pps, runs, faults>>

\* run_dvips deletes the .ps and makes it anew; another pass will read it.
Dvips ==
  /\ pc = "dvips"
  /\ \/ /\ ps' = [pre |-> script.pre, lines |-> LinesOf(Used(hash))]
        /\ loaded' = "partial" /\ measured' = TRUE /\ pc' = "reset"
        /\ UNCHANGED faults
     \/ /\ faults < MaxFaults
        /\ ps' = NoPages /\ pc' = "failed" /\ faults' = faults + 1
        /\ UNCHANGED <<loaded, measured>>
  /\ UNCHANGED <<script, drawn, hash, objects, modified, infos, texlines, pinfo, pps, runs>>

\* The process ends in the middle of a run.
Crash ==
  /\ pc \notin Ended /\ faults < MaxFaults
  /\ pc' = "off" /\ infos' = NoInfos /\ faults' = faults + 1
  /\ ps' \in {ps} \cup (IF pc = "dvips" THEN {NoPages} ELSE {})
  /\ UNCHANGED <<script, drawn, memory, texlines, pinfo, pps, measured, runs>>

Step == Reset \/ CheckTeXFontSizes \/ Draw \/ TryCreateHash \/ Latex \/ Dvips

Next == Run \/ Step \/ DrawError \/ Crash

\* A run goes on: GLE takes its steps, and LaTeX and dvips return.
Spec == Init /\ [][Next]_vars /\ WF_vars(Step)

-----------------------------------------------------------------------------
\* The variables hold what the members and the files can hold, and m_TeXHash has
\* one object for a line.
TypeOK ==
  /\ \A i, j \in DOMAIN hash : hash[i].line = hash[j].line => i = j
  /\ pc \in {"off", "reset", "draw", "latex", "dvips", "done", "failed"}
  /\ script \in Scripts /\ drawn \in Nat
  /\ hash \in Seq([line : Lines, dims : Dims \cup {NoDims}, used : BOOLEAN])
  /\ objects \subseteq [line : Lines, dims : Dims \cup {NoDims}]
  /\ loaded \in {"none", "partial", "full"} /\ modified \in BOOLEAN
  /\ infos \in Seq(Infos) /\ pinfo \in Seq(Infos)
  /\ texlines \in Seq(Lines)
  /\ ps \in [pre : Preambles, lines : Seq(Lines)]
  /\ pps \in Preambles \cup {NoFile}
  /\ measured \in BOOLEAN /\ runs \in 0 .. MaxRuns /\ faults \in 0 .. MaxFaults

\* As long as no LaTeX run has failed or been cut short, every text of a figure
\* has been laid out with the size of that text, in whichever run it was measured
\* and however the script has been edited since.
OwnDimensions ==
  pc = "done" /\ faults = 0 =>
    \A o \in objects : o.dims # NoDims /\ (o.dims).line = o.line

\* A run that has had its texts measured is right about all of them, under its own
\* preamble, whatever earlier runs have left in the files.
MeasuredInThisRun ==
  pc = "done" /\ measured =>
    \A o \in objects : o.dims = [pre |-> script.pre, line |-> o.line]

\* As long as nothing has failed, the font of a text has been chosen by the sizes
\* of the preamble it is typeset with, also when the preamble has been edited.
SizesOfPreamble ==
  faults = 0 => \A o \in objects : o.line[2] = script.pre

\* The loop over the passes ends ("In some cases two passes are required"),
\* although what is measured in one pass may make the next one draw more.
PassesEnd == pc = "reset" ~> pc \in Ended
=============================================================================
