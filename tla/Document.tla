------------------------------ MODULE Document ------------------------------
(***************************************************************************)
(* What the edit mode of QGLE promises its user, who sees one picture: only *)
(* the user's own commands change it; opening another file, reloading,      *)
(* starting a new one and quitting lose what is not saved only where the    *)
(* user says so; and switching modes, rendering again and writing the       *)
(* picture back into the script never show.                                 *)
(***************************************************************************)
EXTENDS Naturals

CONSTANTS
  Files,        \* names of files
  NoFile,       \* the name of a new drawing
  NewPicture,   \* what a new drawing shows
  PictureOf(_)  \* what a user sees of the contents of a file

VARIABLES
  picture,   \* what the user sees
  file,      \* the file it is from
  saved,     \* the contents of the files
  commands,  \* number of commands the user has given
  answer     \* to the question whether to save, or that the user reloads

Init ==
  /\ commands = 0
  /\ answer = "none"
  /\ file \in Files
  /\ picture = PictureOf(saved[file])

\* The user draws, moves, deletes...
Command ==
  /\ commands' = commands + 1
  /\ UNCHANGED <<file, saved>>

\* The picture is saved, in its file or under another name.
SavedAs(f) ==
  /\ saved' = [saved EXCEPT ![f] = saved'[f]]
  /\ PictureOf(saved'[f]) = picture

Save(f) ==
  /\ file' = f
  /\ UNCHANGED <<commands, picture>>
  /\ SavedAs(f)

\* Another picture comes: it must not cost the user this one.
Replace ==
  /\ UNCHANGED commands
  /\ \/ /\ file # NoFile /\ picture = PictureOf(saved[file])
        /\ UNCHANGED saved
     \/ /\ answer' \in {"no", "reload"}
        /\ UNCHANGED saved
     \/ \E f \in Files : file \in {f, NoFile} /\ SavedAs(f)
  /\ picture' = IF file' = NoFile THEN NewPicture ELSE PictureOf(saved'[file'])

Next == Command \/ (\E f \in Files : Save(f)) \/ Replace

seen == <<commands, file, saved, picture>>

Spec == Init /\ [][Next]_seen
=============================================================================
