----------------------------- MODULE AtomicFile -----------------------------
(***************************************************************************)
(* How manifest.json, the schedule queue and the token store are written:  *)
(* into a temporary file that is then renamed over the file. manifest.go   *)
(* and scheduler.go derive the temporary name from the file's, so all the  *)
(* writers of a file share it; authstore has a name made for each writer.  *)
(*                                                                         *)
(* A name leads to an inode. A writer keeps the inode it has opened, even  *)
(* when the name leads elsewhere by now. The data a writer writes is a     *)
(* sequence of as many blocks as its size says, each with the writer's     *)
(* mark. A run or command that rewrites a file once is one write here.     *)
(* After a failed write authstore removes its file; here it stays until    *)
(* its writer, the only one who uses the name, writes again.               *)
(*                                                                         *)
(* FileFaults names what may happen besides:                               *)
(*   "crash" - a writer dies between two steps                             *)
(*   "full"  - the file cannot be written to the end, or not renamed       *)
(***************************************************************************)
EXTENDS Integers, Sequences

CONSTANTS
  Writers,   \* runs and commands that write the file
  TempName,  \* the name of the temporary file of each writer
  Size,      \* how many blocks each of them writes
  Inodes,
  NoFile,    \* the inode of a name that is not there
  Before,    \* mark of what the file held at first
  FileFaults

VARIABLES
  content,   \* blocks of each inode
  target,    \* inode of the file
  temp,      \* inode of each temporary name, or NoFile
  fd,        \* inode each writer has open, or NoFile
  done,      \* blocks each writer has written
  at         \* next step of each writer

files == <<content, target, temp>>
writers == <<fd, done, at>>
fileVars == <<files, writers>>

TempNames == {TempName[w] : w \in Writers}

Whole(w) == [i \in 1..Size[w] |-> w]

FileInit ==
  /\ target \in Inodes
  /\ content = [n \in Inodes |-> IF n = target THEN <<Before>> ELSE <<>>]
  /\ temp = [t \in TempNames |-> NoFile]
  /\ fd = [w \in Writers |-> NoFile]
  /\ done = [w \in Writers |-> 0]
  /\ at = [w \in Writers |-> "idle"]

InUse(n) ==
  n = target \/ (\E t \in TempNames : temp[t] = n) \/ (\E w \in Writers : fd[w] = n)

Proceed(w, label) == at' = [at EXCEPT ![w] = label]

Close(w) == fd' = [fd EXCEPT ![w] = NoFile]

(* Create or truncate: the inode of the name, if there is one, is emptied. *)
Open(w) ==
  /\ at[w] = "idle"
  /\ \E n \in Inodes :
       /\ IF temp[TempName[w]] = NoFile THEN ~InUse(n) ELSE n = temp[TempName[w]]
       /\ content' = [content EXCEPT ![n] = <<>>]
       /\ temp' = [temp EXCEPT ![TempName[w]] = n]
       /\ fd' = [fd EXCEPT ![w] = n]
  /\ done' = [done EXCEPT ![w] = 0]
  /\ Proceed(w, "write")
  /\ UNCHANGED target

(* The blocks from one after w's last to k are w's, the others stay.       *)
Overwrite(blocks, w, k) ==
  [i \in 1..(IF Len(blocks) < k THEN k ELSE Len(blocks)) |->
     IF i \in (done[w] + 1)..k THEN w
     ELSE IF i \in DOMAIN blocks THEN blocks[i] ELSE Before]

(* One call of write(2); a short one is followed by another.               *)
WriteBlocks(w) ==
  /\ at[w] = "write" /\ done[w] < Size[w]
  /\ \E k \in (done[w] + 1)..Size[w] :
       /\ content' = [content EXCEPT ![fd[w]] = Overwrite(@, w, k)]
       /\ done' = [done EXCEPT ![w] = k]
  /\ UNCHANGED <<target, temp, fd, at>>

CloseTemp(w) ==
  /\ at[w] = "write" /\ done[w] = Size[w]
  /\ Close(w)
  /\ Proceed(w, "rename")
  /\ UNCHANGED <<files, done>>

(* The write fails; the temporary file stays.                              *)
WriteFails(w) ==
  /\ "full" \in FileFaults
  /\ at[w] = "write"
  /\ Close(w)
  /\ Proceed(w, "idle")
  /\ UNCHANGED <<files, done>>

Rename(w) ==
  /\ at[w] = "rename"
  /\ temp[TempName[w]] # NoFile
  /\ target' = temp[TempName[w]]
  /\ temp' = [temp EXCEPT ![TempName[w]] = NoFile]
  /\ Proceed(w, "idle")
  /\ UNCHANGED <<content, fd, done>>

(* Somebody else has renamed or removed the temporary file.                *)
RenameFails(w) ==
  /\ at[w] = "rename"
  /\ temp[TempName[w]] = NoFile \/ "full" \in FileFaults
  /\ Proceed(w, "remove")
  /\ UNCHANGED <<files, fd, done>>

(* What has the name now is removed, whoever made it.                      *)
RemoveTemp(w) ==
  /\ at[w] = "remove"
  /\ temp' = [temp EXCEPT ![TempName[w]] = NoFile]
  /\ Proceed(w, "idle")
  /\ UNCHANGED <<content, target, fd, done>>

Die(w) ==
  /\ "crash" \in FileFaults
  /\ at[w] # "idle"
  /\ Close(w)
  /\ Proceed(w, "idle")
  /\ UNCHANGED <<files, done>>

FileStep(w) ==
  \/ Open(w) \/ WriteBlocks(w) \/ CloseTemp(w) \/ WriteFails(w)
  \/ Rename(w) \/ RenameFails(w) \/ RemoveTemp(w) \/ Die(w)

FileNext == \E w \in Writers : FileStep(w)

FileSpec == FileInit /\ [][FileNext]_fileVars

-----------------------------------------------------------------------------
(* Whoever reads the file finds what one writer wrote, all of it, or what  *)
(* was there before: "manifest is written to a temp file then renamed,     *)
(* preventing partial writes" (directives/scan_and_validate.md:133,        *)
(* manifest.go:256-280).                                                   *)
FileIsWhole ==
  content[target] = <<Before>> \/ \E w \in Writers : content[target] = Whole(w)

Register ==
  INSTANCE AtomicRegister WITH
    value <- content[target], Versions <- {Whole(w) : w \in Writers},
    Before <- <<Before>>

=============================================================================
