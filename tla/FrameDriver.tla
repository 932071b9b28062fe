----------------------------- MODULE FrameDriver -----------------------------
(***************************************************************************)
(* main() of scripts/render-iphone-framed-screenshots.py (lines 190-210)   *)
(* and the natural_sort_key it sorts the source files with (lines 45-48). *)
(*                                                                         *)
(* The source directory the run meets is chosen in Init: whether it        *)
(* exists, which of the candidate PNG files it holds, the number embedded  *)
(* in each name as "screenshot-<digits>-" (or none), whether framing and  *)
(* saving the file succeeds, raises before the save, or raises in the     *)
(* save, and what an earlier run left in output_dir under each name      *)
(* (output_dir is a directory apart from source_dir).  File names are     *)
(* model values; their string order is their position in the constant Files.  Framing   *)
(* and saving one file is one step: its output is written when it returns. *)
(***************************************************************************)
EXTENDS Integers, Sequences, SequencesExt

CONSTANTS
  Files,        \* candidate *.png file names, in their string order
  IndexValues,  \* numbers a name may embed after "screenshot-"
  NoIndex       \* a name the regex of line 46 does not match

ASSUME /\ Len(Files) >= 1
       /\ IndexValues \subseteq Nat
       /\ NoIndex \notin Nat

FileSet == {Files[k] : k \in 1..Len(Files)}

(* The position of a name in string order.                                *)
NameRank(f) == CHOOSE k \in 1..Len(Files) : Files[k] = f

Outcomes == {"frames", "raises", "savefails"}

UNINDEXED == 999   \* the number line 47 gives a name without an index

VARIABLES
  dirExists,  \* source_dir.exists()
  present,    \* the names source_dir.glob("*.png") yields
  index,      \* the number embedded in each name, or NoIndex
  outcome,    \* "frames", "raises" (open or frame), "savefails" (in save)
  leftover,   \* output_dir as the run met it: "none", "stale" or "partial"
  outFile,    \* output_dir now, by name: the above, or "fresh" (this run)
  pc,         \* "start", "loop", "done" (returned), "crashed"
  order,      \* source_files: the sorted list of names
  k,          \* position in source_files of the for loop
  written,    \* the outputs written, by name, in write order
  exitCode    \* the process exit status once pc is "done" or "crashed"

vars == <<dirExists, present, index, outcome, leftover, outFile, pc, order, k,
          written, exitCode>>

Env == <<dirExists, present, index, outcome, leftover>>

(* Sorting keys compare as Python tuples: lexicographically.               *)
KeyLess(a, b) == a[1] < b[1] \/ (a[1] = b[1] /\ a[2] < b[2])

-----------------------------------------------------------------------------
(* Mutation of the code, used to show that the properties below can fail:  *)
(* the key is the bare file name (a plain sorted()).                       *)
NameOnlyKey(f) == <<0, NameRank(f)>>
(* The exit status is the number of files framed.                          *)
ExitCount == Len(order)
(* The loop stops one file early: `range(len(source_files) - 1)`.         *)
CompleteEarly ==
  /\ pc = "loop"
  /\ k >= Len(order)
  /\ pc' = "done"
  /\ exitCode' = 0
  /\ UNCHANGED <<Env, order, k, written, outFile>>

-----------------------------------------------------------------------------
(* The status `return 0` gives after the loop (line 210).                  *)
EXIT_OK == 0

(* natural_sort_key (lines 45-48): (number, name), 999 without a number.   *)
natural_sort_key(f) ==
  <<IF index[f] = NoIndex THEN UNINDEXED ELSE index[f], NameRank(f)>>

(* sorted(source_dir.glob("*.png"), key=natural_sort_key) (line 197).      *)
SortedSources ==
  SetToSortSeq(present,
               LAMBDA a, b : KeyLess(natural_sort_key(a), natural_sort_key(b)))

Init ==
  /\ dirExists \in BOOLEAN
  /\ present \in SUBSET FileSet
  /\ index \in [FileSet -> IndexValues \cup {NoIndex}]
  /\ outcome \in [FileSet -> Outcomes]
  /\ leftover \in [FileSet -> {"none", "stale", "partial"}]
  /\ outFile = leftover
  /\ pc = "start"
  /\ order = <<>>
  /\ k = 1
  /\ written = <<>>
  /\ exitCode = 0

(* Lines 194-195: no source directory; FileNotFoundError ends the process. *)
DirMissing ==
  /\ pc = "start"
  /\ ~dirExists
  /\ pc' = "crashed"
  /\ exitCode' = 1
  /\ UNCHANGED <<Env, order, k, written, outFile>>

(* Lines 197-199: no PNG file; FileNotFoundError ends the process.         *)
NoSources ==
  /\ pc = "start"
  /\ dirExists
  /\ present = {}
  /\ order' = <<>>
  /\ pc' = "crashed"
  /\ exitCode' = 1
  /\ UNCHANGED <<Env, k, written, outFile>>

(* Lines 197-203: the files are sorted, output_dir is created, and the     *)
(* loop starts.                                                            *)
Enumerate ==
  /\ pc = "start"
  /\ dirExists
  /\ present # {}
  /\ order' = SortedSources
  /\ k' = 1
  /\ pc' = "loop"
  /\ UNCHANGED <<Env, written, exitCode, outFile>>

(* Lines 203-207: the file is framed and saved under its own name.         *)
Frame ==
  /\ pc = "loop"
  /\ k <= Len(order)
  /\ outcome[order[k]] = "frames"
  /\ written' = Append(written, order[k])
  /\ outFile' = [outFile EXCEPT ![order[k]] = "fresh"]
  /\ k' = k + 1
  /\ UNCHANGED <<Env, pc, order, exitCode>>

(* Lines 204-206: opening or framing raises before the save; nothing catches it.   *)
FrameRaises ==
  /\ pc = "loop"
  /\ k <= Len(order)
  /\ outcome[order[k]] = "raises"
  /\ pc' = "crashed"
  /\ exitCode' = 1
  /\ UNCHANGED <<Env, order, k, written, outFile>>

(* Line 206: framed.save opens output_path for writing, truncating what   *)
(* was there, and raises while writing (disk full, I/O error, a killed    *)
(* process).  Pillow then removes the file only if the save created it;   *)
(* an older Pillow, or a process killed mid-write, leaves it truncated.   *)
SaveRaises ==
  /\ pc = "loop"
  /\ k <= Len(order)
  /\ outcome[order[k]] = "savefails"
  /\ \E left \in IF outFile[order[k]] = "none" THEN {"none", "partial"}
                                               ELSE {"partial"} :
       outFile' = [outFile EXCEPT ![order[k]] = left]
  /\ pc' = "crashed"
  /\ exitCode' = 1
  /\ UNCHANGED <<Env, order, k, written>>

(* Lines 209-210: every file framed; the count is printed, exit 0.         *)
Complete ==
  /\ pc = "loop"
  /\ k > Len(order)
  /\ pc' = "done"
  /\ exitCode' = EXIT_OK
  /\ UNCHANGED <<Env, order, k, written, outFile>>

Next ==
  \/ DirMissing
  \/ NoSources
  \/ Enumerate
  \/ Frame
  \/ FrameRaises
  \/ SaveRaises
  \/ Complete

Spec == Init /\ [][Next]_vars

(* main() is one sequential process that runs until it returns or raises;  *)
(* nothing else competes for it, so a step it can take is taken.          *)
FairSpec == Spec /\ WF_vars(Next)

-----------------------------------------------------------------------------
Indexed(f) == index[f] # NoIndex

(* The files written at positions a < b.                                   *)
WrittenPairs ==
  {<<written[a], written[b]>> :
     <<a, b>> \in {q \in (1..Len(written)) \X (1..Len(written)) : q[1] < q[2]}}

TypeOK ==
  /\ dirExists \in BOOLEAN
  /\ present \subseteq FileSet
  /\ index \in [FileSet -> IndexValues \cup {NoIndex}]
  /\ outcome \in [FileSet -> Outcomes]
  /\ leftover \in [FileSet -> {"none", "stale", "partial"}]
  /\ outFile \in [FileSet -> {"none", "stale", "partial", "fresh"}]
  /\ pc \in {"start", "loop", "done", "crashed"}
  /\ order \in Seq(FileSet)
  /\ k \in 1..(Len(Files) + 1)
  /\ written \in Seq(FileSet)
  /\ exitCode \in {0, 1}

(* Spec sections 4.7 and 8, natural ordering: the framed files are         *)
(* written in numeric order of their embedded numbers (1, 2, 10, not 1,    *)
(* 10, 2), files with the same number in name order.                       *)
NaturalOrder ==
  \A p \in WrittenPairs :
    Indexed(p[1]) /\ Indexed(p[2]) =>
      \/ index[p[1]] < index[p[2]]
      \/ index[p[1]] = index[p[2]] /\ NameRank(p[1]) < NameRank(p[2])

(* The names the loop has framed and saved: source_files[:k-1].           *)
FramedSoFar == {order[j] : j \in 1..(k - 1)}

(* The file whose framed.save raised, if the run ended that way.           *)
SaveFailedOn(f) ==
  pc = "crashed" /\ k <= Len(order) /\ f = order[k] /\ outcome[f] = "savefails"

(* Spec section 5, one framed PNG per input, across a crash and a re-run: *)
(* output_dir differs from what the run met only in the names the loop has *)
(* reached: each one framed is this run's output, the one whose save      *)
(* raised is truncated (or gone, if the save created it), and every other *)
(* name holds what an earlier run left; when main() returns, every source *)
(* has this run's output, whatever truncated or stale file a crashed      *)
(* earlier run left under its name.                                        *)
OutputsTrackProgress ==
  /\ \A f \in FileSet :
       CASE f \in FramedSoFar -> outFile[f] = "fresh"
         [] SaveFailedOn(f)    -> outFile[f] \in {"partial"} \cup ({"none"} \cap {leftover[f]})
         [] OTHER              -> outFile[f] = leftover[f]
  /\ pc = "done" => \A f \in present : outFile[f] = "fresh"

-----------------------------------------------------------------------------
(* The refinement mapping onto BatchDriver: the queue is the sorted list   *)
(* of line 197, k - 1 files of it have been framed, and no file is ever    *)
(* missing (the loop only visits files glob found).                        *)
Batch == INSTANCE BatchDriver WITH
  Items    <- FileSet,
  kind     <- [f \in FileSet |-> IF outcome[f] = "frames" THEN "produces" ELSE "raises"],
  queue    <- SortedSources,
  next     <- k - 1,
  produced <- written,
  missed   <- <<>>,
  report   <- <<>>,
  status   <- CASE pc = "start" -> "start"
                [] pc = "loop" -> "running"
                [] pc = "done" -> "done"
                [] pc = "crashed" -> "aborted"

(* Spec sections 4.8 and 5: main() is a batch over the sorted source files:*)
(* each is framed once, in the sorted order, or ends the run by raising;  *)
(* the run always ends, and when it returns it exits 0.                    *)
BatchRefinement == Batch!FairSpec

=============================================================================
