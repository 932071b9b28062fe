--------------------------- MODULE MarketingDriver ---------------------------
(***************************************************************************)
(* main() of scripts/render-marketing-screenshots.py (lines 265-306): the  *)
(* loop over the device folders (DEVICE_LABELS, in insertion order) and   *)
(* over SHOT_DECK, which renders every source screenshot it finds,        *)
(* collects the missing ones, and reports them at the end.                 *)
(*                                                                         *)
(* The filesystem the run meets is chosen in Init: whether the source root *)
(* and each device folder exist, and for each expected source file whether *)
(* it is absent, renders, or makes render_marketing_asset raise (a file    *)
(* PIL cannot decode, a degenerate resize, a failed save).  A render is   *)
(* one step: its output is written (line 262) when it returns.  Nothing   *)
(* in main() catches an exception, so a raising render ends the process.  *)
(***************************************************************************)
EXTENDS Integers, Sequences, SequencesExt

CONSTANTS
  Devices,   \* the keys of DEVICE_LABELS, in their iteration order
  NShots     \* the number of entries of SHOT_DECK

ASSUME /\ Len(Devices) >= 1
       /\ \A a, b \in 1..Len(Devices) : Devices[a] = Devices[b] => a = b
       /\ NShots \in Nat \ {0}

DeviceSet == {Devices[k] : k \in 1..Len(Devices)}
Shots == 1..NShots
Inputs == DeviceSet \X Shots

(* What render_marketing_asset does with an expected source file.          *)
Outcomes == {"absent", "renders", "raises"}

VARIABLES
  rootExists,  \* source_root.exists()
  dirExists,   \* (source_root / device_key).exists(), per device
  source,      \* the outcome of each <<device, shot index>> source file
  pc,          \* "start", "device", "shot", "done" (returned), "crashed"
  d,           \* position in Devices of the device loop
  s,           \* `index` of enumerate(SHOT_DECK, start=1)
  missing,     \* missing_inputs: the <<device, index>> pairs, in order
  rendered,    \* the outputs written, as <<device, index>> in write order
  reported,    \* the list printed under "Missing source screenshots:"
  exitCode     \* the process exit status once pc is "done" or "crashed"

vars == <<rootExists, dirExists, source, pc, d, s, missing, rendered,
          reported, exitCode>>

Device == Devices[d]

(* Every <<device, index>> pair in the order the two loops visit them.     *)
Enumeration ==
  FlattenSeq([k \in 1..Len(Devices) |-> [j \in Shots |-> <<Devices[k], j>>]])

-----------------------------------------------------------------------------
(* Mutations of the code, used to show that the properties below can fail. *)

(* missing_inputs is created inside the device loop, once per device.      *)
MissingOnEnterReset == <<>>
(* A missing file ends the shot loop (`break` where `continue` is).        *)
MissingBreak == NShots + 1
(* The exit status is the number of missing inputs.                        *)
ExitMissingCount == Len(missing)

-----------------------------------------------------------------------------
(* missing_inputs as the shot loop of a device starts: it is created once  *)
(* before the device loop (line 273).                                      *)
MissingOnEnter == missing

(* The index the shot loop goes on with after a missing file: `continue`   *)
(* (line 285).                                                             *)
AfterMissing == s + 1

(* The status `return 1` gives when inputs are missing (line 303).         *)
EXIT_MISSING == 1

Init ==
  /\ rootExists \in BOOLEAN
  /\ dirExists \in [DeviceSet -> BOOLEAN]
  /\ source \in [Inputs -> Outcomes]
  /\ pc = "start"
  /\ d = 1
  /\ s = 1
  /\ missing = <<>>
  /\ rendered = <<>>
  /\ reported = <<>>
  /\ exitCode = 0

Env == <<rootExists, dirExists, source>>

(* Lines 270-271: no source root; FileNotFoundError ends the process.      *)
RootMissing ==
  /\ pc = "start"
  /\ ~rootExists
  /\ pc' = "crashed"
  /\ exitCode' = 1
  /\ UNCHANGED <<Env, d, s, missing, rendered, reported>>

(* Lines 273-275: the device loop starts.                                  *)
Start ==
  /\ pc = "start"
  /\ rootExists
  /\ pc' = "device"
  /\ d' = 1
  /\ UNCHANGED <<Env, s, missing, rendered, reported, exitCode>>

(* Lines 276-278: a device without a folder is skipped, silently.          *)
SkipDevice ==
  /\ pc = "device"
  /\ d <= Len(Devices)
  /\ ~dirExists[Device]
  /\ d' = d + 1
  /\ UNCHANGED <<Env, pc, s, missing, rendered, reported, exitCode>>

(* Lines 276-280: the shot loop of a device with a folder starts.          *)
EnterDevice ==
  /\ pc = "device"
  /\ d <= Len(Devices)
  /\ dirExists[Device]
  /\ pc' = "shot"
  /\ s' = 1
  /\ missing' = MissingOnEnter
  /\ UNCHANGED <<Env, d, rendered, reported, exitCode>>

(* Lines 281-285: the expected source file is absent; it is recorded.      *)
RecordMissing ==
  /\ pc = "shot"
  /\ s <= NShots
  /\ source[<<Device, s>>] = "absent"
  /\ missing' = Append(missing, <<Device, s>>)
  /\ s' = AfterMissing
  /\ UNCHANGED <<Env, pc, d, rendered, reported, exitCode>>

(* Lines 287-297: render_marketing_asset returns; the output                *)
(* <output_root>/<device>/<NN>-<slug>.png is written.                      *)
Render ==
  /\ pc = "shot"
  /\ s <= NShots
  /\ source[<<Device, s>>] = "renders"
  /\ rendered' = Append(rendered, <<Device, s>>)
  /\ s' = s + 1
  /\ UNCHANGED <<Env, pc, d, missing, reported, exitCode>>

(* Lines 289-296: render_marketing_asset raises; nothing catches it, so    *)
(* the interpreter prints the traceback and exits with status 1.           *)
RenderRaises ==
  /\ pc = "shot"
  /\ s <= NShots
  /\ source[<<Device, s>>] = "raises"
  /\ pc' = "crashed"
  /\ exitCode' = 1
  /\ UNCHANGED <<Env, d, s, missing, rendered, reported>>

(* Line 280: the shot loop of a device ends; the device loop goes on.      *)
NextDevice ==
  /\ pc = "shot"
  /\ s > NShots
  /\ pc' = "device"
  /\ d' = d + 1
  /\ UNCHANGED <<Env, s, missing, rendered, reported, exitCode>>

(* Lines 299-303: some inputs were missing; they are listed, exit 1.       *)
ReportMissing ==
  /\ pc = "device"
  /\ d > Len(Devices)
  /\ missing # <<>>
  /\ reported' = missing
  /\ exitCode' = EXIT_MISSING
  /\ pc' = "done"
  /\ UNCHANGED <<Env, d, s, missing, rendered>>

(* Lines 305-306: nothing was missing; exit 0.                             *)
Complete ==
  /\ pc = "device"
  /\ d > Len(Devices)
  /\ missing = <<>>
  /\ exitCode' = 0
  /\ pc' = "done"
  /\ UNCHANGED <<Env, d, s, missing, rendered, reported>>

Next ==
  \/ RootMissing
  \/ Start
  \/ SkipDevice
  \/ EnterDevice
  \/ RecordMissing
  \/ Render
  \/ RenderRaises
  \/ NextDevice
  \/ ReportMissing
  \/ Complete

Spec == Init /\ [][Next]_vars

(* main() is one sequential process that runs until it returns or raises;  *)
(* nothing else competes for it, so a step it can take is taken.          *)
FairSpec == Spec /\ WF_vars(Next)

-----------------------------------------------------------------------------
(* The inputs of a present device folder whose source file has outcome o,  *)
(* in the order the loops visit them.                                      *)
Expected(o) ==
  SelectSeq(Enumeration, LAMBDA p : dirExists[p[1]] /\ source[p] = o)

TypeOK ==
  /\ rootExists \in BOOLEAN
  /\ dirExists \in [DeviceSet -> BOOLEAN]
  /\ source \in [Inputs -> Outcomes]
  /\ pc \in {"start", "device", "shot", "done", "crashed"}
  /\ d \in 1..(Len(Devices) + 1)
  /\ s \in 1..(NShots + 1)
  /\ missing \in Seq(Inputs)
  /\ rendered \in Seq(Inputs)
  /\ reported \in Seq(Inputs)
  /\ exitCode \in {0, 1}

(* Spec sections 4.7, 6 and 8: a run that returns lists exactly the       *)
(* missing source files of the device folders that exist, in the order    *)
(* of the loops, never a file of an absent device folder, and exits with   *)
(* status 1 exactly when that list is not empty.  It rests on             *)
(* missing_inputs surviving from one device to the next.                   *)
MissingReportExact ==
  pc = "done" =>
    /\ reported = Expected("absent")
    /\ exitCode = IF Expected("absent") = <<>> THEN 0 ELSE 1

(* Spec sections 5 and 6: a run that returns has rendered every source     *)
(* file of every present device folder, each once, in the enumerated       *)
(* order, even when files before it were missing.                          *)
AllResolvableRendered ==
  pc = "done" => rendered = Expected("renders")

-----------------------------------------------------------------------------
(* The refinement mapping onto BatchDriver.  The queue is the inputs of   *)
(* the present device folders in loop order; the position of the loops   *)
(* counts the inputs visited, those of absent folders (skipped at line    *)
(* 278) falling out of the count.                                          *)
Position ==
  IF pc \in {"shot", "crashed"} THEN (d - 1) * NShots + s - 1
  ELSE (d - 1) * NShots

PresentOnly(seq) == SelectSeq(seq, LAMBDA p : dirExists[p[1]])

Batch == INSTANCE BatchDriver WITH
  Items    <- Inputs,
  kind     <- [p \in Inputs |-> IF source[p] = "renders" THEN "produces" ELSE source[p]],
  queue    <- PresentOnly(Enumeration),
  next     <- Len(PresentOnly(SubSeq(Enumeration, 1, Position))),
  produced <- rendered,
  missed   <- missing,
  report   <- reported,
  status   <- CASE pc = "start" -> "start"
                [] pc \in {"device", "shot"} -> "running"
                [] pc = "done" -> "done"
                [] pc = "crashed" -> "aborted"

(* Spec sections 4.7, 4.8 and 5: the two nested loops of main() are one    *)
(* batch over the inputs of the present device folders: each is visited   *)
(* once, in order, noted missing, rendered, or ends the run by raising;   *)
(* the run always ends, and when it returns it reports the missing inputs *)
(* and exits 1 exactly when there are some.                                *)
BatchRefinement == Batch!FairSpec

=============================================================================
