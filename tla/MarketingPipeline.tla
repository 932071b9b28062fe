-------------------------- MODULE MarketingPipeline --------------------------
(***************************************************************************)
(* scripts/render-marketing-screenshots.py as a whole: main() (lines       *)
(* 265-306, MarketingDriver) calls render_marketing_asset (lines 139-262,  *)
(* MarketingLayout) on each source file it finds.  The composition        *)
(* replaces the driver's chosen outcome of a source file by the file      *)
(* itself: whether it decodes and its size, and the run of the layout on  *)
(* it, which returns or raises.  The font files of the machine are the    *)
(* same for every render of the run.                                       *)
(*                                                                         *)
(* The driver's variables and the layout's are both the composition's;    *)
(* the layout's pc is lpc.  While a render runs, main() waits in its shot  *)
(* loop; the render's end records its result, and the driver's Render or  *)
(* RenderRaises step follows.                                              *)
(***************************************************************************)
EXTENDS Integers, Sequences

CONSTANTS
  Devices,     \* the keys of DEVICE_LABELS, in their iteration order
  NShots,      \* the number of entries of SHOT_DECK
  Sizes,       \* sizes <<width, height>> a source screenshot may have
  FontStates   \* what each candidate font file may be on the machine

DeviceSet == {Devices[k] : k \in 1..Len(Devices)}
Inputs == DeviceSet \X (1..NShots)

(* An expected source file: absent, or present with a size and a content  *)
(* PIL decodes or not.                                                     *)
NoFile == [exists |-> FALSE, decodes |-> FALSE, size |-> <<0, 0>>]
ShotFiles == {NoFile} \cup [exists : {TRUE}, decodes : BOOLEAN, size : Sizes]

VARIABLES
  rootExists, dirExists,             \* the source tree
  shotFile,                          \* the file of each <<device, index>>
  result,                            \* "pending", then how its render ended
  pc, d, s, missing, rendered,       \* main()
  reported, exitCode,
  width, height, fontFile,           \* render_marketing_asset
  headLines, subLines, headDesc, subDesc, decodes,
  lpc, fonts, frame, resized, app

driverVars == <<rootExists, dirExists, pc, d, s, missing, rendered,
                reported, exitCode>>
layoutVars == <<width, height, fontFile, headLines, subLines, headDesc,
                subDesc, decodes, lpc, fonts, frame, resized, app>>
vars == <<driverVars, shotFile, result, layoutVars>>

(* What the driver sees of a source file: absent, or how its render went.  *)
Driver == INSTANCE MarketingDriver WITH
  source <- [p \in Inputs |-> IF shotFile[p].exists THEN result[p] ELSE "absent"]

Layout == INSTANCE MarketingLayout WITH pc <- lpc

Current == <<Devices[d], s>>

Init ==
  /\ rootExists \in BOOLEAN
  /\ dirExists \in [DeviceSet -> BOOLEAN]
  /\ shotFile \in [Inputs -> ShotFiles]
  /\ result = [p \in Inputs |-> "pending"]
  /\ pc = "start" /\ d = 1 /\ s = 1
  /\ missing = <<>> /\ rendered = <<>> /\ reported = <<>> /\ exitCode = 0
  /\ fontFile \in [Layout!FontPaths -> FontStates]
  /\ width = 0 /\ height = 0 /\ decodes = FALSE
  /\ headLines = 1 /\ subLines = 1 /\ headDesc = FALSE /\ subDesc = FALSE
  /\ lpc = "idle"
  /\ fonts = [r \in {} |-> 0]
  /\ frame = [top |-> 0, bottom |-> 0, left |-> 0, right |-> 0]
  /\ resized = <<0, 0>> /\ app = <<0, 0>>

(* A step of main() alone.                                                 *)
DriverStep(A) == UNCHANGED <<shotFile, result, layoutVars>> /\ A

(* A step inside render_marketing_asset; main() waits.                    *)
LayoutStep(A) == UNCHANGED <<driverVars, shotFile, result>> /\ A

(* The last step of render_marketing_asset: it returned or raised.         *)
EndRender(A, r) ==
  /\ A
  /\ UNCHANGED <<driverVars, shotFile>>
  /\ result' = [result EXCEPT ![Current] = r]

(* Lines 287-296 and 147-148: the present source file is opened; its size *)
(* and content are the file's, the headline and subtitle wrap to one or   *)
(* two lines at that width.                                                *)
BeginRender ==
  /\ pc = "shot"
  /\ s <= NShots
  /\ shotFile[Current].exists
  /\ result[Current] = "pending"
  /\ lpc \in {"idle", "done", "raised"}
  /\ width' = shotFile[Current].size[1]
  /\ height' = shotFile[Current].size[2]
  /\ decodes' = shotFile[Current].decodes
  /\ headLines' \in {1, 2} /\ subLines' \in {1, 2}
  /\ headDesc' \in BOOLEAN /\ subDesc' \in BOOLEAN
  /\ lpc' = "fonts"
  /\ fonts' = [r \in {} |-> 0]
  /\ frame' = [top |-> 0, bottom |-> 0, left |-> 0, right |-> 0]
  /\ resized' = <<0, 0>> /\ app' = <<0, 0>>
  /\ UNCHANGED <<driverVars, shotFile, result, fontFile>>

Next ==
  \/ DriverStep(Driver!RootMissing)
  \/ DriverStep(Driver!Start)
  \/ DriverStep(Driver!SkipDevice)
  \/ DriverStep(Driver!EnterDevice)
  \/ DriverStep(Driver!RecordMissing)
  \/ BeginRender
  \/ LayoutStep(Layout!LoadFonts)
  \/ LayoutStep(Layout!Layout)
  \/ LayoutStep(Layout!Resize)
  \/ EndRender(Layout!Paste, "renders")
  \/ EndRender(Layout!OpenRaises, "raises")
  \/ EndRender(Layout!ResizeRaises, "raises")
  \/ EndRender(Layout!SaveRaises, "raises")
  \/ DriverStep(Driver!Render)
  \/ DriverStep(Driver!RenderRaises)
  \/ DriverStep(Driver!NextDevice)
  \/ DriverStep(Driver!ReportMissing)
  \/ DriverStep(Driver!Complete)

Spec == Init /\ [][Next]_vars

-----------------------------------------------------------------------------
(* Spec sections 4.8 and 7: one file's failure does not abort the rest:   *)
(* when main() ends, every source file of a present device folder has     *)
(* been rendered or has failed on its own, and the missing files have     *)
(* been reported, whatever made a render raise (an undecodable file, a    *)
(* screenshot too small for the panel, a failed save).                     *)
FailureIsolation ==
  pc \in {"done", "crashed"} /\ rootExists =>
    /\ \A p \in Inputs :
         dirExists[p[1]] /\ shotFile[p].exists => result[p] # "pending"
    /\ reported = Driver!Expected("absent")

=============================================================================
