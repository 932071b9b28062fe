---------------------------- MODULE ProjectPatcher ----------------------------
(***************************************************************************)
(* scripts/add-test-target.py: main (lines 200-214) and add_test_target   *)
(* (lines 16-198), which patches project.pbxproj to add the UI test       *)
(* target NotelayerScreenshotTests.                                        *)
(*                                                                         *)
(* The project file is abstracted to the three things the patch reads and *)
(* writes: the set of anchors it contains (the texts the re.sub and       *)
(* str.replace calls look for), the object ids it defines, and the        *)
(* references <<referrer, id>> it holds.  Each generate_id() call is a    *)
(* fresh id <<run, role>>.  An Xcode project holds each anchor at most    *)
(* once, so "replace every occurrence" is "replace it if present".  The   *)
(* file can be run on several times; one step of the model is one whole   *)
(* invocation of the script.                                               *)
(***************************************************************************)
EXTENDS Integers, FiniteSets

CONSTANTS
  InputFiles,   \* the anchor sets the project file may start with
  MaxRuns       \* how many times the script is run on the file

Anchors == {"productRef", "productsGroup", "targetsList", "beginBuildConfig",
            "endNativeTarget", "beginTargetDep", "endTargetDep",
            "releaseConfig", "endConfigList", "targetAttributes"}

ASSUME /\ InputFiles \subseteq SUBSET Anchors
       \* Xcode writes the two markers of a section together.
       /\ \A a \in InputFiles : ("beginTargetDep" \in a) <=> ("endTargetDep" \in a)
       /\ MaxRuns \in Nat \ {0}

(* Lines 23-31 and 110: the ten ids generate_id() makes in one run.        *)
Roles == {"target", "product", "debug", "release", "configList", "sources",
          "frameworks", "resources", "dependency", "proxy"}

(* generate_id (lines 12-14): an id no earlier call returned.              *)
Id(r, role) == <<r, role>>

(* The objects of the original project that the patch adds references to. *)
Existing(name) == Id(0, name)

File(a) == [exists |-> TRUE, anchors |-> a, defs |-> {}, refs |-> {}]
Missing == [File({}) EXCEPT !.exists = FALSE]
EmptyFile == File({})

VARIABLES
  disk,      \* project.pbxproj: whether it exists, and the record above
  runs,      \* invocations of the script so far
  exitCode   \* exit status of the last invocation (-1 before the first)

vars == <<disk, runs, exitCode>>

(* One substitution: when the anchor is present, the new objects and      *)
(* references are written next to it and the anchor is kept.              *)
Insert(f, anchor, newDefs, newRefs) ==
  IF anchor \in f.anchors
  THEN [f EXCEPT !.defs = @ \cup newDefs, !.refs = @ \cup newRefs]
  ELSE f

(* Lines 34-36: the file reference of NotelayerScreenshotTests.xctest.     *)
AddProductRef(f, r) == Insert(f, "productRef", {Id(r, "product")}, {})

(* Lines 39-41: the product listed in the Products group.                 *)
AddToProducts(f, r) ==
  Insert(f, "productsGroup", {}, {<<Existing("productsGroup"), Id(r, "product")>>})

(* Mutation of the code, used to show that AnchoredSuccessAddsTarget can  *)
(* fail: the product's id written into the targets list (line 45).        *)
AddToTargetsWrongId(f, r) ==
  Insert(f, "targetsList", {}, {<<Existing("targetsList"), Id(r, "product")>>})

(* Lines 44-46: the target listed in the project's targets.               *)
AddToTargets(f, r) ==
  Insert(f, "targetsList", {}, {<<Existing("targetsList"), Id(r, "target")>>})

(* Lines 49-81: the three build phases, before the XCBuildConfiguration   *)
(* section.                                                                *)
AddBuildPhases(f, r) ==
  Insert(f, "beginBuildConfig",
         {Id(r, "sources"), Id(r, "frameworks"), Id(r, "resources")}, {})

(* What the target object of lines 84-101 refers to.                      *)
TargetRefs(r) ==
  {Id(r, "target")} \X {Id(r, x) : x \in {"configList", "sources", "frameworks",
                                          "resources", "dependency", "product"}}

(* Mutation of the code, used to show that FileLossReported can fail: the *)
(* replacement of line 103 without the section's end marker after it.     *)
AddNativeTargetDropsAnchor(f, r) ==
  IF "endNativeTarget" \in f.anchors
  THEN [f EXCEPT !.defs = @ \cup {Id(r, "target")},
                 !.refs = @ \cup TargetRefs(r),
                 !.anchors = @ \ {"endNativeTarget"}]
  ELSE f

(* Lines 84-104: the target, before the end of the PBXNativeTarget        *)
(* section.                                                                *)
AddNativeTarget(f, r) ==
  Insert(f, "endNativeTarget", {Id(r, "target")}, TargetRefs(r))

(* Mutation of the code, used to show that AnchoredRunResolves can fail:  *)
(* the test of line 114 inverted.                                          *)
AddTargetDependencySwapped(f, r) ==
  LET newDefs == {Id(r, "dependency")}
      newRefs == {<<Id(r, "dependency"), Id(r, "proxy")>>}
  IN IF "beginTargetDep" \in f.anchors
     THEN IF "endNativeTarget" \in f.anchors
          THEN [f EXCEPT !.defs = @ \cup newDefs, !.refs = @ \cup newRefs,
                         !.anchors = @ \cup {"beginTargetDep", "endTargetDep"}]
          ELSE f
     ELSE Insert(f, "endTargetDep", newDefs, newRefs)

(* Lines 107-120: the dependency, whose targetProxy is a fresh id no     *)
(* object is written for.  Without a PBXTargetDependency section a new    *)
(* one is opened after the PBXNativeTarget section; with one, the         *)
(* dependency goes before its end.                                         *)
AddTargetDependency(f, r) ==
  LET newDefs == {Id(r, "dependency")}
      newRefs == {<<Id(r, "dependency"), Id(r, "proxy")>>}
  IN IF "beginTargetDep" \notin f.anchors
     THEN IF "endNativeTarget" \in f.anchors
          THEN [f EXCEPT !.defs = @ \cup newDefs, !.refs = @ \cup newRefs,
                         !.anchors = @ \cup {"beginTargetDep", "endTargetDep"}]
          ELSE f
     ELSE Insert(f, "endTargetDep", newDefs, newRefs)

(* Lines 123-171: Debug and Release, before the Release configuration     *)
(* BC2CCDE32F174A5200406D9A.                                                *)
AddBuildConfigs(f, r) ==
  Insert(f, "releaseConfig", {Id(r, "debug"), Id(r, "release")}, {})

(* Lines 174-185: the configuration list naming Debug and Release.        *)
AddConfigList(f, r) ==
  Insert(f, "endConfigList", {Id(r, "configList")},
         {Id(r, "configList")} \X {Id(r, "debug"), Id(r, "release")})

(* Lines 188-190: the TargetAttributes entry, after the app's entry.      *)
AddTargetAttributes(f, r) ==
  Insert(f, "targetAttributes", {}, {<<Existing("targetAttributes"), Id(r, "target")>>})

(* Lines 33-190: the substitutions, in the order the code makes them.      *)
add_test_target(f, r) ==
  AddTargetAttributes(AddConfigList(AddBuildConfigs(AddTargetDependency(
    AddNativeTarget(AddBuildPhases(AddToTargets(AddToProducts(
      AddProductRef(f, r), r), r), r), r), r), r), r), r)

Init ==
  /\ disk \in {Missing} \cup {File(a) : a \in InputFiles}
  /\ runs = 0
  /\ exitCode = -1

Invoke == runs < MaxRuns /\ runs' = runs + 1

(* Lines 204-206: no project file; an error is printed and the exit code  *)
(* is 1.                                                                   *)
RunMissing ==
  /\ Invoke
  /\ ~disk.exists
  /\ exitCode' = 1
  /\ UNCHANGED disk

(* Lines 19 and 210-214: the file cannot be opened or read; the exception *)
(* is printed and the exit code is 1.                                      *)
RunReadFails ==
  /\ Invoke
  /\ disk.exists
  /\ exitCode' = 1
  /\ UNCHANGED disk

(* Lines 19-198 and 209: the patched text is written back and the success *)
(* message printed, whichever substitutions found their anchor.           *)
RunPatched ==
  /\ Invoke
  /\ disk.exists
  /\ disk' = add_test_target(disk, runs')
  /\ exitCode' = 0

(* Lines 193-194 and 210-214: open(..., 'w') fails before truncating, or  *)
(* truncates the file and write raises; the exit code is 1.                *)
RunWriteFails ==
  /\ Invoke
  /\ disk.exists
  /\ disk' \in {disk, EmptyFile}
  /\ exitCode' = 1

Next == RunMissing \/ RunReadFails \/ RunPatched \/ RunWriteFails

Spec == Init /\ [][Next]_vars

-----------------------------------------------------------------------------
Includes(g, f) ==
  /\ f.anchors \subseteq g.anchors
  /\ f.defs \subseteq g.defs
  /\ f.refs \subseteq g.refs

(* The ids the file refers to and does not define.                       *)
Dangling(f) == {ref[2] : ref \in f.refs} \ f.defs

(* The anchors the patch needs; the PBXTargetDependency section may be     *)
(* absent, the code opens one then.                                        *)
Required == Anchors \ {"beginTargetDep", "endTargetDep"}

(* The module docstring and the success message of line 196: when the     *)
(* project file changes other than by additions (truncated by a failed    *)
(* write, or an anchor lost by a substitution), the script exits with 1,  *)
(* so a caller sees that the project must be restored.                    *)
FileLossReported ==
  [][disk.exists /\ ~Includes(disk', disk) => exitCode' = 1]_vars

(* A successful run over a file that has every anchor wires its target    *)
(* in completely: the only reference it leaves dangling is its own        *)
(* container proxy (line 110), on the first run and on a run over a file  *)
(* an earlier run patched, with or without a PBXTargetDependency section. *)
AnchoredRunResolves ==
  [][exitCode' = 0 /\ Required \subseteq disk.anchors =>
       Dangling(disk') \subseteq Dangling(disk) \cup {Id(runs', "proxy")}]_vars

(* Every id the project file refers to is defined in it: Xcode resolves   *)
(* each reference to an object of the file.                                *)
NoDanglingReference ==
  disk.exists => Dangling(disk) = {}

(* The objects and listings of the target of run r.                      *)
TargetAdded(f, r) ==
  /\ {Id(r, role) : role \in Roles \ {"proxy"}} \subseteq f.defs
  /\ {<<Existing("productsGroup"), Id(r, "product")>>,
      <<Existing("targetsList"), Id(r, "target")>>,
      <<Existing("targetAttributes"), Id(r, "target")>>} \subseteq f.refs

(* Line 196 reports "Successfully added NotelayerScreenshotTests target":  *)
(* a run that exits 0 over a file holding every anchor the patch needs    *)
(* writes every object of its own target (ids of this run, not of an      *)
(* earlier one) and lists it in the products group, the project's targets *)
(* and the target attributes, on a first run and on a rerun alike.  (Over *)
(* a file missing an anchor the message is printed all the same; see the  *)
(* README.)                                                                *)
AnchoredSuccessAddsTarget ==
  [][exitCode' = 0 /\ Required \subseteq disk.anchors => TargetAdded(disk', runs')]_vars

=============================================================================
