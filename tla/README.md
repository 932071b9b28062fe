# TLA+ models of the screenshot pipelines

This directory holds TLA+ models of the Python programs under `src/`, and the
TLC configurations that check them. The models cover all four programs:

- `scripts/render-iphone-framed-screenshots.py` draws a phone chassis around
  every screenshot.
- `scripts/render-marketing-screenshots.py` composes a marketing slide per
  device and shot.
- `scripts/add-test-target.py` patches the Xcode project to add a UI test
  target.
- `tmp/pdfs/generate_notelayer_onepager.py` lays out a one-page PDF summary.

`PROJECT.json` holds the machine-readable record: components, runs, mutants,
the map from every definition to the source lines it models, findings and
hazards.

## 1. The system

### Components and the state they keep

| Component | Code | State | Operations |
|---|---|---|---|
| Asset enumerator (frame) | `natural_sort_key`, `main` lines 190-203 | the listed `*.png` names, their embedded numbers | glob, sort by `(number or 999, name)` |
| Pipeline driver (frame) | `main` lines 190-210 | position in the sorted list, outputs written | frame and save each file, in order |
| Geometry planner (frame) | `frame_iphone_screenshot` lines 51-72, 113-117, 135-158 | none: pure functions of `(sw, sh)` | bezel, shell, padding, screen, island, lens, buttons |
| Layer compositor (frame) | `frame_iphone_screenshot` lines 65-187 | the running canvas | seven `alpha_composite` calls in a fixed order |
| Mask generator | `rounded_mask` (both scripts) | none | rounded rectangle as a mask |
| Shadow renderer | lines 74-86 (frame), 208-217 (marketing) | none | offset rounded rectangle, blurred |
| Text layout engine | `wrap_text` lines 111-136 | `lines`, `current` | greedy fill, early break, fallback, truncation |
| Font resolver | `load_font` lines 81-90 | none (no cache) | first loadable candidate, else the default font |
| Marketing slide layout | `render_marketing_asset` lines 139-262 | the canvas | badge, label, headline, subtitle, shadow, panel, resize, paste, border |
| Pipeline driver (marketing) | `main` lines 265-306 | `missing_inputs`, loop positions | render each `(device, shot)`, report missing inputs, exit status |
| Xcode project patcher | `add-test-target.py` | the text of `project.pbxproj` | nine anchored substitutions in memory, one write |
| PDF one-pager | `generate_notelayer_onepager.py` | the running `y` of `draw_pdf` | `measure_height`, `choose_sizes`, `draw_pdf` |

### How they interact

Both pipelines are single-threaded batch programs. Nothing runs concurrently,
and nothing is persisted except the output files. Each driver enumerates its
inputs and calls one render function per input:

- `frame_iphone_screenshot` for the frame pipeline;
- `render_marketing_asset` for the marketing pipeline, which calls
  `load_font` and `wrap_text`.

The render writes one file. Neither driver catches an exception, so any
failure in a render ends the process. Both drivers do the same thing at two
levels of detail: a single ordered pass over a queue of inputs. The abstract
module `BatchDriver` states that pass once, and both drivers are checked to
implement it.

`MarketingPipeline` composes the marketing driver with the slide layout.
What a source file does is no longer an outcome chosen up front. It comes
from the file itself: whether it decodes, and its size. The layout's steps
run inside the driver's shot loop, and the font files of the machine are
shared by every render of the run.

The two other programs stand alone:
- `add-test-target.py` reads `project.pbxproj`, applies nine text
  substitutions in memory and writes the file back. Nothing stops it being
  run again on a file it already patched.
- The one-pager measures its content at up to five font sizes
  (`choose_sizes`), then draws it with the first size that fits
  (`draw_pdf`).

### What is hard

- **The order of steps in `wrap_text`.** Whether the early `break` fires
  before or after the word that overflowed is placed decides which words
  survive. A unit test with one sentence rarely hits the boundary.
- **Layer order and extent.** The frame is seven full-canvas layers, and
  which one a pixel ends up showing depends on the order and on every
  rectangle. Pillow's `ImageDraw` replaces the pixels of an RGBA image
  instead of blending them. So a translucent stroke drawn on an opaque shape
  makes that shape translucent.
- **Integer geometry.** Every measurement is `int(x * ratio)` with absolute
  floors. Truncation, floors that do not scale, and float products that land
  one below the exact value all shift results at the edges.
- **Partial failure in the drivers.** One raising render ends a run part-way
  through, after some outputs are written and before the missing-input report.
- **Substitutions that silently do nothing.** Each `re.sub` and
  `str.replace` of the patcher is a no-op when its anchor is absent, and the
  objects it writes refer to each other across substitutions. The write
  truncates the file before writing it.
- **Two functions that must agree.** `choose_sizes` trusts `measure_height`,
  but `draw_pdf` spaces the page with different constants.

## 2. The modules

| Module | Models | State (VARIABLES) | Actions |
|---|---|---|---|
| `WrapText` | `wrap_text` | `words` (word lengths), `max_width`, `max_lines`, `i`, `lines`, `current`, `out`, `pc`; `pass` and `first` for the second call of the idempotence check | `Fit`, `Overflow` (flush and break), `Exhausted`, `FinishFallback`, `FinishTruncated`, `FinishPlain`; `Rewrap` (spec 8's check: wrap the joined output again) in `IdempotenceSpec` only |
| `MarketingDriver` | marketing `main` | the filesystem (`rootExists`, `dirExists`, `source` outcome per input), `pc`, `d`, `s`, `missing`, `rendered`, `reported`, `exitCode` | `RootMissing`, `Start`, `SkipDevice`, `EnterDevice`, `RecordMissing`, `Render`, `RenderRaises`, `NextDevice`, `ReportMissing`, `Complete` |
| `FrameDriver` | frame `main`, `natural_sort_key` | `dirExists`, `present`, `index`, `outcome`, `leftover` (output_dir as met), `outFile` (output_dir now), `pc`, `order`, `k`, `written`, `exitCode` | `DirMissing`, `NoSources`, `Enumerate`, `Frame`, `FrameRaises`, `SaveRaises`, `Complete` |
| `FrameCompositor` | `frame_iphone_screenshot` | `sw`, `sh`, the two float products, `n` (layers composited), `shows` (per probe point, the layers whose colour the pixel holds) | `Composite` (the next layer of `LayerOrder`) |
| `MarketingLayout` | `render_marketing_asset`, `load_font` | size, font files, wrap shape, `pc`, `fonts`, `frame`, `resized`, `app` | `OpenRaises`, `LoadFonts`, `Layout`, `Resize`, `ResizeRaises`, `Paste`, `SaveRaises` |
| `MarketingPipeline` | marketing `main` calling `render_marketing_asset` | the driver's variables, the layout's (its `pc` is `lpc`), `shotFile` (per input: exists, decodes, size) and `result` (per input: pending, renders, raises) | the driver's actions; `BeginRender`; the layout's actions; the layout's last steps, which record `result` |
| `BatchDriver` | the promise of both drivers (spec 4.8, as the code keeps it) | `kind`, `queue`, `next`, `produced`, `missed`, `report`, `status`, `exitCode` | `Begin`, `StartFails`, `Visit`, `Abort`, `Finish` |
| `ProjectPatcher` | `add-test-target.py`: `main`, `add_test_target` | `disk` (whether the file exists; its anchors, defined ids and references), `runs`, `exitCode` | `RunMissing`, `RunReadFails`, `RunPatched`, `RunWriteFails`: one whole invocation each |
| `OnePager` | `choose_sizes`, `measure_height`, `draw_pdf` | `pc`, `k` (option tried), `body` and `source` (line counts at the last size measured), `fitted`, `lowest` (lowest inked point) | `Try`, `Fallback`, `DrawPdf` |

`MarketingDriver` and `FrameDriver` each define `Batch == INSTANCE BatchDriver
WITH ...`, a refinement mapping:
- For the marketing driver, the queue is the inputs of the present device
  folders, in loop order. The loop position `(d, s)` counts the inputs
  visited; those of absent folders fall out of the count, so `SkipDevice`
  and `NextDevice` are stuttering steps.
- For the frame driver, the queue is the sorted list of line 197, and
  `k - 1` files have been visited.

The property `BatchRefinement == Batch!FairSpec` is checked under each
driver's `FairSpec`.

Each module has an `MC<Module>` module that gives its constants values for
TLC.

### Abstractions

- **Words are lengths.** In `WrapText`, `text.split()` is the sequence of word
  lengths, and the font is monospace: a line of k words measures the sum of
  their lengths plus k-1. `textwrap.shorten` is modelled by what it does to a
  line of whole words. It keeps the longest whole-word prefix that fits
  together with `"..."`; a single word that cannot fit becomes `"..."`
  alone. The wrap findings below were replayed with the real `wrap_text`
  and `len` as the measure, and each gives the result TLC reports.
- **Pixels are probe points.** `FrameCompositor` places probe points with the
  geometry:
  - the screen centre, the island, the lens and the bezel;
  - the screen's corner;
  - one point on each outline stroke.

  For each probe the state records which layers' colours the pixel holds. An
  opaque layer replaces them; a translucent one adds itself. Rounded
  rectangles are point sets, with the radius clamped as Pillow clamps it.
  Antialiasing and colours are not modelled.
- **Layers that draw several shapes** (body, island, buttons) give a pixel
  the alpha of the last shape covering it. That is `ImageDraw` on an RGBA
  image. The body is then pasted through its own alpha (line 110), which
  squares a partial alpha.
- **Float products.** For every ratio the code uses, `int(x * c)` was
  compared with the exact floor for x up to 6000. They differ only for 0.7
  (lens offset) and 0.018 (shadow offset and text gap). `FrameCompositor`
  chooses those two products among the values the float computation can
  give. `MarketingLayout` does the same for the two products of the resize.
- **Text blocks.** In `MarketingLayout`, a text block is one font size per
  line plus the spacing, and the last line goes a quarter of the size further
  down when it has a descender. The number of lines (1 or 2) and the
  descender are chosen in `Init`. `WrapText` shows that `max_lines=2` yields
  at most 2 lines.
- **Renders are single steps.** In the drivers, a render is one step that
  writes its output or raises. Which files exist, and which raise, is chosen
  in `Init`.
- **The project file is three sets.** In `ProjectPatcher`, `project.pbxproj`
  is abstracted to three sets: the anchors it contains, the object ids it
  defines, and its references `<<referrer, id>>`. Each `generate_id()` is a
  fresh id `<<run, role>>`. An Xcode project holds each anchor once, so
  "replace every occurrence" means "replace it if present". The nine
  substitutions are operators on that record, composed in code order by
  `add_test_target`. Each invocation is one step, ending in one of four
  ways:
  - the file is missing;
  - the read fails;
  - the write succeeds;
  - the write fails, either before truncating or after.
- **Line counts are open.** In `OnePager`, lengths are in tenths of a point,
  so every constant of the file is an integer. What `simpleSplit` makes of
  the text depends on Helvetica's glyph widths, which are not modelled. So
  each measurement chooses the total number of body lines and of source
  lines, subject to three rules:
  - at least one line per item;
  - never more lines at a smaller size, since every width scales with the
    size;
  - `draw_pdf` meets the counts its size was measured with.

  The draw is one step, and its result is the lowest inked point: the last
  baseline less the Helvetica descender.

## 3. Runs

Each run's cfg names its invariants and properties, and `PROJECT.json` says
what each run shows. `BatchRefinement` is a temporal property, checked with
its fairness. `FileLossReported`, `AnchoredRunResolves` and
`AnchoredSuccessAddsTarget` are action properties, of the form `[][A]_vars`.

| Run (cfg) | Expect | Properties | Bounds |
|---|---|---|---|
| `WrapText.cfg` | pass | TypeOK, LinesBounded, OrderPreserved, FullLinesMatchGreedy, MultiWordLinesFit | ≤5 words of lengths {2,5,9}, widths {8,12}, max_lines {2,3} |
| `WrapText_NoLossWhenFits.cfg` | violation | NoLossWhenFits | same |
| `WrapText_Idempotent.cfg` | violation | Idempotent | same, wrapped twice |
| `MarketingDriver.cfg` | pass | TypeOK, MissingReportExact, AllResolvableRendered, BatchRefinement | devices ⟨iphone, ipad⟩, 3 shots, every outcome per input |
| `MarketingPipeline_FailureIsolation.cfg` | violation | FailureIsolation | devices ⟨iphone, ipad⟩, 2 shots, sizes 1320×2868 and 300×200, every file decodable or not, every font loads |
| `FrameDriver.cfg` | pass | TypeOK, NaturalOrder, OutputsTrackProgress, BatchRefinement | 3 files, numbers {2, 10, 1000} or none, each framing, raising or failing in its save, each output name empty, stale or truncated beforehand |
| `FrameCompositor.cfg` | pass | ContentOnTop | widths {750 … 1320} × heights {1334 … 2868} |
| `FrameCompositor_ChassisOpaque.cfg` | violation | ChassisOpaque | same |
| `MarketingLayout.cfg` | pass | ScreenshotFitsPanel | 5 App Store sizes (portrait and landscape), 640×320 and 300×200, every font availability |
| `ProjectPatcher.cfg` | pass | FileLossReported, AnchoredRunResolves, AnchoredSuccessAddsTarget | 4 runs; a complete file, one without a PBXTargetDependency section, one without the TargetAttributes entry, one without configuration `BC2CCDE3…`, or no file |
| `ProjectPatcher_NoDanglingReference.cfg` | violation | NoDanglingReference | 1 run on a complete file |
| `OnePager.cfg` | pass | MeasureCoversDraw | the 5 sections of 2, 2, 7, 6, 5 items; up to 50 body lines and 8 source lines |

### Why the bounds are enough

- **`WrapText`.**
  - Word lengths 2, 5 and 9 against widths 8 and 12 give every case the code
    distinguishes:
    - two short words that share a line;
    - a short and a long word that do not;
    - a word wider than the line;
    - an exact fit (5 + 1 + 2 = 8).
  - Five words fill three lines and leave some over.
- **`MarketingDriver`.** Two devices are enough to see `missing_inputs`
  carried from one device to the next. Three shots are enough for a missing
  file between two rendered ones.
- **`FrameDriver`.** The number 1000 is above the sentinel; 2 and 10 order
  differently as numbers and as strings. Every output name may start empty,
  stale or truncated, which is every state an earlier run can leave, and a
  save may fail over an existing file or over none.
- **Geometry.** The sizes are those the pipelines are run on, plus small
  sizes where the floors are active.
- **`ProjectPatcher`.**
  - Four runs let a run meet a file that an earlier run patched, or
    truncated.
  - A file without the PBXTargetDependency section takes the other branch of
    line 114 on its first run, and the usual branch on its second.
  - The missing anchors are the two most likely to be absent in another
    project: the TargetAttributes entry, and the hard-coded configuration id.
- **`OnePager`.** With 5 source lines, the largest option stops fitting at
  about 39 body lines and the smallest at about 44. Up to 50 body lines
  makes every option the chosen one for some content, and takes the
  fallback too.

### Mutants

Every property of a passing run has a mutant. The mutant is a plausible slip
in the code, and TLC finds the property violated under the run's own cfg:

| Property | Mutant |
|---|---|
| TypeOK (WrapText: no empty line is ever flushed) | the `if current:` test dropped |
| TypeOK (drivers: exit status 0 or 1) | the count returned as the status |
| LinesBounded | the `break` dropped |
| OrderPreserved | the candidate flushed instead of the line |
| FullLinesMatchGreedy | `<` for `<=` in the fit test |
| MultiWordLinesFit | the word measured alone |
| MissingReportExact | `missing_inputs` reset per device |
| AllResolvableRendered | `break` for `continue` |
| NaturalOrder | a plain name sort |
| OutputsTrackProgress | the loop stops one file early |
| ContentOnTop | cavity pasted after the glass |
| ScreenshotFitsPanel | `max` for `min` in the scale |
| BatchRefinement (marketing) | `break` for `continue` |
| BatchRefinement (frame) | the count returned as the status |
| FileLossReported | the line-103 replacement without the section's end marker |
| AnchoredRunResolves | the test of line 114 inverted |
| AnchoredSuccessAddsTarget | the product's id written into the targets list |
| MeasureCoversDraw | the 1.8 pt gap after each item left out of `measure_height` |

## 4. Findings

Each finding is detailed with its line in `PROJECT.json`.

- **`wrap_text` loses words that fit.**
  - The `break` of line 124 drops the words after the one that overflowed.
    `"aaaaa bbbbb cc"` at width 8 and 2 lines returns `aaaaa\nbbbbb`.
  - The same output carries no ellipsis: line 134 keeps a last line of at
    most 8 characters unchanged. This is not checked by a run of its own.
- **`wrap_text` is not idempotent** (line 134, spec 8). When the first word
  of a truncated last line is too long for the shortened width,
  `textwrap.shorten` keeps no word and the line becomes a bare `...`.
  `"aa bbbbbbbbb ccccc"` at width 8 and 2 lines returns `aa\n...`; wrapping
  `aa ...` again returns `aa ...`, one line. The second call is modelled by
  running the same actions on the joined output (`Rewrap`). With the bare
  placeholder excluded, TLC finds the property holds, as a replay of the real
  function over the same bounds does.
- **The marketing pipeline does not isolate failures** (line 289). In the
  composed model, one undecodable file, one screenshot too small for the
  panel, or one failed save ends the run. The later files are never
  attempted and the missing-input report is never printed. The frame driver
  has the same unguarded loop (line 204). What such a crash leaves is
  checked: `OutputsTrackProgress` shows the framed outputs, one truncated
  file, and an earlier run's files after it, and shows that a later
  complete run replaces them all.
- **The patcher leaves a dangling reference.** `targetProxy` (line 110) is a
  fresh id that no object in the file defines. This happens even on a fully
  successful run.
- **The chassis is translucent along its two outline strokes.** `ImageDraw`
  writes the stroke alpha into the body (lines 96-107), so the background
  and the shadow show through.

Hazards seen while modelling and recorded in `PROJECT.json` without a run of
their own:
- The island and lens floors do not scale. They leave the screen on
  screenshots under about 66×170 px.
- A well-formed 300×200 screenshot makes `Image.resize` raise. The
  `MarketingLayout` run includes that size, so `ResizeRaises` is explored.
- A word wider than the width is returned uncut. The spec names this case as
  the one its hard truncation is for.
- The sort sentinel collides with real numbers. A file numbered 999 sorts
  among the unnumbered files, and one numbered 1000 or more after them
  (line 47). This contradicts spec 4.7.
- The patcher reports success for a half-applied patch. An absent anchor
  makes its substitution a silent no-op, for example a missing
  TargetAttributes entry, or a project whose Release configuration has
  another id. Line 196 still prints "Successfully added", and the exit code
  is 0. `AnchoredSuccessAddsTarget` checks the file the script was written
  for, and fails at once without its anchor precondition.
- A second run of the patcher wires in a second, complete target of the same
  name. `AnchoredRunResolves` covers such runs, and nothing says the target
  must be unique.

## 5. Fairness and deadlock

Every program here is a single sequential process, and nothing else competes
for it. The one fairness assumption is therefore weak fairness on the whole
next-state relation: `FairSpec == Spec /\ WF_vars(Next)` in the two drivers.
A step the process can take is eventually taken. `BatchDriver` assumes the
same of its own `Next`. So `BatchRefinement` also checks liveness: every run
of each driver ends, returning or raising.

Every loop runs over a finite list, so a model stops in a terminal state:
- `done` or `crashed`, when the program returns or raises;
- the last layer composited, when the frame is finished;
- `drawn`, when the one-pager is drawn;
- the last of `MaxRuns` invocations of the patcher.

That terminal state is the end of the program, which is why every cfg says
`CHECK_DEADLOCK FALSE`.

## 6. Not modelled, and the plan

Not modelled:
- **Gradients, colour interpolation and argument parsing.** They compute
  colours or options, and no property tells them apart.
- **Pillow's antialiasing, the Gaussian blur and PNG coding.** These are
  library primitives: the blur appears only as "translucent", and the masks
  are hard-edged point sets.
- **The one-pager's strings, colours and canvas calls.** Its line counts are
  left open, because Helvetica's metrics are not available to the model.
- **The layer stack of the marketing slide.** The text is drawn opaque on
  the RGB canvas, and the shadow, panel, screenshot and border are composited
  over it. The vertical layout keeps the panel below the subtitle.
- **The frame pipeline composed with its compositor.** At the screenshot
  sizes the pipeline is given, what makes a frame raise is a file that does
  not decode, or a failed save. Neither depends on the geometry, so
  composing the two modules would add nothing to `FrameDriver`'s free
  choice of outcome. Screenshots far smaller than any real one (hazard
  :136) are left out.
- **`output_dir` equal to `source_dir`.** `FrameDriver` keeps the two
  directories apart. Aliased, line 206 overwrites each source with its
  frame, and a re-run frames framed images again; neither the spec nor the
  code says a source must stay a screenshot, so no property would state
  it.

Plan for the next sitting, in order:

1. **`MarketingCompositor`.** The marketing slide's layer stack with probe
   points, as in `FrameCompositor`:
   - the badge drawn opaque on an RGB canvas;
   - the panel at alpha 252;
   - the screenshot and its border over the panel.
