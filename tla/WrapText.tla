------------------------------ MODULE WrapText ------------------------------
(***************************************************************************)
(* The greedy word wrapper wrap_text of                                    *)
(* scripts/render-marketing-screenshots.py (lines 111-136), which lays out *)
(* the headline and the subtitle of every marketing slide.                 *)
(*                                                                         *)
(* The text is abstracted to the sequence of its words (text.split()),     *)
(* each word to its length in character cells, and the font to a          *)
(* monospace one: draw.textlength of "w1 w2 ... wk" is the sum of the word *)
(* lengths plus one cell per separating space.  Lines are sequences of     *)
(* word positions, so a property can tell which words a line holds.  The   *)
(* loop over the words is one step per word; the code after the loop is   *)
(* one step, split by its three outcomes.  textwrap.shorten is modelled by *)
(* what it does to a line of whole words: it keeps the line when it fits  *)
(* the width, otherwise it keeps the longest prefix of whole words that    *)
(* fits together with the "..." placeholder.                               *)
(***************************************************************************)
EXTENDS Integers, Sequences, SequencesExt

CONSTANTS
  WordLengths,     \* lengths (in cells) a word of the text may have
  MaxWords,        \* bound on the number of words of one text
  MaxWidths,       \* values of the max_width argument (in cells)
  MaxLinesValues   \* values of the max_lines argument

ASSUME /\ WordLengths \subseteq Nat \ {0}
       /\ MaxWords \in Nat
       /\ MaxWidths \subseteq Nat \ {0}
       /\ MaxLinesValues \subseteq Nat \ {0}

PLACEHOLDER == 3        \* len("...") passed to textwrap.shorten
FALLBACK_WIDTH == 30    \* width of the fallback textwrap.shorten (line 131)
SHORTEN_FLOOR == 8      \* max(8, len(lines[-1]) - 4) on line 134

VARIABLES
  words,      \* text.split(): the lengths of the words, in order
  max_width,  \* the max_width argument
  max_lines,  \* the max_lines argument
  i,          \* position of the next word the for loop takes
  lines,      \* the list `lines`: sequences of word positions
  current,    \* the string `current`, as the word positions it holds
  out,        \* the returned text: its lines, each a record of word
              \* positions and whether it ends in the placeholder
  pc,         \* "loop" inside the for loop, "finish" after it, "done"
  pass,       \* 1, or 2 when wrap_text is called again on its own output
  first       \* the text the first call returned

vars == <<words, max_width, max_lines, i, lines, current, out, pc, pass, first>>

(* A line of the result: whole words, optionally followed by "...".        *)
Line == [ws : Seq(1..MaxWords), dots : BOOLEAN]

(* draw.textlength of the words at positions ws joined by single spaces.   *)
TextLen(ws) ==
  IF ws = <<>> THEN 0
  ELSE FoldLeft(LAMBDA acc, k : acc + words[k], 0, ws) + Len(ws) - 1

(* All word positions of the text, in order.                               *)
AllWords == [k \in 1..Len(words) |-> k]

(* textwrap.shorten(" ".join(ws), width=width, placeholder="...").         *)
Shorten(ws, width) ==
  IF TextLen(ws) <= width
  THEN [ws |-> ws, dots |-> FALSE]
  ELSE LET keep == Max({n \in 0..Len(ws) :
                          TextLen(SubSeq(ws, 1, n)) + PLACEHOLDER <= width})
       IN [ws |-> SubSeq(ws, 1, keep), dots |-> TRUE]

(* The lines as they are joined by "\n".join(lines), before truncation.    *)
Plain(ls) == [n \in DOMAIN ls |-> [ws |-> ls[n], dots |-> FALSE]]

(* candidate = word if not current else f"{current} {word}"               *)
Candidate == Append(current, i)

(* Lines 127-128: the word left in `current` is kept if there is room.     *)
Placed == IF current # <<>> /\ Len(lines) < max_lines
          THEN Append(lines, current) ELSE lines

-----------------------------------------------------------------------------
(* Mutations of the code, each a plausible slip, used to show that the     *)
(* properties below can fail.                                              *)

(* The fit test measures the word alone instead of the candidate line.     *)
FitsWordOnly == TextLen(<<i>>) <= max_width
(* The fit test uses < instead of <=.                                      *)
FitsStrict == TextLen(Candidate) < max_width
(* The flush appends the candidate rather than the finished line.          *)
FlushedCandidate == IF current # <<>> THEN Append(lines, Candidate) ELSE lines
(* The early `break` is dropped.                                           *)
BreakNever(ls) == FALSE
(* The flush drops its `if current:` test.                                 *)
FlushedAlways == Append(lines, current)
-----------------------------------------------------------------------------
(* Lines 121-122: `if current: lines.append(current)`.                     *)
Flushed == IF current # <<>> THEN Append(lines, current) ELSE lines

(* `draw.textlength(candidate, font=font) <= max_width` (line 118).        *)
Fits == TextLen(Candidate) <= max_width

(* `if len(lines) == max_lines - 1: break` (lines 124-125).                *)
Break(ls) == Len(ls) = max_lines - 1

(* The comparison of line 133: the placed words are not the whole text.    *)
Lost(ls) == FlattenSeq(ls) # AllWords

Init ==
  /\ words \in SeqOf(WordLengths, MaxWords)
  /\ max_width \in MaxWidths
  /\ max_lines \in MaxLinesValues
  /\ i = 1
  /\ lines = <<>>
  /\ current = <<>>
  /\ out = <<>>
  /\ pc = "loop"
  /\ pass = 1
  /\ first = <<>>

(* Lines 117-119: the word fits on the current line.                       *)
Fit ==
  /\ pc = "loop"
  /\ i <= Len(words)
  /\ Fits
  /\ current' = Candidate
  /\ i' = i + 1
  /\ UNCHANGED <<pass, first, words, max_width, max_lines, lines, out, pc>>

(* Lines 120-125: the word does not fit; the current line is flushed, the  *)
(* word starts the next one, and the loop breaks once max_lines - 1 lines  *)
(* are full.                                                               *)
Overflow ==
  /\ pc = "loop"
  /\ i <= Len(words)
  /\ ~Fits
  /\ lines' = Flushed
  /\ current' = <<i>>
  /\ i' = i + 1
  /\ pc' = IF Break(Flushed) THEN "finish" ELSE "loop"
  /\ UNCHANGED <<pass, first, words, max_width, max_lines, out>>

(* Line 116: the for loop runs out of words.                               *)
Exhausted ==
  /\ pc = "loop"
  /\ i > Len(words)
  /\ pc' = "finish"
  /\ UNCHANGED <<pass, first, words, max_width, max_lines, i, lines, current, out>>

(* Lines 127-131: no line at all; the whole text is shortened to 30 cells. *)
(* textwrap.shorten of a blank text returns "", which has no line.         *)
FinishFallback ==
  /\ pc = "finish"
  /\ Placed = <<>>
  /\ lines' = Placed
  /\ out' = IF words = <<>> THEN <<>> ELSE <<Shorten(AllWords, FALLBACK_WIDTH)>>
  /\ pc' = "done"
  /\ UNCHANGED <<pass, first, words, max_width, max_lines, i, current>>

(* Lines 127-136: max_lines lines and words left over; the last line is    *)
(* shortened to max(8, len(lines[-1]) - 4) cells.                          *)
FinishTruncated ==
  /\ pc = "finish"
  /\ Placed # <<>>
  /\ Len(Placed) = max_lines /\ Lost(Placed)
  /\ LET last == Placed[Len(Placed)]
         width == IF TextLen(last) - 4 > SHORTEN_FLOOR
                  THEN TextLen(last) - 4 ELSE SHORTEN_FLOOR
     IN out' = [Plain(Placed) EXCEPT ![Len(Placed)] = Shorten(last, width)]
  /\ lines' = Placed
  /\ pc' = "done"
  /\ UNCHANGED <<pass, first, words, max_width, max_lines, i, current>>

(* Lines 127-136: the lines are returned as they are.                      *)
FinishPlain ==
  /\ pc = "finish"
  /\ Placed # <<>>
  /\ ~(Len(Placed) = max_lines /\ Lost(Placed))
  /\ lines' = Placed
  /\ out' = Plain(Placed)
  /\ pc' = "done"
  /\ UNCHANGED <<pass, first, words, max_width, max_lines, i, current>>

Next ==
  \/ Fit
  \/ Overflow
  \/ Exhausted
  \/ FinishFallback
  \/ FinishTruncated
  \/ FinishPlain

Spec == Init /\ [][Next]_vars

-----------------------------------------------------------------------------
(* The reference of spec section 4.5: greedy line fill over all the words, *)
(* a word joining the current line when the joined line still fits the     *)
(* width, and starting a new line otherwise.                               *)
RECURSIVE GreedyFill(_, _, _)
GreedyFill(k, cur, acc) ==
  IF k > Len(words)
  THEN IF cur = <<>> THEN acc ELSE Append(acc, cur)
  ELSE IF cur = <<>> \/ TextLen(Append(cur, k)) <= max_width
       THEN GreedyFill(k + 1, Append(cur, k), acc)
       ELSE GreedyFill(k + 1, <<k>>, Append(acc, cur))

GreedyLines == GreedyFill(1, <<>>, <<>>)

(* The words the returned text shows, in the order it shows them.          *)
Shown == FlattenSeq([n \in DOMAIN out |-> out[n].ws])

(* The measured width of a returned line.                                  *)
LineWidth(l) == TextLen(l.ws) + (IF l.dots THEN PLACEHOLDER ELSE 0)

TypeOK ==
  /\ words \in Seq(WordLengths)
  /\ max_width \in MaxWidths
  /\ max_lines \in MaxLinesValues
  /\ i \in 1..(MaxWords + 1)
  /\ lines \in Seq(Seq(1..MaxWords) \ {<<>>})
  /\ current \in Seq(1..MaxWords)
  /\ out \in Seq(Line)
  /\ pc \in {"loop", "finish", "done"}
  /\ pass = 1
  /\ first = <<>>

(* Spec section 8, wrap boundedness: the text wrap_text returns never has  *)
(* more than max_lines lines.  It rests on the `break` of line 124 firing  *)
(* exactly when the flushed lines reach max_lines - 1.                     *)
LinesBounded == pc = "done" => Len(out) <= max_lines

(* wrap_text never reorders, repeats or skips a word: the words it shows   *)
(* are the first words of the text, in their order, whatever the flushes,  *)
(* the break and the truncation of lines 121-134 did.                      *)
OrderPreserved == pc = "done" => IsPrefix(Shown, AllWords)

(* Every returned line except the last is exactly the line the greedy fill *)
(* of spec section 4.5 produces at that position: the fit test of line 118 *)
(* and the flush of lines 121-123 implement the greedy rule.               *)
FullLinesMatchGreedy ==
  pc = "done" =>
    \A n \in 1..(Len(out) - 1) :
      n <= Len(GreedyLines) /\ out[n].ws = GreedyLines[n] /\ ~out[n].dots

(* Every returned line of two or more words fits max_width: only a single *)
(* word wider than the width can overflow a line.  The fit test of line    *)
(* 118 must measure the whole candidate line, and the word that starts a  *)
(* line after the break must not be joined to anything.                    *)
MultiWordLinesFit ==
  pc = "done" =>
    \A n \in DOMAIN out : Len(out[n].ws) >= 2 => LineWidth(out[n]) <= max_width

(* Spec sections 4.5 and 8: when the greedy fill needs at most max_lines   *)
(* lines the whole text is shown and nothing is truncated (the scenario    *)
(* "Sign in. Sync everywhere." is one instance).                           *)
NoLossWhenFits ==
  pc = "done" /\ Len(GreedyLines) <= max_lines =>
    Shown = AllWords /\ \A n \in DOMAIN out : ~out[n].dots


-----------------------------------------------------------------------------
(* The check of spec section 8, wrap idempotence: the returned lines are   *)
(* joined with spaces and wrapped again with the same width and max_lines. *)
(* The words of that text are the words shown, the placeholder glued to   *)
(* the last word of a shortened line ("ab..."), or standing alone when    *)
(* textwrap.shorten kept no word ("...").                                  *)
DotsToken(l) ==
  IF ~l.dots THEN [k \in DOMAIN l.ws |-> words[l.ws[k]]]
  ELSE IF l.ws = <<>> THEN <<PLACEHOLDER>>
  ELSE [k \in DOMAIN l.ws |->
          words[l.ws[k]] + (IF k = Len(l.ws) THEN PLACEHOLDER ELSE 0)]

RejoinedWords == FlattenSeq([n \in DOMAIN out |-> DotsToken(out[n])])

Rewrap ==
  /\ pc = "done"
  /\ pass = 1
  /\ pass' = 2
  /\ first' = out
  /\ words' = RejoinedWords
  /\ i' = 1 /\ lines' = <<>> /\ current' = <<>> /\ out' = <<>>
  /\ pc' = "loop"
  /\ UNCHANGED <<max_width, max_lines>>

IdempotenceSpec == Init /\ [][Next \/ Rewrap]_vars

(* How many words of the joined text a line of the first result holds.     *)
TokenCount(l) == Len(l.ws) + (IF l.dots /\ l.ws = <<>> THEN 1 ELSE 0)

(* Spec section 8, wrap idempotence: wrap_text applied to its own output,  *)
(* joined with spaces, returns the same text: the same lines, each with   *)
(* the same words, none shortened again.  It rests on the truncation of    *)
(* line 134 leaving a last line that the greedy loop of lines 116-125      *)
(* does not join to the line before it.                                    *)
Idempotent ==
  pass = 2 /\ pc = "done" =>
    /\ Len(out) = Len(first)
    /\ \A n \in DOMAIN out : ~out[n].dots /\ Len(out[n].ws) = TokenCount(first[n])

=============================================================================
