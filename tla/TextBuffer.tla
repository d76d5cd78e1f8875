----------------------------- MODULE TextBuffer -----------------------------
(***************************************************************************)
(* The composer of the desktop client.  It keeps its selection and the     *)
(* text an input method has marked as ranges of bytes, the platform speaks *)
(* in UTF-16 units, and the arrow keys move by what reads as one           *)
(* character.  Every edit is compared with a reference that knows nothing  *)
(* but characters.                                                         *)
(***************************************************************************)
EXTENDS Integers, Sequences, FiniteSetsExt

CONSTANTS Characters,   \* some of "letter", "emoji" and "accent", an accent that combines
          MaxLength     \* of the text

ASSUME TextAssumption == Characters \subseteq {"letter", "emoji", "accent"} /\ MaxLength \in Nat

VARIABLE buffer   \* value, start and end of the selection, whether reversed, what is marked

Utf8(c) == CASE c = "letter" -> 1 [] c = "emoji" -> 4 [] OTHER -> 2
Utf16(c) == IF c = "emoji" THEN 2 ELSE 1
Bytes(s) == LET sum[n \in 0..Len(s)] == IF n = 0 THEN 0 ELSE sum[n - 1] + Utf8(s[n]) IN sum[Len(s)]
Units(s) == LET sum[n \in 0..Len(s)] == IF n = 0 THEN 0 ELSE sum[n - 1] + Utf16(s[n]) IN sum[Len(s)]
Prefix(s, n) == SubSeq(s, 1, n)
(* An accent reads as one with what is before it. *)
Graphemes(s) == {0} \cup {n \in 1..Len(s) - 1 : s[n + 1] # "accent"}

NotMarked == <<>>
Buffer(value, start, end, reversed, marked) ==
  [value |-> value, start |-> start, end |-> end, reversed |-> reversed, marked |-> marked]
EmptyBuffer(value) == Buffer(value, Bytes(value), Bytes(value), FALSE, NotMarked)
TextInit == buffer = EmptyBuffer(<<>>)
-----------------------------------------------------------------------------
(* Offsets. *)
IndexAt(s, offset) == CHOOSE n \in 0..Len(s) : Bytes(Prefix(s, n)) = offset
ClampBoundary(s, offset) == Max({Bytes(Prefix(s, n)) : n \in {m \in 0..Len(s) : Bytes(Prefix(s, m)) <= offset}})
PreviousBoundary(s, offset) == Max({0} \cup {b \in {Bytes(Prefix(s, n)) : n \in Graphemes(s)} : b < offset})
NextBoundary(s, offset) == Min({Bytes(s)} \cup {b \in {Bytes(Prefix(s, n)) : n \in Graphemes(s)} : b > offset})
OffsetFromUtf16(s, offset) == Bytes(Prefix(s, Min({n \in 0..Len(s) : Units(Prefix(s, n)) >= offset} \cup {Len(s)})))
OffsetToUtf16(s, offset) == Units(Prefix(s, Min({n \in 0..Len(s) : Bytes(Prefix(s, n)) >= offset} \cup {Len(s)})))

Cursor(b) == IF b.reversed THEN b.start ELSE b.end
Anchor(b) == IF b.reversed THEN b.end ELSE b.start

MoveTo(b, offset) ==
  LET to == ClampBoundary(b.value, offset) IN [b EXCEPT !.start = to, !.end = to, !.reversed = FALSE]
\* Mutant: a selection made backwards turns round its wrong end.
SelectToForwards(b, offset) ==
  LET to == ClampBoundary(b.value, offset)
  IN [b EXCEPT !.start = Min({b.start, to}), !.end = Max({b.start, to}), !.reversed = to < b.start]
SelectTo(b, offset) ==
  LET to == ClampBoundary(b.value, offset)
  IN [b EXCEPT !.start = Min({Anchor(b), to}), !.end = Max({Anchor(b), to}), !.reversed = to < Anchor(b)]
Goto(b, offset, extend) == IF extend THEN SelectTo(b, offset) ELSE MoveTo(b, offset)

(* Every edit ends here.  within: the selection inside the new text, in    *)
(* UTF-16 units, that an input method asks for.                            *)
ReplaceBytes(b, range, text, mark, within) ==
  LET from == ClampBoundary(b.value, range[1])
      to == Max({from, ClampBoundary(b.value, range[2])})
      sel == IF within = NotMarked THEN <<Bytes(text), Bytes(text)>>
             ELSE <<OffsetFromUtf16(text, within[1]), OffsetFromUtf16(text, within[2])>>
  IN IF from = to /\ text = <<>> THEN [b EXCEPT !.marked = NotMarked]
     ELSE Buffer(Prefix(b.value, IndexAt(b.value, from)) \o text
                   \o SubSeq(b.value, IndexAt(b.value, to) + 1, Len(b.value)),
                 from + sel[1], from + sel[2], FALSE,
                 IF mark /\ text # <<>> THEN <<from, from + Bytes(text)>> ELSE NotMarked)

(* An edit without a range is of what is marked, or else of the selection. *)
Target(b) == IF b.marked # NotMarked THEN b.marked ELSE <<b.start, b.end>>
ReplaceSelection(b, text) == ReplaceBytes(b, Target(b), text, FALSE, NotMarked)

DeleteTowards(b, offset) ==
  LET grown == IF b.start # b.end THEN b ELSE [b EXCEPT !.start = Min({b.end, offset}), !.end = Max({b.end, offset})]
  IN IF b.start = b.end /\ offset = b.end THEN b ELSE ReplaceSelection(grown, <<>>)

(* Where the platform wants text replaced, in UTF-16 units. *)
PlatformReplaces(b, range, text, mark, within) ==
  LET bytes == IF range = NotMarked THEN Target(b)
               ELSE <<OffsetFromUtf16(b.value, range[1]), OffsetFromUtf16(b.value, range[2])>>
  IN ReplaceBytes(b, bytes, text, mark, within)

Copied(b) == SubSeq(b.value, IndexAt(b.value, b.start) + 1, IndexAt(b.value, b.end))
-----------------------------------------------------------------------------
(* What the user, the platform and the program do with it.  Places are     *)
(* numbers of characters here; a click is where the layout has a           *)
(* character, and the platform never asks for half of one.                 *)
Pieces == {<<>>, <<"emoji", "accent">>} \cup {<<c>> : c \in Characters}
Ranges(n) == {r \in (0..n) \X (0..n) : r[1] <= r[2]} \cup {NotMarked}
Inputs == [n \in 0..MaxLength |->
  [op : {"left", "right", "home", "end"}, extend : BOOLEAN]
    \cup [op : {"all", "backspace", "delete", "unmark", "cut"}]
    \cup [op : {"click"}, at : 0..n, extend : BOOLEAN]
    \cup [op : {"insert", "set"}, text : Pieces]
    \cup [op : {"replace"}, range : Ranges(n), text : Pieces]
    \cup UNION {[op : {"mark"}, range : Ranges(n), text : {text}, within : Ranges(Len(text))] : text \in Pieces}]

InUnits(s, range) == IF range = NotMarked THEN range ELSE <<Units(Prefix(s, range[1])), Units(Prefix(s, range[2]))>>

Edit(b, in) ==
  CASE in.op = "left" -> Goto(b, IF in.extend \/ b.start = b.end THEN PreviousBoundary(b.value, Cursor(b)) ELSE b.start, in.extend)
    [] in.op = "right" -> Goto(b, IF in.extend \/ b.start = b.end THEN NextBoundary(b.value, Cursor(b)) ELSE b.end, in.extend)
    [] in.op = "home" -> Goto(b, 0, in.extend)
    [] in.op = "end" -> Goto(b, Bytes(b.value), in.extend)
    [] in.op = "all" -> [b EXCEPT !.start = 0, !.end = Bytes(b.value), !.reversed = FALSE]
    [] in.op = "backspace" -> DeleteTowards(b, PreviousBoundary(b.value, Cursor(b)))
    [] in.op = "delete" -> DeleteTowards(b, NextBoundary(b.value, Cursor(b)))
    [] in.op = "unmark" -> [b EXCEPT !.marked = NotMarked]
    [] in.op = "cut" -> IF b.start = b.end THEN b ELSE ReplaceSelection(b, <<>>)
    [] in.op = "click" -> Goto(b, Bytes(Prefix(b.value, in.at)), in.extend)
    [] in.op = "insert" -> ReplaceSelection(b, in.text)
    [] in.op = "set" -> EmptyBuffer(in.text)
    [] in.op = "replace" -> PlatformReplaces(b, InUnits(b.value, in.range), in.text, FALSE, NotMarked)
    [] in.op = "mark" -> PlatformReplaces(b, InUnits(b.value, in.range), in.text, TRUE, InUnits(in.text, in.within))

TextNext ==
  \E in \in Inputs[Len(buffer.value)] :
    LET edited == Edit(buffer, in) IN Len(edited.value) <= MaxLength /\ buffer' = edited

TextSpec == TextInit /\ [][TextNext]_buffer
-----------------------------------------------------------------------------
(* The reference: the same in numbers of characters, with the end of the   *)
(* selection that stays put and the one that moves.                        *)
Place(b, offset) == IndexAt(b.value, offset)
Plain(b) ==
  [text |-> b.value, anchor |-> Place(b, Anchor(b)), cursor |-> Place(b, Cursor(b)),
   mark |-> IF b.marked = NotMarked THEN NotMarked ELSE <<Place(b, b.marked[1]), Place(b, b.marked[2])>>]

Low(r) == Min({r.anchor, r.cursor})
High(r) == Max({r.anchor, r.cursor})
Before(r) == Max({0} \cup {n \in Graphemes(r.text) : n < r.cursor})
After(r) == Min({Len(r.text)} \cup {n \in Graphemes(r.text) : n > r.cursor})
To(r, n, extend) == [r EXCEPT !.cursor = n, !.anchor = IF extend THEN @ ELSE n]

Spliced(r, range, text, mark, within) ==
  IF range[1] = range[2] /\ text = <<>> THEN [r EXCEPT !.mark = NotMarked]
  ELSE [text |-> Prefix(r.text, range[1]) \o text \o SubSeq(r.text, range[2] + 1, Len(r.text)),
        anchor |-> range[1] + within[1], cursor |-> range[1] + within[2],
        mark |-> IF mark /\ text # <<>> THEN <<range[1], range[1] + Len(text)>> ELSE NotMarked]
Default(range, other) == IF range = NotMarked THEN other ELSE range
Chosen(r) == Default(r.mark, <<Low(r), High(r)>>)
Typed(r, text) == Spliced(r, Chosen(r), text, FALSE, <<Len(text), Len(text)>>)
Erased(r, n) ==
  CASE r.anchor # r.cursor -> Typed(r, <<>>)
    [] r.anchor = r.cursor /\ n = r.cursor -> r
    [] OTHER -> Typed([r EXCEPT !.anchor = n], <<>>)

Reference(r, in) ==
  CASE in.op = "left" -> To(r, IF in.extend \/ r.anchor = r.cursor THEN Before(r) ELSE Low(r), in.extend)
    [] in.op = "right" -> To(r, IF in.extend \/ r.anchor = r.cursor THEN After(r) ELSE High(r), in.extend)
    [] in.op = "home" -> To(r, 0, in.extend)
    [] in.op = "end" -> To(r, Len(r.text), in.extend)
    [] in.op = "all" -> [r EXCEPT !.anchor = 0, !.cursor = Len(r.text)]
    [] in.op = "backspace" -> Erased(r, Before(r))
    [] in.op = "delete" -> Erased(r, After(r))
    [] in.op = "unmark" -> [r EXCEPT !.mark = NotMarked]
    [] in.op = "cut" -> IF r.anchor = r.cursor THEN r ELSE Typed(r, <<>>)
    [] in.op = "click" -> To(r, in.at, in.extend)
    [] in.op = "insert" -> Typed(r, in.text)
    [] in.op = "set" -> [text |-> in.text, anchor |-> Len(in.text), cursor |-> Len(in.text), mark |-> NotMarked]
    [] in.op = "replace" -> Spliced(r, Default(in.range, Chosen(r)), in.text, FALSE, <<Len(in.text), Len(in.text)>>)
    [] in.op = "mark" -> Spliced(r, Default(in.range, Chosen(r)), in.text, TRUE,
                                 Default(in.within, <<Len(in.text), Len(in.text)>>))

\* Whatever the user, the platform and the program do, in any order, has the
\* effect it has on a text of characters; the platform is told the places it
\* knows in its own units, and what was cut and pasted again is where it was
\* (TextBuffer).
EffectsExact ==
  /\ \A in \in Inputs[Len(buffer.value)] : Plain(Edit(buffer, in)) = Reference(Plain(buffer), in)
  /\ \A n \in 0..Len(buffer.value) :
       LET bytes == Bytes(Prefix(buffer.value, n))
           units == OffsetToUtf16(buffer.value, bytes)
       IN units = Units(Prefix(buffer.value, n)) /\ OffsetFromUtf16(buffer.value, units) = bytes
  /\ buffer.marked = NotMarked =>
       LET pasted == Edit(Edit(buffer, [op |-> "cut"]), [op |-> "insert", text |-> Copied(buffer)])
       IN pasted.value = buffer.value
=============================================================================
