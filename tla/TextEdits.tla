------------------------------- MODULE TextEdits -------------------------------
(***************************************************************************)
(* The text of a tracked document under the client's changes               *)
(* (document-tracker.ts): a change replaces the whole text or a range, the *)
(* range is given in lines and characters, and the changes of one          *)
(* notification apply one after the other. A line ends in CR, in LF, or in *)
(* CR LF, which is one terminator.                                         *)
(*                                                                         *)
(* A text is a sequence of characters; an offset counts those before it.   *)
(***************************************************************************)
EXTENDS Integers, SequencesExt

CONSTANTS
  MaxLength,    \* bound: characters of a text
  MaxInsert     \* bound: characters of a replacement

ASSUME TextEditsAssumption == MaxLength \in Nat /\ MaxInsert \in Nat

VARIABLES
  content,      \* the text the proxy tracks
  client        \* the text the client has

textVars == <<content, client>>

Chars == {"x", "CR", "LF"}

TextInit ==
  /\ content \in BoundedSeq(Chars, MaxLength)
  /\ client = content

-----------------------------------------------------------------------------
(* What a position means: the lines of a text begin where it begins and      *)
(* after each terminator.                                                    *)

EndsLine(text, i) ==
  \/ text[i] = "LF"
  \/ text[i] = "CR" /\ ~(i < Len(text) /\ text[i + 1] = "LF")
LineStarts(text) == {0} \cup {i \in 1..Len(text) : EndsLine(text, i)}
StartsBefore(text, o) == {p \in LineStarts(text) : p < o}
StartOf(text, line) ==
  CHOOSE o \in LineStarts(text) : Cardinality(StartsBefore(text, o)) = line

(* A position that is in the text: it is on a line, before its terminator. *)
Lines(text) == 0..(Cardinality(LineStarts(text)) - 1)
Within(text, pos) ==
  \A i \in (StartOf(text, pos.line) + 1)..(StartOf(text, pos.line) + pos.character) :
    i \in 1..Len(text) /\ text[i] \notin {"CR", "LF"}
Positions(text) ==
  {pos \in [line : Lines(text), character : 0..MaxLength] : Within(text, pos)}
OffsetOf(text, pos) == StartOf(text, pos.line) + pos.character

-----------------------------------------------------------------------------
(* How the proxy finds it: line by line from the start.                      *)

Absent == 0

(* indexOf('\r') or indexOf('\n') from an offset, whichever comes first: the
   index, counted from 1, or Absent. *)
FirstEol(text, offset) ==
  LET found == {i \in (offset + 1)..Len(text) : text[i] \in {"CR", "LF"}}
  IN IF found = {} THEN Absent ELSE CHOOSE i \in found : \A j \in found : i <= j

(* Mutant: CR LF is two terminators. *)
AfterEolSingle(text, eol) == eol

(* The offset after the terminator at eol. *)
AfterEol(text, eol) ==
  IF text[eol] = "CR" /\ eol < Len(text) /\ text[eol + 1] = "LF" THEN eol + 1 ELSE eol

PastEnd == -1

(* One turn of the loop: where the next line begins. *)
NextLine(text, offset) ==
  IF offset = PastEnd \/ FirstEol(text, offset) = Absent THEN PastEnd
  ELSE AfterEol(text, FirstEol(text, offset))

LineOffsets(text) ==
  LET reach[line \in Nat] == IF line = 0 THEN 0 ELSE NextLine(text, reach[line - 1])
  IN reach

(* A text without that many lines: the position is at its end. *)
PositionToOffset(text, pos) ==
  LET start == LineOffsets(text)[pos.line]
  IN IF start = PastEnd \/ start + pos.character > Len(text) THEN Len(text)
     ELSE start + pos.character

Splice(text, start, end, replacement) ==
  SubSeq(text, 1, start) \o replacement \o SubSeq(text, end + 1, Len(text))

ApplyIncremental(text, range, replacement) ==
  Splice(text, PositionToOffset(text, range.start), PositionToOffset(text, range.end), replacement)

-----------------------------------------------------------------------------
(* Changes. The client's text changes as the positions say.                  *)

Ranges(text) ==
  {range \in [start : Positions(text), end : Positions(text)] :
     OffsetOf(text, range.start) <= OffsetOf(text, range.end)}
ClientEdit(text, range, replacement) ==
  Splice(text, OffsetOf(text, range.start), OffsetOf(text, range.end), replacement)

Fits(text) == Len(text) <= MaxLength

ChangeWhole ==
  /\ \E text \in BoundedSeq(Chars, MaxInsert) : client' = text /\ content' = text

ChangeRange ==
  \E range \in Ranges(client), replacement \in BoundedSeq(Chars, MaxInsert) :
    /\ client' = ClientEdit(client, range, replacement) /\ Fits(client')
    /\ content' = ApplyIncremental(content, range, replacement)

(* Two changes in one notification: the second is on the result of the first. *)
Applied(text, range1, replacement1, range2, replacement2) ==
  ApplyIncremental(ApplyIncremental(text, range1, replacement1), range2, replacement2)

ChangeTwice ==
  \E range1 \in Ranges(client), replacement1, replacement2 \in BoundedSeq(Chars, 1) :
    LET between == ClientEdit(client, range1, replacement1)
    IN /\ Fits(between)
       /\ \E range2 \in Ranges(between) :
            /\ client' = ClientEdit(between, range2, replacement2) /\ Fits(client')
            /\ content' = Applied(content, range1, replacement1, range2, replacement2)

TextNext == ChangeWhole \/ ChangeRange \/ ChangeTwice

-----------------------------------------------------------------------------
(* Properties. *)

(* Whatever terminators its lines have and its changes bring or split, the text
   the proxy tracks is the text the client has. *)
TracksTheClient == content = client
=============================================================================
