-------------------------------- MODULE OutputBox --------------------------------
(***************************************************************************)
(* RawPuts: a line is appended to the text of the output box in a buffer,  *)
(* and when the text was over the limit, its end is moved to the beginning *)
(* of the buffer.  The limit is what the options dialog last set.  A       *)
(* character is named by its line and its place in it, so that one that is *)
(* lost or out of order can be seen.                                       *)
(***************************************************************************)
EXTENDS Integers, Sequences

CONSTANTS
  TypedLimits, \* bound: the numbers the user types as a limit
  LineLengths  \* bound: the lengths of the lines, by their numbers

ASSUME BoxAssumption ==
  /\ TypedLimits \subseteq Int
  /\ LineLengths \in [DOMAIN LineLengths -> Nat]

VARIABLES
  box,      \* the text of hwndOutput
  TextMax,  \* the limit
  written,  \* history: all text since the box was cleared
  cutAt,    \* history: the limit the text was last cut at since then (0: none)
  room      \* history: limit and line of the last RawPuts (0: no limit then)

boxVars == <<box, TextMax, written, cutAt, room>>

Terminator == <<0, 0>>
LineText(n) == [k \in 1 .. LineLengths[n] |-> <<n, k>>]

\* At first the limit is what EM_GETLIMITTEXT says.
BoxInit ==
  /\ box = <<>> /\ written = <<>> /\ cutAt = 0 /\ room = 0
  /\ TextMax \in {t \in TypedLimits : t > 0}

\* The string that begins the buffer.
String(buf) ==
  LET end == CHOOSE k \in DOMAIN buf :
               buf[k] = Terminator /\ \A j \in 1 .. k - 1 : buf[j] # Terminator
  IN SubSeq(buf, 1, end - 1)

\* A limit of 0 copies nothing: the text is not cut at all.
Recorded(n) ==
  /\ written' = written \o LineText(n)
  /\ cutAt' = IF TextMax > 0 /\ Len(box) > TextMax THEN TextMax ELSE cutAt
  /\ room' = IF TextMax > 0 THEN TextMax + LineLengths[n] ELSE 0
  /\ UNCHANGED TextMax

\* Mutant: the end is moved without its terminator.
RawPutsUnterminated(n) ==
  LET buf == box \o LineText(n) \o <<Terminator>>
      Source == Len(buf) - TextMax - 1
      moved == [k \in DOMAIN buf |->
                  IF Len(box) > TextMax /\ k <= TextMax THEN buf[Source + k]
                  ELSE buf[k]]
  IN /\ box' = String(moved)
     /\ Recorded(n)

\* The length tested is that of the text before the line.
RawPuts(n) ==
  LET buf == box \o LineText(n) \o <<Terminator>>
      Source == Len(buf) - TextMax
      moved == [k \in DOMAIN buf |->
                  IF Len(box) > TextMax /\ k <= TextMax THEN buf[Source + k]
                  ELSE buf[k]]
  IN /\ box' = String(moved)
     /\ Recorded(n)

\* OK in the options dialog.  SaveAllShit, called before the limit is taken
\* over, makes a negative number 0.
SetLimit ==
  /\ \E t \in TypedLimits : TextMax' = IF t < 0 THEN 0 ELSE t
  /\ UNCHANGED <<box, written, cutAt, room>>

ClearBox ==
  /\ box' = <<>> /\ written' = <<>> /\ cutAt' = 0 /\ room' = 0
  /\ UNCHANGED TextMax

BoxNext == (\E n \in DOMAIN LineLengths : RawPuts(n)) \/ SetLimit \/ ClearBox

BoxSpec == BoxInit /\ [][BoxNext]_boxVars

-----------------------------------------------------------------------------
\* However lines, clears and new limits alternate, the box shows the last text
\* written: all of it, or at least as much as fitted the limit it was last cut
\* at with its terminator.  A limit above 0 is passed by one line at most; a
\* limit of 0 (or less) is none.
ShowsLatest ==
  /\ Len(box) <= Len(written)
  /\ \A k \in 1 .. Len(box) : box[k] = written[Len(written) - Len(box) + k]
  /\ IF cutAt = 0 THEN Len(box) = Len(written) ELSE Len(box) >= cutAt - 1
  /\ room # 0 => Len(box) <= room
=============================================================================
