------------------------------- MODULE PrintLog -------------------------------
(***************************************************************************)
(* What TerrahIRC's print queue promises: the console shows the printed    *)
(* lines one by one in the order they were printed, each at most once, and *)
(* passes over a line only while the window is hidden or after it closed.  *)
(***************************************************************************)
EXTENDS Naturals, Sequences

VARIABLES
  printed,  \* number of lines handed to the queue; line k is the k-th
  handed,   \* number of lines the console has dealt with
  screen,   \* the lines in the output box
  visible,  \* the window is shown
  open      \* no WM_QUIT was seen

vars == <<printed, handed, screen, visible, open>>

Init ==
  /\ printed = 0 /\ handed = 0 /\ screen = <<>>
  /\ visible = TRUE /\ open = TRUE

PrintLine ==
  /\ printed' = printed + 1
  /\ UNCHANGED <<handed, screen, visible, open>>

Show ==
  /\ handed < printed
  /\ handed' = handed + 1
  /\ screen' = IF open /\ visible THEN Append(screen, handed') ELSE screen
  /\ UNCHANGED <<printed, visible, open>>

Clear == screen' = <<>> /\ UNCHANGED <<printed, handed, visible, open>>

SetVisible == visible' \in BOOLEAN /\ UNCHANGED <<printed, handed, screen, open>>

Close == open' = FALSE /\ UNCHANGED <<printed, handed, screen, visible>>

Next == PrintLine \/ Show \/ Clear \/ SetVisible \/ Close

Spec == Init /\ [][Next]_vars
=============================================================================
