---------------------------- MODULE MCMainWindow ----------------------------
(* An instance of MainWindow for TLC: a media file whose two rows have one  *)
(* name, analysed as a container, or whose first row only matches when it   *)
(* is analysed as a stream; session files that select and expand its rows.  *)
EXTENDS MainWindow

MCDetected == [m \in Media |-> "container"]

MCLayout ==
  [m \in Media |->
     [f \in Formats |-> IF f = "container" THEN <<"box", "box">> ELSE <<"box", "nal">>]]

MCChild == <<"box">>

File(selected, expanded) ==
  [media |-> CHOOSE m \in Media : TRUE, format |-> "container",
   state |-> [selected |-> selected, expanded |-> expanded]]

MCSaved ==
  {Nothing, File([name |-> "box", row |-> 2], {}),
   File([name |-> "box", row |-> 1], {[name |-> "box", row |-> 2]})}

=============================================================================
