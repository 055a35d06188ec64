------------------------- MODULE MCMp4IsobmffAnalyzer -------------------------
(* A file of three boxes, two records a batch: a call ends between them,   *)
(* and a failed record leaves another behind it in the queue.  The first   *)
(* holds a table of two entries, the last is nested deeper than allowed.   *)
EXTENDS Mp4IsobmffAnalyzer

Leaf == [form |-> "leaf", room |-> 0, inside |-> <<>>]
Table(n) == [form |-> "table", room |-> n, inside |-> <<>>]
Container(inside) == [form |-> "container", room |-> 0, inside |-> inside]

MCBoxes == <<Container(<<Table(2)>>), Leaf, Container(<<Container(<<>>)>>)>>

MCAnyBox == {MCBoxes[1], Table(2), Leaf, MCBoxes[3], Container(<<>>)}

=============================================================================
