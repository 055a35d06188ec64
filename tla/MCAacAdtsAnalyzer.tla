-------------------------- MODULE MCAacAdtsAnalyzer --------------------------
(* A file without a frame; three frames in a row, the last one truncated;  *)
(* a false header at the start; false headers refuted by the next position *)
(* and by the one after, with frames to resynchronize to.                  *)
EXTENDS AacAdtsAnalyzer

MCFiles == {<<0, 0, 0>>,
            <<2, 0, 2, 0, 3, 0>>,
            <<3, 0, 0, 0, 2, 0, 2, 0>>,
            <<2, 0, 0, 2, 0, 0, 2, 0, 2, 0>>,
            <<0, 2, 0, 2, 0, 0, 2, 0>>}

=============================================================================
