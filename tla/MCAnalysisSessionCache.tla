----------------------- MODULE MCAnalysisSessionCache -----------------------
(* One rule of the H.264 analyzer and one of another, three index updates. *)
EXTENDS AnalysisSessionCache

CONSTANTS h264, wav

MCRules        == {h264, wav}
MCIndexedRules == {h264}
MCPages        == {<<r, "index", n>> : r \in MCIndexedRules, n \in 0..MaxUpdates}
                    \cup {<<r, "result", 0>> : r \in MCRules}
=============================================================================
