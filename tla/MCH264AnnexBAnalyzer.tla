------------------------ MODULE MCH264AnnexBAnalyzer ------------------------
(* A file without a start code, and one of three NAL units: one with a     *)
(* payload and framing behind bytes that belong to none, an empty one, and *)
(* one whose payload needs more than one call to be mapped.                *)
EXTENDS H264AnnexBAnalyzer

MCFiles == {<<"zero", "byte">>,
            <<"byte", "code", "byte", "zero", "byte", "zero", "code", "code", "byte", "byte">>}

=============================================================================
