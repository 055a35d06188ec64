-------------------------- MODULE MCWavRiffAnalyzer --------------------------
(* Files without a form, with a form header alone, and with up to three    *)
(* chunks, each with and without trailing bytes.                           *)
EXTENDS WavRiffAnalyzer

MCFiles == [records : {0, 1, 4}, trailing : BOOLEAN]

=============================================================================
