---------------------------- MODULE MCEmbedTask -----------------------------
(* An instance of EmbedTask: a document of four segments in two chunks,    *)
(* both of which the model finds too long; the last segment may be one     *)
(* that cannot be split.                                                   *)
EXTENDS EmbedTask

CutsTwo == <<<<1, 2>>, <<3, 4>>>>
=============================================================================
