--------------------------- MODULE MCLabelPipeline ---------------------------
(***************************************************************************)
(* Constants of LabelPipeline for TLC: one site that may repeat an article, *)
(* a model whose answer is off the roster and off the scale of magnitudes.  *)
(***************************************************************************)
EXTENDS LabelPipeline

CONSTANTS VCB, Stranger

MCSites == <<{"a", "b"}>>

MCAnswers == {[ticker |-> Stranger, magnitude |-> MaxMagnitude + 1]}
===============================================================================
