--------------------------- MODULE MCLivePipeline ---------------------------
\* The pipeline for TLC: a channel of two and messages of up to three trades,
\* so that a message can find the channel full.
EXTENDS LivePipeline
=============================================================================
