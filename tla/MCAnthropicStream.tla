------------------------- MODULE MCAnthropicStream -------------------------
(* Two tool calls; up to two deltas in a chunk and three chunks. *)
EXTENDS AnthropicStream

MCToolCalls == {0, 1}
=============================================================================
