----------------------------- MODULE MCToolLoop -----------------------------
(* Two tools, one with a budget, and a name that is none; answers call one  *)
(* of them or two at once, the same tool twice included.                    *)
EXTENDS ToolLoop, TLC

CONSTANTS search, fetch, ghost

MCMaxCalls == [t \in {search} |-> 2]
MCReplies == {<<>>, <<search>>, <<search, search>>, <<ghost>>, <<ghost, fetch>>}
=============================================================================
