--------------------------- MODULE MCToolRuntime ---------------------------
\* Two callers, one server whose connection is replaced and one that only has to be closed.
EXTENDS ToolRuntime, TLC

CONSTANTS s1, s2, c1, c2, c3

MCServerOf == (c1 :> s1) @@ (c2 :> s1) @@ (c3 :> s2)
============================================================================
