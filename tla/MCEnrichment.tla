--------------------------- MODULE MCEnrichment ---------------------------
EXTENDS Enrichment, TLC

CONSTANTS e1, e2, e3, a, b

\* Two new names, the first of them again, and one of them twice.
MCMentions == (e1 :> <<a, b>>) @@ (e2 :> <<a>>) @@ (e3 :> <<b, b>>)
MCPair     == (e1 :> <<a, b>>) @@ (e2 :> <<a>>)
=============================================================================
