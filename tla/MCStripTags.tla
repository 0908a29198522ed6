---------------------------- MODULE MCStripTags ----------------------------
(* Every string of up to eight characters, '<', '>' or another one.           *)
EXTENDS StripTags

MCChar == {"<", ">", "a"}
MCStrings == UNION {[1 .. n -> MCChar] : n \in 0 .. 8}
==============================================================================
