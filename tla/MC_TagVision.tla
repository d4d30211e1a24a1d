---------------------------- MODULE MC_TagVision ----------------------------
EXTENDS TagVision

\* The robot carrying the plugin, a machine, and tags named as in the
\* RCLL worlds (tag_01); tag_01 may be removed and inserted again
\* as a new model object.
Tag(pre, num, digits) == [pre |-> pre, num |-> num, digits |-> digits, inst |-> 1]
Again(m) == [m EXCEPT !.inst = 2]
Robot == Tag("", 0, FALSE)
Machine == Tag("", 1, FALSE)
MC_Names == {Machine, Tag("tag_", 1, TRUE), Again(Tag("tag_", 1, TRUE))}
MC_InitialModels == <<Robot, Tag("tag_", 1, TRUE)>>
=============================================================================
