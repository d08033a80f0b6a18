------------------------- MODULE MCSharedValueTimer -------------------------
(* A small instance of SharedValueTimer: about three events to a save, a    *)
(* clock that is set a little forward and back; one variable of one ghost,  *)
(* written and erased.                                                      *)
EXTENDS SharedValueTimer

MCGhosts  == {"kero"}
MCKeys    == {"love"}
MCTexts   == {"kero", "love", "1", ""}
MCSame    == [t \in MCTexts |-> t]
MCCut     == [t \in MCTexts |-> IF t = "1" THEN {""} ELSE {}]
MCBatches == {<<[name |-> "love", value |-> v]>> : v \in {"1", ""}}
MCQueries == {<<"love">>}
MCJumps   == {-1, 1}

\* Bound: the clock stays near the time.
MCNear == clock - now \in -2 .. 1 /\ back <= 2

\* The last answer has no influence on the next step.
MCView == <<up, m_ghost_values, file, whole, writes, failures, timing>>
=============================================================================
