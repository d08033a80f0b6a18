--------------------------- MODULE MCSharedValue ----------------------------
(* A small instance of SharedValue: a ghost in two spellings and another    *)
(* one; a variable in two spellings and the one without a name; a value     *)
(* longer than a line, and what is left of values that are cut.             *)
EXTENDS SharedValue

MCGhosts == {"Sakura", "SAKURA", "kero"}
MCKeys   == {"love", "LOVE", ""}
MCTexts  == MCGhosts \cup MCKeys \cup {"1", "too long", "too lon", "sakura", "ke"}
MCFold   == [t \in MCTexts |-> CASE t \in {"Sakura", "SAKURA"} -> "sakura"
                                 [] t = "LOVE" -> "love"
                                 [] OTHER -> t]
MCTrunc  == [t \in MCTexts |-> IF t = "too long" THEN "too lon" ELSE t]
MCCut    == [t \in MCTexts |-> CASE t = "" -> {}
                                 [] t = "too lon" -> {"", "1"}
                                 [] t = "kero" -> {"", "ke"}
                                 [] OTHER -> {""}]
Pair(n, v) == [name |-> n, value |-> v]
MCBatches == {<<Pair("love", "1")>>, <<Pair("LOVE", "too long"), Pair("", "1")>>,
              <<Pair("love", "1"), Pair("LOVE", "")>>, <<Pair("LOVE", ""), Pair("love", "1")>>}
MCQueries == {<<"LOVE", "">>}

\* The last answer has no influence on the next step: states that differ in it
\* alone count as one.
MCView == <<up, m_ghost_values, file, saved, whole, writes, failures>>
=============================================================================
