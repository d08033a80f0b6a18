----------------------------- MODULE MCTsvnExec ------------------------------
(* Two loads, a TortoiseProc in each or two in one, and a question of the    *)
(* baseware beside them.  Once two threads have crossed no property promises *)
(* anything but ObjectOutlivesProc, and the run goes no further.             *)
EXTENDS TsvnExec

NotCrossed == ~crossed
=============================================================================
