--------------------------- MODULE SaoriContract ----------------------------
(***************************************************************************)
(* What a SAORI or plugin DLL promises the program that loads it (the       *)
(* baseware), seen through load, unload, request and the mapping of the DLL *)
(* alone: readme.txt 70-103 and the four functions at the end of            *)
(* csaori_base.cpp.  Which objects exist behind them is not visible here.   *)
(***************************************************************************)
EXTENDS Naturals

CONSTANT Request    \* requests: [cmd, sec], see CSaoriBase

VARIABLES mapped,   \* is the DLL in the process?
          ready,    \* did the last load say TRUE, with no unload since?
          answer    \* the last answer: [to, by, code], or none yet; by is
                    \* the handler the request was given to

vars == <<mapped, ready, answer>>

NoAnswer == [to |-> "none", by |-> "none", code |-> 0]

\* The handlers r may be given to: a remote request only to the one written for
\* it, which may refuse it.
Handlers(r) ==
  CASE r.cmd \notin {"EXECUTE", "NOTIFY"} -> {"none"}
    [] r.cmd \in {"EXECUTE", "NOTIFY"} /\ r.sec = "remote" -> {"exec_insecure", "refused"}
    [] r.cmd \in {"EXECUTE", "NOTIFY"} /\ r.sec # "remote" -> {"exec"}

\* The codes an answer to r may have, after handler h.
Codes(r, h) ==
  CASE r.cmd = "unreadable" \/ h = "refused" -> {500}
    [] r.cmd = "GET Version" -> {200}
    [] r.cmd = "unknown" -> {400}
    [] r.cmd = "EXECUTE" /\ h # "refused" -> {200, 204, 400, 500}
    [] r.cmd = "NOTIFY" /\ h # "refused" -> {204, 400, 500}

Init == mapped = FALSE /\ ready = FALSE /\ answer = NoAnswer

Map    == ~mapped /\ mapped' = TRUE /\ UNCHANGED <<ready, answer>>
Unmap  == mapped /\ mapped' = FALSE /\ ready' = FALSE /\ UNCHANGED answer
Load   == mapped /\ ready' \in BOOLEAN /\ UNCHANGED <<mapped, answer>>
Unload == mapped /\ ready' = FALSE /\ UNCHANGED <<mapped, answer>>
Ask(r) == /\ ready
          /\ \E h \in Handlers(r) : answer' \in [to : {r}, by : {h}, code : Codes(r, h)]
          /\ UNCHANGED <<mapped, ready>>

Next == Map \/ Unmap \/ Load \/ Unload \/ \E r \in Request : Ask(r)

Spec == Init /\ [][Next]_vars
=============================================================================
