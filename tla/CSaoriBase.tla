----------------------------- MODULE CSaoriBase -----------------------------
(***************************************************************************)
(* The DLL around every SAORI and plugin: DllMain, load, unload, request of *)
(* csaori_base.cpp, CSAORIBase::request, and what CPLUGIN puts before and   *)
(* after exec (cplugin.cpp).  The baseware calls the DLL on one thread; the *)
(* threads plugins start are in modules of their own.                       *)
(*                                                                          *)
(* What a reply holds is abstracted to who wrote it: a part is the number   *)
(* of the request whose handler filled it, or 0 when it is empty.           *)
(***************************************************************************)
EXTENDS Naturals

CONSTANTS MaxObjects,   \* bound: CreateInstance calls
          MaxRequests,  \* bound: requests
          CallIdLimit   \* 0x7fffffff in the code

ASSUME BoundAssumption == MaxObjects \in Nat /\ MaxRequests \in Nat
ASSUME CallIdAssumption == CallIdLimit \in Nat /\ CallIdLimit >= 3

VARIABLES mapped,   \* is the DLL in the process?
          ready,    \* did the last load say TRUE, with no unload since?
          pSaori,   \* the object, by the number of its creation; 0 is NULL
          born,     \* objects created so far
          loads,    \* loads[o]: calls of o->load()
          loaded,   \* the objects whose load() returned true
          unloads,  \* unloads[o]: calls of o->unload()
          deleted,  \* the objects deleted
          call_id,  \* of pSaori
          member,   \* CPLUGIN's strings: [script, header], who wrote them
          asked,    \* requests so far
          answer    \* the last answer: n is 0 when there is none

vars == <<mapped, ready, pSaori, born, loads, loaded, unloads, deleted, call_id, member,
          asked, answer>>
objects == <<pSaori, born, loads, loaded, unloads, deleted>>

NULL == 0
Object == 1 .. MaxObjects
Maker == 0 .. MaxRequests
ResultCodes == {0, 200, 204, 400, 500}      \* SAORIRESULT, FORCE_OK being 0

\* A request: its command ("unreadable" when parseString gives up, "EXECUTE"
\* for GET too, "unknown" for the rest) and its SecurityLevel, "" when the
\* header is there and empty; without one the level is "local".
Request == [cmd : {"unreadable", "GET Version", "EXECUTE", "NOTIFY", "unknown"},
            sec : {"", "local", "remote"}]

\* What a handler may do: set a code (or leave the 500), fill parts of the
\* reply, set script or one of the strings that become headers (event, target,
\* marker ...), throw; exec_insecure says whether it has handled the request.
Behaviour == [code : ResultCodes, fills : SUBSET {"result", "values", "opts"},
              sets : SUBSET {"script", "header"}, throws : BOOLEAN, handles : BOOLEAN]

\* exec_insecure of csaori_base.h, for who does not override it.
Idle == [code |-> 500, fills |-> {}, sets |-> {}, throws |-> FALSE, handles |-> FALSE]

\* by: history, the handler that ran; "refused" is exec_insecure that says false
\* or throws.
Handler == {"none", "exec", "exec_insecure", "refused"}
Answer == [to : Request, n : Maker, by : Handler, code : ResultCodes,
           result : Maker, values : Maker, opts : Maker]
NoAnswer == [to |-> "none", n |-> 0, by |-> "none", code |-> 0,
             result |-> 0, values |-> 0, opts |-> 0]

-----------------------------------------------------------------------------
(* CSAORIBase::request. *)

\* A bug for a mutant: the counter starts again at 0, the id of no call.
CallIdFromZero(c) == IF c + 1 >= CallIdLimit THEN 0 ELSE c + 1

NextCallId(c) == IF c + 1 >= CallIdLimit THEN 1 ELSE c + 1

NewOutput(r, n, h) == [to |-> r, n |-> n, by |-> h, code |-> 500,
                       result |-> 0, values |-> 0, opts |-> 0]

\* A bug for a mutant: only the script is cleared.
BeforeKeepsHeaders(m) == [m EXCEPT !.script = 0]

exec_before(m) == [script |-> 0, header |-> 0]

\* Does one of the two handlers run?
Dispatched(r) == r.cmd \in {"EXECUTE", "NOTIFY"}

\* A bug for a mutant: everybody is local.
AlwaysLocal(r) == Dispatched(r)

\* Is it the one for local callers?  An empty level counts as local.
RunsExec(r) == Dispatched(r) /\ r.sec \in {"", "local"}

HandledBy(r, b) == CASE RunsExec(r) -> "exec"
                     [] Dispatched(r) /\ ~RunsExec(r) /\ b.handles -> "exec_insecure"
                     [] Dispatched(r) /\ ~RunsExec(r) /\ ~b.handles -> "refused"
                     [] OTHER -> "none"

\* Each outcome once: exec returns nothing, a code is lost when exec_insecure
\* refuses, and everything but the strings when a handler throws.
Behaviours(r) ==
  {b \in IF Dispatched(r) THEN Behaviour ELSE {Idle} :
     /\ RunsExec(r) => ~b.handles
     /\ Dispatched(r) /\ ~RunsExec(r) /\ ~b.handles => b.code = 500
     /\ b.throws => b.code = 500 /\ b.fills = {} /\ ~b.handles}

exec_out(o, b) ==
  [o EXCEPT !.code = b.code,
            !.result = IF "result" \in b.fills THEN o.n ELSE 0,
            !.values = IF "values" \in b.fills THEN o.n ELSE 0,
            !.opts   = IF "opts" \in b.fills THEN o.n ELSE 0]

exec_member(m, n, b) ==
  [script |-> IF "script" \in b.sets THEN n ELSE m.script,
   header |-> IF "header" \in b.sets THEN n ELSE m.header]

\* The strings that are not empty go into the reply.
exec_after(o, m) ==
  [o EXCEPT !.result = IF m.script # 0 THEN m.script ELSE @,
            !.opts   = IF m.header # 0 THEN m.header ELSE @]

\* A bug for a mutant: only a forced OK is emptied.
EmptiedIfForced(o) == IF o.code = 0 THEN [o EXCEPT !.code = 204, !.result = 0, !.values = 0] ELSE o

setResultEmpty(o) ==
  IF o.code \in {0, 200} THEN [o EXCEPT !.code = 204, !.result = 0, !.values = 0] ELSE o

\* FORCE_OK becomes OK, an OK with nothing in it No Content.
toString(o) ==
  CASE o.code = 0 -> [o EXCEPT !.code = 200]
    [] o.code = 200 /\ o.result = 0 /\ o.values = 0 /\ o.opts = 0 -> [o EXCEPT !.code = 204]
    [] OTHER -> o

\* The answer of a call that returns; m: the strings after the handler.
Reply(r, n, b, m) ==
  LET out  == NewOutput(r, n, HandledBy(r, b))
      ran  == exec_out(out, b)
      done == exec_after(IF out.by = "refused" THEN [ran EXCEPT !.code = 500] ELSE ran, m)
  IN  toString(CASE r.cmd = "unreadable" -> out
                 [] r.cmd = "GET Version" -> [out EXCEPT !.code = 0]
                 [] r.cmd = "unknown" -> [out EXCEPT !.code = 400]
                 [] r.cmd = "NOTIFY" -> setResultEmpty(done)
                 [] OTHER -> done)

\* CPLUGIN's strings after the handler.
MemberAfter(r, n, b, m) ==
  IF Dispatched(r) THEN exec_member(exec_before(m), n, b) ELSE m

-----------------------------------------------------------------------------
(* The exported functions, as the baseware calls them. *)

Init ==
  /\ mapped = FALSE /\ ready = FALSE
  /\ pSaori = NULL /\ born = 0
  /\ loads = [o \in Object |-> 0] /\ loaded = {}
  /\ unloads = [o \in Object |-> 0] /\ deleted = {}
  /\ call_id = 0 /\ member = [script |-> 0, header |-> 0]
  /\ asked = 0 /\ answer = NoAnswer

\* DLL_PROCESS_ATTACH: the globals are fresh.
Attach ==
  /\ ~mapped /\ mapped' = TRUE
  /\ UNCHANGED <<ready, objects, call_id, member, asked, answer>>

\* unload(): pSaori->unload() is called once, thrown exceptions are dropped,
\* and the object goes.
Retire ==
  /\ unloads' = IF pSaori = NULL THEN unloads ELSE [unloads EXCEPT ![pSaori] = @ + 1]
  /\ deleted' = IF pSaori = NULL THEN deleted ELSE deleted \cup {pSaori}

unload == Retire /\ pSaori' = NULL

Unload ==
  /\ mapped /\ unload
  /\ ready' = FALSE
  /\ UNCHANGED <<mapped, born, loads, loaded, call_id, member, asked, answer>>

\* DLL_PROCESS_DETACH unloads on its own if the baseware did not.
Detach ==
  /\ mapped /\ mapped' = FALSE /\ unload
  /\ ready' = FALSE
  /\ UNCHANGED <<born, loads, loaded, call_id, member, asked, answer>>

\* A bug for a mutant: load replaces the object it finds.
LoadOver(ok) ==
  LET new == born + 1
  IN  /\ mapped /\ born < MaxObjects
      /\ born' = new /\ pSaori' = new
      /\ loads' = [loads EXCEPT ![new] = @ + 1]
      /\ loaded' = IF ok THEN loaded \cup {new} ELSE loaded
      /\ ready' = ok
      /\ call_id' = 0 /\ member' = [script |-> 0, header |-> 0]
      /\ UNCHANGED <<mapped, unloads, deleted, asked, answer>>

\* A bug for a mutant: an exception in load() counts as success.
LoadTrusting(ok) ==
  LET new == born + 1
  IN  /\ mapped /\ born < MaxObjects
      /\ Retire
      /\ born' = new /\ pSaori' = new
      /\ loads' = [loads EXCEPT ![new] = @ + 1]
      /\ loaded' = IF ok THEN loaded \cup {new} ELSE loaded
      /\ ready' = TRUE
      /\ call_id' = 0 /\ member' = [script |-> 0, header |-> 0]
      /\ UNCHANGED <<mapped, asked, answer>>

\* load_shared: an object left over is unloaded first; the new one stays, also
\* when its load() says false or throws (ok: it returned true).
Load(ok) ==
  LET new == born + 1
  IN  /\ mapped /\ born < MaxObjects
      /\ Retire
      /\ born' = new /\ pSaori' = new
      /\ loads' = [loads EXCEPT ![new] = @ + 1]
      /\ loaded' = IF ok THEN loaded \cup {new} ELSE loaded
      /\ ready' = ok
      /\ call_id' = 0 /\ member' = [script |-> 0, header |-> 0]
      /\ UNCHANGED <<mapped, asked, answer>>

\* request(): pSaori->request(rq) returns; b: what the handler did, if one ran.
Ask(r, b) ==
  /\ ready /\ asked < MaxRequests /\ ~b.throws
  /\ asked' = asked + 1
  /\ call_id' = NextCallId(call_id)
  /\ member' = MemberAfter(r, asked', b, member)
  /\ answer' = Reply(r, asked', b, member')
  /\ UNCHANGED <<mapped, ready, objects>>

\* request(): the handler throws, after it set what it set; catch (...)
\* answers 500.
AskThrows(r, b) ==
  /\ ready /\ asked < MaxRequests /\ b.throws /\ Dispatched(r)
  /\ asked' = asked + 1
  /\ call_id' = NextCallId(call_id)
  /\ member' = MemberAfter(r, asked', b, member)
  /\ answer' = NewOutput(r, asked', HandledBy(r, b))
  /\ UNCHANGED <<mapped, ready, objects>>

Next ==
  \/ Attach \/ Detach \/ Unload
  \/ \E ok \in BOOLEAN : Load(ok)
  \/ \E r \in Request : \E b \in Behaviours(r) : Ask(r, b) \/ AskThrows(r, b)

Spec == Init /\ [][Next]_vars

-----------------------------------------------------------------------------
(* Properties. *)

TypeOK ==
  /\ mapped \in BOOLEAN /\ ready \in BOOLEAN
  /\ pSaori \in 0 .. born /\ born \in 0 .. MaxObjects
  /\ loads \in [Object -> Nat] /\ unloads \in [Object -> Nat]
  /\ loaded \subseteq Object /\ deleted \subseteq Object
  /\ call_id \in 0 .. CallIdLimit - 1
  /\ member \in [script : Maker, header : Maker]
  /\ asked \in Maker
  /\ answer \in Answer \cup {NoAnswer}

(***************************************************************************)
(* Every object is loaded once; it is unloaded once, before it is deleted;  *)
(* none but pSaori is alive.  So no plugin's threads, files or values stay  *)
(* behind a second load, a failed load or FreeLibrary without unload        *)
(* (csaori_base.cpp 527, 570-573, 614-639).                                 *)
(***************************************************************************)
LoadUnloadPaired ==
  /\ \A o \in Object : loads[o] = IF o <= born THEN 1 ELSE 0
  /\ \A o \in Object : unloads[o] = IF o \in deleted THEN 1 ELSE 0
  /\ {o \in Object : o <= born /\ o \notin deleted} = {pSaori} \ {NULL}
  /\ pSaori # NULL => mapped

(***************************************************************************)
(* While load's TRUE stands, request finds an object, one that loaded well  *)
(* (csaori_base.cpp 547, which looks at neither).                           *)
(***************************************************************************)
ReadyMeansLoaded == ready => mapped /\ pSaori \in loaded \ deleted

(***************************************************************************)
(* Nothing in an answer comes from an earlier request, although script,     *)
(* event and target live in the object and a handler that throws leaves     *)
(* them filled (cplugin.cpp 58-79, 123-147).                                *)
(***************************************************************************)
AnswerIsOwn == {answer.result, answer.values, answer.opts} \subseteq {0, answer.n}

(***************************************************************************)
(* Two requests in a row have different call ids, never 0, also where the   *)
(* counter wraps: iptools.cpp 133 and 177 keep the device list of the call  *)
(* whose id they remember, and 0 is the id they remember of none.           *)
(***************************************************************************)
CallIdsDiffer ==
  [][asked' # asked => call_id' # call_id /\ call_id' # 0]_vars

(***************************************************************************)
(* readme.txt 227-231 says that setResultEmpty, which ends every NOTIFY,    *)
(* clears result and values, also where no code was set.  For a NOTIFY that *)
(* exec has left with the code it found, 500.                               *)
(***************************************************************************)
NotifyAnswersNothing ==
  (answer.by = "exec" /\ answer.to.cmd = "NOTIFY" /\ answer.code = 500)
    => answer.result = 0 /\ answer.values = 0

(***************************************************************************)
(* The DLL keeps the contract of SaoriContract: it answers while it is      *)
(* ready, every answer's code is one its request and its handler allow, a   *)
(* remote request never reaches exec and answers 500 if exec_insecure       *)
(* refuses it, and a NOTIFY never says 200.                                 *)
(***************************************************************************)
Contract == INSTANCE SaoriContract
              WITH answer <- IF answer.n = 0 THEN [to |-> "none", by |-> "none", code |-> 0]
                             ELSE [to |-> answer.to, by |-> answer.by, code |-> answer.code]
KeepsContract == Contract!Spec

=============================================================================
