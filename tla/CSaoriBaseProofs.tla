-------------------------- MODULE CSaoriBaseProofs --------------------------
(***************************************************************************)
(* Theorems about CSaoriBase, for any number of objects and requests and    *)
(* any limit of the call id, and that it implements SaoriContract.          *)
(***************************************************************************)
EXTENDS CSaoriBase, TLAPS

Strings == [script : Maker, header : Maker]

-----------------------------------------------------------------------------
(* The operators of CSAORIBase::request. *)

(* A handler leaves CPLUGIN's strings well formed, and what it or           *)
(* exec_before put there is of its own request (cplugin.cpp 58-79).         *)
LEMMA MemberOfRequest ==
  ASSUME NEW r \in Request, NEW n \in Maker, NEW b \in Behaviour, NEW m \in Strings
  PROVE  /\ MemberAfter(r, n, b, m) \in Strings
         /\ Dispatched(r) => MemberAfter(r, n, b, m) \in [script : {0, n}, header : {0, n}]
  <1>1. exec_before(m) = [script |-> 0, header |-> 0]
    BY DEF exec_before
  <1>2. exec_member(exec_before(m), n, b) \in [script : {0, n}, header : {0, n}]
    BY <1>1 DEF exec_member
  <1>3. 0 \in Maker
    BY BoundAssumption DEF Maker
  <1>4. CASE Dispatched(r)
    BY <1>2, <1>3, <1>4 DEF MemberAfter, Strings
  <1>5. CASE ~Dispatched(r)
    BY <1>5 DEF MemberAfter
  <1> QED
    BY <1>4, <1>5

Own(r, n) == [to : {r}, n : {n}, by : Handler, code : ResultCodes,
              result : {0, n}, values : {0, n}, opts : {0, n}]

(* The handler and the strings keep an output of request n free of what     *)
(* other requests left.                                                     *)
LEMMA OutputOfRequest ==
  ASSUME NEW r \in Request, NEW n \in Maker, NEW b \in Behaviour, NEW o \in Own(r, n),
         NEW m \in [script : {0, n}, header : {0, n}]
  PROVE  /\ exec_out(o, b) \in Own(r, n)
         /\ exec_after(o, m) \in Own(r, n)
         /\ setResultEmpty(o) \in Own(r, n) /\ setResultEmpty(o).code \in {204, 400, 500}
         /\ toString(o) \in Own(r, n)
         /\ o.code = 500 => exec_after(o, m).code = 500 /\ setResultEmpty(o).code = 500
         /\ o.code \notin {0, 200} => toString(o).code = o.code
         /\ o.code = 0 => toString(o).code = 200
         /\ toString(o).code # 0
         /\ exec_out(o, b).by = o.by /\ exec_after(o, m).by = o.by
         /\ setResultEmpty(o).by = o.by /\ toString(o).by = o.by
  <1>1. exec_out(o, b) \in Own(r, n) /\ exec_out(o, b).by = o.by
    BY DEF exec_out, Own, Behaviour
  <1>2. /\ exec_after(o, m) \in Own(r, n)
        /\ exec_after(o, m).code = o.code /\ exec_after(o, m).by = o.by
    BY DEF exec_after, Own
  <1>3. /\ setResultEmpty(o) \in Own(r, n)
        /\ setResultEmpty(o).code \in {204, 400, 500}
        /\ o.code = 500 => setResultEmpty(o).code = 500
        /\ setResultEmpty(o).by = o.by
    <2>1. CASE o.code \in {0, 200}
      <3>1. setResultEmpty(o) = [o EXCEPT !.code = 204, !.result = 0, !.values = 0]
        BY <2>1 DEF setResultEmpty
      <3> DEFINE e1 == [o EXCEPT !.code = 204]
                 e2 == [e1 EXCEPT !.result = 0]
                 e3 == [e2 EXCEPT !.values = 0]
      <3>2. setResultEmpty(o) = e3
        BY <3>1
      <3>3. e1 \in Own(r, n)
        BY DEF Own, ResultCodes
      <3> HIDE DEF e1
      <3>4. e2 \in Own(r, n)
        BY <3>3 DEF Own
      <3> HIDE DEF e2
      <3>5. e3 \in Own(r, n)
        BY <3>4 DEF Own
      <3>6. setResultEmpty(o) \in Own(r, n)
        BY <3>2, <3>5
      <3>7. setResultEmpty(o).code = 204 /\ setResultEmpty(o).by = o.by
        BY <3>1 DEF Own
      <3> QED
        BY <3>6, <3>7, <2>1
    <2>2. CASE o.code \notin {0, 200}
      <3>1. setResultEmpty(o) = o
        BY <2>2 DEF setResultEmpty
      <3> QED
        BY <3>1, <2>2 DEF Own, ResultCodes
    <2> QED
      BY <2>1, <2>2
  <1>4. /\ toString(o) \in Own(r, n)
        /\ o.code \notin {0, 200} => toString(o).code = o.code
        /\ o.code = 0 => toString(o).code = 200
        /\ toString(o).code # 0 /\ toString(o).by = o.by
    <2>1. CASE o.code = 0
      BY <2>1 DEF toString, Own, ResultCodes
    <2>2. CASE o.code = 200 /\ o.result = 0 /\ o.values = 0 /\ o.opts = 0
      <3>1. toString(o) = [o EXCEPT !.code = 204]
        BY <2>2 DEF toString
      <3> QED
        BY <3>1, <2>2 DEF Own, ResultCodes
    <2>3. CASE o.code # 0 /\ ~(o.code = 200 /\ o.result = 0 /\ o.values = 0 /\ o.opts = 0)
      <3>1. toString(o) = o
        BY <2>3 DEF toString
      <3> QED
        BY <3>1, <2>3 DEF Own, ResultCodes
    <2> QED
      BY <2>1, <2>2, <2>3
  <1> QED
    BY <1>1, <1>2, <1>3, <1>4

(* The handler a request is given to is one the contract allows             *)
(* (csaori_base.cpp 342-352).                                               *)
LEMMA HandlerOfRequest ==
  ASSUME NEW r \in Request, NEW b \in Behaviour
  PROVE  /\ HandledBy(r, b) \in Handler /\ HandledBy(r, b) \in Contract!Handlers(r)
         /\ Dispatched(r) <=> HandledBy(r, b) # "none"
  <1>1. CASE ~Dispatched(r)
    <2>1. HandledBy(r, b) = "none" /\ Contract!Handlers(r) = {"none"}
      BY <1>1 DEF HandledBy, RunsExec, Dispatched, Contract!Handlers
    <2> QED
      BY <1>1, <2>1 DEF Handler
  <1>2. CASE Dispatched(r) /\ r.sec = "remote"
    <2>1. Contract!Handlers(r) = {"exec_insecure", "refused"}
      BY <1>2 DEF Dispatched, Contract!Handlers
    <2>2. HandledBy(r, b) = IF b.handles THEN "exec_insecure" ELSE "refused"
      BY <1>2 DEF HandledBy, RunsExec
    <2> QED
      BY <1>2, <2>1, <2>2 DEF Handler
  <1>3. CASE Dispatched(r) /\ r.sec # "remote"
    <2>1. Contract!Handlers(r) = {"exec"} /\ RunsExec(r)
      BY <1>3 DEF Dispatched, Contract!Handlers, RunsExec, Request
    <2>2. HandledBy(r, b) = "exec"
      BY <2>1 DEF HandledBy
    <2> QED
      BY <1>3, <2>1, <2>2 DEF Handler
  <1> QED
    BY <1>1, <1>2, <1>3

(* A reply is of its own request alone, and its code is one the contract    *)
(* allows (csaori_base.cpp 330-363).                                        *)
LEMMA ReplyOfRequest ==
  ASSUME NEW r \in Request, NEW n \in Maker, NEW b \in Behaviour, NEW m \in Strings,
         Dispatched(r) => m \in [script : {0, n}, header : {0, n}]
  PROVE  /\ Reply(r, n, b, m) \in Own(r, n) /\ Reply(r, n, b, m).by = HandledBy(r, b)
         /\ Reply(r, n, b, m).code \in Contract!Codes(r, HandledBy(r, b))
  <1> DEFINE h    == HandledBy(r, b)
             out  == NewOutput(r, n, h)
             ran  == exec_out(out, b)
             left == IF out.by = "refused" THEN [ran EXCEPT !.code = 500] ELSE ran
             done == exec_after(left, m)
             zero == [script |-> 0, header |-> 0]
             ok   == [out EXCEPT !.code = 0]
             bad  == [out EXCEPT !.code = 400]
  <1>1. /\ r.cmd = "unreadable" => Reply(r, n, b, m) = toString(out)
        /\ r.cmd = "GET Version" => Reply(r, n, b, m) = toString(ok)
        /\ r.cmd = "unknown" => Reply(r, n, b, m) = toString(bad)
        /\ r.cmd = "NOTIFY" => Reply(r, n, b, m) = toString(setResultEmpty(done))
        /\ r.cmd = "EXECUTE" => Reply(r, n, b, m) = toString(done)
    BY DEF Reply
  <1>h. h \in Handler /\ (Dispatched(r) <=> h # "none")
    BY HandlerOfRequest
  <1> HIDE DEF h
  <1>2. out \in Own(r, n) /\ out.code = 500 /\ out.by = h
    BY <1>h DEF NewOutput, Own, ResultCodes
  <1>3. /\ ok \in Own(r, n) /\ ok.code = 0 /\ ok.by = h
        /\ bad \in Own(r, n) /\ bad.code = 400 /\ bad.by = h
    BY <1>h DEF NewOutput, Own, ResultCodes
  <1>4. zero \in [script : {0, n}, header : {0, n}]
    OBVIOUS
  <1> HIDE DEF out, zero, ok, bad
  <1>5. left \in Own(r, n) /\ left.by = h /\ (h = "refused" => left.code = 500)
    <2>1. ran \in Own(r, n) /\ ran.by = h
      BY <1>2, <1>4, OutputOfRequest
    <2> HIDE DEF ran
    <2> QED
      BY <1>2, <2>1 DEF Own, ResultCodes
  <1> HIDE DEF left
  <1>6. ASSUME Dispatched(r)
        PROVE  done \in Own(r, n) /\ done.by = h /\ (h = "refused" => done.code = 500)
    BY <1>5, <1>6, OutputOfRequest
  <1> HIDE DEF done
  <1>7. CASE ~Dispatched(r)
    <2>1. h = "none" /\ r.cmd \in {"unreadable", "GET Version", "unknown"}
      BY <1>7, <1>h DEF Dispatched, Request
    <2>2. /\ r.cmd = "unreadable" => Contract!Codes(r, h) = {500}
          /\ r.cmd = "GET Version" => Contract!Codes(r, h) = {200}
          /\ r.cmd = "unknown" => Contract!Codes(r, h) = {400}
      <3>1. ASSUME r.cmd = "unreadable" PROVE Contract!Codes(r, h) = {500}
        BY <2>1, <3>1 DEF Contract!Codes
      <3>2. ASSUME r.cmd = "GET Version" PROVE Contract!Codes(r, h) = {200}
        BY <2>1, <3>2 DEF Contract!Codes
      <3>3. ASSUME r.cmd = "unknown" PROVE Contract!Codes(r, h) = {400}
        BY <2>1, <3>3 DEF Contract!Codes
      <3> QED
        BY <3>1, <3>2, <3>3
    <2>3. toString(out) \in Own(r, n) /\ toString(out).code = 500 /\ toString(out).by = h
      BY <1>2, <1>4, OutputOfRequest
    <2>4. toString(ok) \in Own(r, n) /\ toString(ok).code = 200 /\ toString(ok).by = h
      BY <1>3, <1>4, OutputOfRequest
    <2>5. toString(bad) \in Own(r, n) /\ toString(bad).code = 400 /\ toString(bad).by = h
      BY <1>3, <1>4, OutputOfRequest
    <2> DEFINE reply == Reply(r, n, b, m)
    <2>6. \/ reply = toString(out) /\ Contract!Codes(r, h) = {500}
          \/ reply = toString(ok) /\ Contract!Codes(r, h) = {200}
          \/ reply = toString(bad) /\ Contract!Codes(r, h) = {400}
      BY <1>1, <2>1, <2>2
    <2> HIDE DEF reply
    <2>7. reply \in Own(r, n) /\ reply.by = h /\ reply.code \in Contract!Codes(r, h)
      BY <2>3, <2>4, <2>5, <2>6
    <2> QED
      BY <2>7 DEF h, reply
  <1>8. CASE r.cmd = "NOTIFY"
    <2> DEFINE emptied == setResultEmpty(done)
    <2>1. Dispatched(r)
      BY <1>8 DEF Dispatched
    <2>2. /\ emptied \in Own(r, n) /\ emptied.code \in {204, 400, 500} /\ emptied.by = h
          /\ h = "refused" => emptied.code = 500
      BY <2>1, <1>4, <1>6, OutputOfRequest
    <2>3. Reply(r, n, b, m) = toString(emptied)
      BY <1>1, <1>8
    <2> HIDE DEF emptied
    <2>4. /\ toString(emptied) \in Own(r, n) /\ toString(emptied).code = emptied.code
          /\ toString(emptied).by = h
      BY <2>2, <1>4, OutputOfRequest
    <2>5. Contract!Codes(r, h) = IF h = "refused" THEN {500} ELSE {204, 400, 500}
      BY <1>8 DEF Contract!Codes
    <2>6. /\ Reply(r, n, b, m) \in Own(r, n) /\ Reply(r, n, b, m).by = h
          /\ Reply(r, n, b, m).code \in Contract!Codes(r, h)
      BY <2>2, <2>3, <2>4, <2>5
    <2> QED
      BY <2>6 DEF h
  <1>9. CASE r.cmd = "EXECUTE"
    <2>1. Dispatched(r)
      BY <1>9 DEF Dispatched
    <2>2. done \in Own(r, n) /\ done.by = h /\ (h = "refused" => done.code = 500)
      BY <2>1, <1>6
    <2>3. /\ toString(done) \in Own(r, n) /\ toString(done).code # 0 /\ toString(done).by = h
          /\ done.code = 500 => toString(done).code = 500
      BY <2>2, <1>4, OutputOfRequest
    <2>4. toString(done).code \in {200, 204, 400, 500}
      BY <2>3 DEF Own, ResultCodes
    <2>5. Contract!Codes(r, h) = IF h = "refused" THEN {500} ELSE {200, 204, 400, 500}
      BY <1>9 DEF Contract!Codes
    <2>6. /\ Reply(r, n, b, m) \in Own(r, n) /\ Reply(r, n, b, m).by = h
          /\ Reply(r, n, b, m).code \in Contract!Codes(r, h)
      BY <1>1, <1>9, <2>2, <2>3, <2>4, <2>5
    <2> QED
      BY <2>6 DEF h
  <1> QED
    BY <1>7, <1>8, <1>9 DEF Dispatched

-----------------------------------------------------------------------------
(* The invariant. *)

\* Beside the properties: only objects already created were deleted, or a new
\* one could be born dead.
IInv == /\ TypeOK /\ LoadUnloadPaired /\ ReadyMeansLoaded /\ AnswerIsOwn
        /\ deleted \subseteq 1 .. born

LEMMA InitIInv == Init => IInv
  <1> SUFFICES ASSUME Init
               PROVE  IInv
    OBVIOUS
  <1>1. 0 \in Maker /\ 0 \in 0 .. MaxObjects /\ 0 \in 0 .. CallIdLimit - 1
    BY BoundAssumption, CallIdAssumption DEF Maker
  <1>2. TypeOK
    <2>1. loads \in [Object -> Nat] /\ unloads \in [Object -> Nat]
      BY DEF Init
    <2>2. pSaori \in 0 .. born
      BY DEF Init, NULL
    <2>3. member \in [script : Maker, header : Maker] /\ answer \in Answer \cup {NoAnswer}
      BY <1>1 DEF Init
    <2> QED
      BY <1>1, <2>1, <2>2, <2>3 DEF Init, TypeOK
  <1>3. LoadUnloadPaired
    BY BoundAssumption DEF Init, LoadUnloadPaired, Object, NULL
  <1>4. ReadyMeansLoaded /\ AnswerIsOwn /\ deleted \subseteq 1 .. born
    BY DEF Init, ReadyMeansLoaded, AnswerIsOwn, NoAnswer
  <1> QED
    BY <1>2, <1>3, <1>4 DEF IInv

(* unload() counts one unload for the object and deletes it                 *)
(* (csaori_base.cpp 614-639).                                               *)
LEMMA RetireKeepsPairs ==
  ASSUME IInv, Retire
  PROVE  /\ unloads' \in [Object -> Nat] /\ deleted' \subseteq 1 .. born
         /\ \A o \in Object : unloads'[o] = IF o \in deleted' THEN 1 ELSE 0
         /\ {o \in Object : o <= born /\ o \notin deleted'} = {}
  <1>1. CASE pSaori = 0
    BY <1>1 DEF IInv, TypeOK, LoadUnloadPaired, Retire, NULL
  <1>2. CASE pSaori # 0
    <2>1. pSaori \in Object /\ pSaori \in 1 .. born
      BY <1>2, BoundAssumption DEF IInv, TypeOK, Object
    <2>2. deleted' = deleted \cup {pSaori} /\ unloads' = [unloads EXCEPT ![pSaori] = @ + 1]
      BY <1>2 DEF Retire, NULL
    <2>3. pSaori \notin deleted /\ unloads[pSaori] = 0
      BY <1>2, <2>1 DEF IInv, LoadUnloadPaired, NULL
    <2>4. unloads' \in [Object -> Nat] /\ unloads'[pSaori] = 1
      BY <2>1, <2>2, <2>3 DEF IInv, TypeOK
    <2>5. \A o \in Object : unloads'[o] = IF o \in deleted' THEN 1 ELSE 0
      BY <2>1, <2>2, <2>3, <2>4 DEF IInv, TypeOK, LoadUnloadPaired
    <2>6. {o \in Object : o <= born /\ o \notin deleted'} = {}
      BY <2>2 DEF IInv, LoadUnloadPaired
    <2> QED
      BY <2>1, <2>2, <2>4, <2>5, <2>6 DEF IInv
  <1> QED
    BY <1>1, <1>2

LEMMA BehavesAs == ASSUME NEW r, NEW b \in Behaviours(r) PROVE b \in Behaviour
  <1>1. {} \in SUBSET {"result", "values", "opts"} /\ {} \in SUBSET {"script", "header"}
    OBVIOUS
  <1>2. 500 \in ResultCodes
    BY DEF ResultCodes
  <1>3. Idle \in Behaviour
    BY <1>1, <1>2 DEF Idle, Behaviour
  <1>4. b \in IF Dispatched(r) THEN Behaviour ELSE {Idle}
    BY DEF Behaviours
  <1> QED
    BY <1>3, <1>4

\* The answer of request r, as far as the contract sees it.
Allowed(r, a) == /\ a.to = r /\ a.by \in Contract!Handlers(r)
                 /\ a.code \in Contract!Codes(r, a.by)

(* An answer changes nothing about the objects (csaori_base.cpp 534-562).   *)
LEMMA AskIInv ==
  ASSUME IInv, NEW r \in Request, NEW b \in Behaviour, Ask(r, b) \/ AskThrows(r, b)
  PROVE  IInv' /\ call_id' # call_id /\ call_id' # 0
               /\ answer'.n = asked + 1 /\ Allowed(r, answer')
  <1> DEFINE n == asked'
             h == HandledBy(r, b)
  <1>1. /\ asked' = asked + 1 /\ asked < MaxRequests /\ ready
        /\ call_id' = NextCallId(call_id)
        /\ member' = MemberAfter(r, n, b, member)
        /\ \/ answer' = Reply(r, n, b, member')
           \/ answer' = NewOutput(r, n, h) /\ Dispatched(r)
        /\ UNCHANGED <<mapped, ready, pSaori, born, loads, loaded, unloads, deleted>>
    BY DEF Ask, AskThrows, objects
  <1>2. n \in Maker /\ n # 0 /\ 0 \in Maker /\ member \in Strings
    BY <1>1, BoundAssumption DEF IInv, TypeOK, Maker, Strings
  <1>3. /\ member' \in Strings
        /\ Dispatched(r) => member' \in [script : {0, n}, header : {0, n}]
    BY <1>1, <1>2, MemberOfRequest
  <1>h. h \in Handler /\ h \in Contract!Handlers(r)
    BY HandlerOfRequest
  <1>4. /\ answer' \in Own(r, n) /\ answer'.by = h
        /\ answer'.code \in Contract!Codes(r, h)
    <2>1. CASE answer' = Reply(r, n, b, member')
      BY <2>1, <1>2, <1>3, ReplyOfRequest
    <2>2. CASE answer' = NewOutput(r, n, h) /\ Dispatched(r)
      <3>1. 500 \in Contract!Codes(r, h)
        <4> HIDE DEF h
        <4>1. CASE h = "refused" /\ r.cmd \in {"EXECUTE", "NOTIFY"}
          <5>1. Contract!Codes(r, h) = {500}
            BY <4>1 DEF Contract!Codes
          <5> QED
            BY <5>1
        <4>2. CASE h # "refused" /\ r.cmd = "EXECUTE"
          BY <4>2 DEF Contract!Codes
        <4>3. CASE h # "refused" /\ r.cmd = "NOTIFY"
          BY <4>3 DEF Contract!Codes
        <4> QED
          BY <2>2, <4>1, <4>2, <4>3 DEF Dispatched
      <3>2. /\ NewOutput(r, n, h) \in Own(r, n) /\ NewOutput(r, n, h).by = h
            /\ NewOutput(r, n, h).code = 500
        <4> HIDE DEF h
        <4> QED
          BY <1>h DEF NewOutput, Own, ResultCodes
      <3> QED
        BY <2>2, <3>1, <3>2
    <2> QED
      BY <1>1, <2>1, <2>2
  <1> HIDE DEF h
  <1>5. answer' \in Answer /\ AnswerIsOwn' /\ answer'.n = asked + 1 /\ answer'.to = r
    BY <1>1, <1>2, <1>4 DEF Own, Answer, AnswerIsOwn
  <1>6. call_id' \in 0 .. CallIdLimit - 1 /\ call_id' # call_id /\ call_id' # 0
    BY <1>1, CallIdAssumption DEF IInv, TypeOK, NextCallId
  <1>7. TypeOK'
    BY <1>1, <1>2, <1>3, <1>5, <1>6 DEF IInv, TypeOK, Strings
  <1>8. LoadUnloadPaired' /\ ReadyMeansLoaded' /\ (deleted \subseteq 1 .. born)'
    BY <1>1 DEF IInv, LoadUnloadPaired, ReadyMeansLoaded
  <1>9. Allowed(r, answer')
    BY <1>h, <1>4, <1>5 DEF Allowed
  <1> QED
    BY <1>5, <1>6, <1>7, <1>8, <1>9 DEF IInv

(* load() puts a new object in the place of the one it unloads              *)
(* (csaori_base.cpp 564-596).                                               *)
LEMMA LoadIInv ==
  ASSUME IInv, NEW ok \in BOOLEAN, Load(ok)
  PROVE  IInv'
  <1> DEFINE new == born + 1
  <1>1. /\ mapped /\ mapped' = mapped /\ born < MaxObjects /\ born' = new /\ pSaori' = new
        /\ Retire
        /\ loads' = [loads EXCEPT ![new] = @ + 1]
        /\ loaded' = IF ok THEN loaded \cup {new} ELSE loaded
        /\ ready' = ok /\ call_id' = 0 /\ member' = [script |-> 0, header |-> 0]
        /\ asked' = asked /\ answer' = answer
    BY DEF Load, NULL
  <1>2. new \in Object /\ 0 \in Maker /\ born \in Nat /\ new \in Nat
    BY <1>1, BoundAssumption DEF IInv, TypeOK, Object, Maker
  <1>3. /\ unloads' \in [Object -> Nat] /\ deleted' \subseteq 1 .. born
        /\ \A o \in Object : unloads'[o] = IF o \in deleted' THEN 1 ELSE 0
        /\ {o \in Object : o <= born /\ o \notin deleted'} = {}
    BY <1>1, RetireKeepsPairs
  <1>4. new \notin deleted' /\ deleted' \subseteq 1 .. new
    BY <1>2, <1>3
  <1>5. TypeOK'
    <2>1. loads' \in [Object -> Nat]
      BY <1>1, <1>2 DEF IInv, TypeOK
    <2>2. loaded' \subseteq Object
      BY <1>1, <1>2 DEF IInv, TypeOK
    <2>3. deleted' \subseteq Object
      BY <1>1, <1>3, BoundAssumption DEF IInv, TypeOK, Object
    <2>4. pSaori' \in 0 .. born' /\ born' \in 0 .. MaxObjects /\ call_id' \in 0 .. CallIdLimit - 1
      BY <1>1, <1>2, BoundAssumption, CallIdAssumption
    <2>5. member' \in [script : Maker, header : Maker]
      BY <1>1, <1>2
    <2> QED
      BY <1>1, <1>3, <2>1, <2>2, <2>3, <2>4, <2>5 DEF IInv, TypeOK
  <1>6. LoadUnloadPaired'
    <2>1. \A o \in Object : loads'[o] = IF o <= born' THEN 1 ELSE 0
      BY <1>1, <1>2 DEF IInv, TypeOK, LoadUnloadPaired, Object
    <2>2. {o \in Object : o <= born' /\ o \notin deleted'} = {pSaori'} \ {0}
      BY <1>1, <1>2, <1>3, <1>4 DEF Object
    <2> QED
      BY <1>1, <1>3, <2>1, <2>2 DEF LoadUnloadPaired, NULL
  <1>7. ReadyMeansLoaded'
    BY <1>1, <1>4 DEF ReadyMeansLoaded
  <1>8. AnswerIsOwn' /\ (deleted \subseteq 1 .. born)'
    BY <1>1, <1>4 DEF IInv, AnswerIsOwn
  <1> QED
    BY <1>5, <1>6, <1>7, <1>8 DEF IInv

LEMMA NextIInv == IInv /\ [Next]_vars => IInv'
  <1> SUFFICES ASSUME IInv, [Next]_vars
               PROVE  IInv'
    OBVIOUS
  <1>1. CASE Attach
    BY <1>1 DEF Attach, objects, IInv, TypeOK, LoadUnloadPaired, ReadyMeansLoaded, AnswerIsOwn
  <1>2. CASE Detach \/ Unload
    <2>1. /\ Retire /\ pSaori' = 0 /\ ready' = FALSE /\ mapped' \in BOOLEAN
          /\ UNCHANGED <<born, loads, loaded, call_id, member, asked, answer>>
      BY <1>2 DEF Detach, Unload, unload, NULL, IInv, TypeOK
    <2>2. /\ unloads' \in [Object -> Nat] /\ deleted' \subseteq 1 .. born
          /\ \A o \in Object : unloads'[o] = IF o \in deleted' THEN 1 ELSE 0
          /\ {o \in Object : o <= born /\ o \notin deleted'} = {}
      BY <2>1, RetireKeepsPairs
    <2>3. TypeOK'
      <3>1. deleted' \subseteq Object
        BY <2>2, BoundAssumption DEF IInv, TypeOK, Object
      <3>2. pSaori' \in 0 .. born' /\ born' \in 0 .. MaxObjects
        BY <2>1, <2>2, BoundAssumption DEF IInv, TypeOK
      <3> QED
        BY <2>1, <2>2, <3>1, <3>2 DEF IInv, TypeOK
    <2>4. LoadUnloadPaired'
      BY <2>1, <2>2 DEF IInv, LoadUnloadPaired, NULL
    <2>5. ReadyMeansLoaded' /\ AnswerIsOwn' /\ (deleted \subseteq 1 .. born)'
      BY <2>1, <2>2 DEF IInv, ReadyMeansLoaded, AnswerIsOwn
    <2> QED
      BY <2>3, <2>4, <2>5 DEF IInv
  <1>3. CASE \E ok \in BOOLEAN : Load(ok)
    BY <1>3, LoadIInv
  <1>4. ASSUME NEW r \in Request, NEW b \in Behaviours(r), Ask(r, b) \/ AskThrows(r, b)
        PROVE  IInv'
    <2>1. b \in Behaviour
      BY BehavesAs
    <2> QED
      BY <1>4, <2>1, AskIInv
  <1>5. CASE UNCHANGED vars
    BY <1>5 DEF vars, IInv, TypeOK, LoadUnloadPaired, ReadyMeansLoaded, AnswerIsOwn
  <1> QED
    BY <1>1, <1>2, <1>3, <1>4, <1>5 DEF Next

LEMMA Invariant == Spec => []IInv
  BY InitIInv, NextIInv, PTL DEF Spec

(* The variables keep their types.                                          *)
THEOREM TypeCorrect == Spec => []TypeOK
  <1>1. IInv => TypeOK
    BY DEF IInv
  <1> QED
    BY Invariant, <1>1, PTL

(* Whatever the baseware calls in whatever order, every object is loaded    *)
(* once and unloaded once before it is deleted, and only pSaori is alive    *)
(* (csaori_base.cpp 527, 570-573, 614-639).                                 *)
THEOREM LoadsArePaired == Spec => []LoadUnloadPaired
  <1>1. IInv => LoadUnloadPaired
    BY DEF IInv
  <1> QED
    BY Invariant, <1>1, PTL

(* After a load that said TRUE request uses an object that loaded           *)
(* (csaori_base.cpp 547).                                                   *)
THEOREM RequestFindsObject == Spec => []ReadyMeansLoaded
  <1>1. IInv => ReadyMeansLoaded
    BY DEF IInv
  <1> QED
    BY Invariant, <1>1, PTL

(* No answer holds what an earlier request left in the object               *)
(* (cplugin.cpp 58-79, 123-147).                                            *)
THEOREM AnswersAreOwn == Spec => []AnswerIsOwn
  <1>1. IInv => AnswerIsOwn
    BY DEF IInv
  <1> QED
    BY Invariant, <1>1, PTL

(* Two requests in a row never have the same call id, and none has 0        *)
(* (csaori_base.cpp 300-303; iptools.cpp 133, 177).                         *)
THEOREM CallIdsAreFresh == Spec => CallIdsDiffer
  <1>1. ASSUME IInv, [Next]_vars, asked' # asked
        PROVE  call_id' # call_id /\ call_id' # 0
    <2>1. PICK r \in Request : \E b \in Behaviours(r) : Ask(r, b) \/ AskThrows(r, b)
      BY <1>1 DEF Next, vars, Attach, Detach, Unload, Load
    <2>3. PICK b \in Behaviours(r) : Ask(r, b) \/ AskThrows(r, b)
      BY <2>1
    <2>2. b \in Behaviour
      BY BehavesAs
    <2> QED
      BY <1>1, <2>2, <2>3, AskIInv
  <1>2. IInv /\ [Next]_vars => [asked' # asked => call_id' # call_id /\ call_id' # 0]_vars
    BY <1>1
  <1> QED
    BY Invariant, <1>2, PTL DEF Spec, CallIdsDiffer

-----------------------------------------------------------------------------
(* Refinement. *)

seen == IF answer.n = 0 THEN [to |-> "none", by |-> "none", code |-> 0]
        ELSE [to |-> answer.to, by |-> answer.by, code |-> answer.code]

(* The DLL implements SaoriContract: its steps are the contract's, an       *)
(* unload that happens on its own included (csaori_base.cpp 513-639).       *)
THEOREM Implementation == Spec => KeepsContract
  <1>1. Init => Contract!Init
    BY DEF Init, Contract!Init, Contract!NoAnswer, NoAnswer
  <1>2. IInv /\ [Next]_vars => [Contract!Next]_(Contract!vars)
    <2> SUFFICES ASSUME IInv, [Next]_vars
                 PROVE  [Contract!Next]_(Contract!vars)
      OBVIOUS
    <2>1. CASE Attach
      BY <2>1 DEF Attach, Contract!Next, Contract!Map
    <2>2. CASE Detach
      BY <2>2 DEF Detach, Contract!Next, Contract!Unmap
    <2>3. CASE Unload
      BY <2>3 DEF Unload, Contract!Next, Contract!Unload
    <2>4. ASSUME NEW ok \in BOOLEAN, Load(ok)
          PROVE  Contract!Next
      BY <2>4 DEF Load, Contract!Next, Contract!Load
    <2>5. ASSUME NEW r \in Request, NEW b \in Behaviours(r), Ask(r, b) \/ AskThrows(r, b)
          PROVE  Contract!Next
      <3>1. b \in Behaviour
        BY BehavesAs
      <3>2. answer'.n = asked + 1 /\ Allowed(r, answer')
        BY <2>5, <3>1, AskIInv
      <3>3. answer'.n # 0
        BY <3>2, BoundAssumption DEF IInv, TypeOK, Maker
      <3>4. seen' = [to |-> r, by |-> answer'.by, code |-> answer'.code]
        BY <3>2, <3>3 DEF seen, Allowed
      <3>5. ready /\ UNCHANGED <<mapped, ready>>
        BY <2>5 DEF Ask, AskThrows
      <3>6. /\ answer'.by \in Contract!Handlers(r)
            /\ seen' \in [to : {r}, by : {answer'.by}, code : Contract!Codes(r, answer'.by)]
        BY <3>2, <3>4 DEF Allowed
      <3>7. Contract!Ask(r)
        BY <3>5, <3>6 DEF Contract!Ask, seen
      <3> QED
        BY <3>7 DEF Contract!Next
    <2>6. CASE UNCHANGED vars
      BY <2>6 DEF vars, Contract!vars
    <2> QED
      BY <2>1, <2>2, <2>3, <2>4, <2>5, <2>6 DEF Next
  <1> QED
    BY Invariant, <1>1, <1>2, PTL DEF Spec, KeepsContract, Contract!Spec

=============================================================================
