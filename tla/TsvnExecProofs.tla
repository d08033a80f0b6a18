--------------------------- MODULE TsvnExecProofs ----------------------------
(***************************************************************************)
(* Types, the life of the object under the threads of TortoiseProc, and the *)
(* calls through CSThreadCall, for any number of loads, threads and         *)
(* questions.                                                               *)
(***************************************************************************)
EXTENDS TsvnExec, TLAPS

-----------------------------------------------------------------------------
(* ThreadCall stays in its types. *)

LEMMA PostType ==
  ASSUME ThreadCallTypeOK, NEW t \in Servers \cup {NULL}, NEW kind \in {"START", "CALL", "QUIT"},
         NEW n \in Nat, PostThreadMessage(t, kind, n)
  PROVE  queue' \in [Servers -> Seq(Message)]
  <1>1. [kind |-> kind, of |-> n] \in Message
    BY DEF Message
  <1>2. CASE Received(t)
    <2>1. t \in Servers /\ queue[t] \in Seq(Message)
      BY <1>2 DEF ThreadCallTypeOK, Received
    <2>2. Append(queue[t], [kind |-> kind, of |-> n]) \in Seq(Message)
      BY <1>1, <2>1
    <2> QED
      BY <1>2, <2>1, <2>2 DEF ThreadCallTypeOK, PostThreadMessage
  <1>3. CASE ~Received(t)
    BY <1>3 DEF ThreadCallTypeOK, PostThreadMessage
  <1> QED
    BY <1>2, <1>3

LEMMA SetEventType ==
  ASSUME ThreadCallTypeOK, SetEvent
  PROVE  m_hEvent' \in BOOLEAN /\ caller' \in [Callers -> CallerPc]
  BY DEF ThreadCallTypeOK, SetEvent, CallerPc

LEMMA SetType ==
  ASSUME ThreadCallTypeOK, NEW n \in Nat, Set(n)
  PROVE  ThreadCallTypeOK'
  <1>1. queue' \in [Servers -> Seq(Message)]
    <2>1. m_ThreadID \in Servers \cup {NULL}
      BY DEF ThreadCallTypeOK
    <2>2. CASE PostThreadMessage(m_ThreadID, "START", n)
      BY <2>1, <2>2, PostType
    <2>3. CASE queue' = queue
      BY <2>3 DEF ThreadCallTypeOK
    <2> QED
      BY <2>2, <2>3 DEF Set
  <1>2. m_call' \in Nat
    BY DEF ThreadCallTypeOK, Set
  <1> QED
    BY <1>1, <1>2 DEF ThreadCallTypeOK, Set

LEMMA CallType ==
  ASSUME ThreadCallTypeOK, NEW c \in Callers, NEW n \in Nat, Call(c, n)
  PROVE  ThreadCallTypeOK'
  BY DEF ThreadCallTypeOK, Call, Moved, CallerPc

LEMMA ExitType ==
  ASSUME ThreadCallTypeOK, NEW c \in Callers, Exit(c)
  PROVE  ThreadCallTypeOK'
  <1>1. CASE m_hThread = NULL
    BY <1>1 DEF ThreadCallTypeOK, Exit
  <1>2. CASE m_hThread # NULL
    <2>1. queue' \in [Servers -> Seq(Message)]
      <3>1. m_ThreadID \in Servers \cup {NULL} /\ PostThreadMessage(m_ThreadID, "QUIT", 0)
        BY <1>2 DEF ThreadCallTypeOK, Exit
      <3> QED
        BY <3>1, PostType
    <2>2. caller' \in [Callers -> CallerPc]
      BY <1>2 DEF ThreadCallTypeOK, Exit, Moved, CallerPc
    <2> QED
      BY <2>1, <2>2 DEF ThreadCallTypeOK, Exit
  <1> QED
    BY <1>1, <1>2

LEMMA CallerType ==
  ASSUME ThreadCallTypeOK, NEW c \in Callers, CallerStep(c)
  PROVE  ThreadCallTypeOK'
  <1>1. ASSUME NEW to \in CallerPc, Moved(c, to)
        PROVE  caller' \in [Callers -> CallerPc]
    BY <1>1 DEF ThreadCallTypeOK, Moved
  <1>2. CASE Start(c)
    BY <1>1, <1>2 DEF Start, ThreadCallTypeOK, CallerPc
  <1>3. CASE SpawnFails(c)
    BY <1>1, <1>3 DEF SpawnFails, ThreadCallTypeOK, CallerPc
  <1>4. CASE Await(c)
    BY <1>1, <1>4 DEF Await, ThreadCallTypeOK, CallerPc
  <1>5. CASE Started(c)
    BY <1>1, <1>5 DEF Started, ThreadCallTypeOK, CallerPc
  <1>6. CASE Post(c)
    <2>1. m_ThreadID \in Servers \cup {NULL} /\ call[c] \in Nat
      BY DEF ThreadCallTypeOK
    <2>2. queue' \in [Servers -> Seq(Message)]
      BY <1>6, <2>1, PostType DEF Post
    <2>3. caller' \in [Callers -> CallerPc]
      BY <1>1, <1>6 DEF Post, CallerPc
    <2> QED
      BY <1>6, <2>2, <2>3 DEF Post, ThreadCallTypeOK
  <1>7. CASE Wait(c)
    BY <1>1, <1>7 DEF Wait, ThreadCallTypeOK, CallerPc
  <1>8. CASE Return(c)
    BY <1>1, <1>8 DEF Return, ThreadCallTypeOK, CallerPc
  <1>9. CASE Join(c)
    BY <1>1, <1>9 DEF Join, ThreadCallTypeOK, CallerPc
  <1>10. CASE \E t \in Servers : Spawn(c, t)
    <2>1. PICK t \in Servers : Spawn(c, t)
      BY <1>10
    <2>2. caller' \in [Callers -> CallerPc]
      BY <1>1, <2>1 DEF Spawn, CallerPc
    <2>3. server' \in [Servers -> ServerPc]
      BY <2>1 DEF Spawn, ThreadCallTypeOK, ServerPc
    <2> QED
      BY <2>1, <2>2, <2>3 DEF Spawn, ThreadCallTypeOK
  <1> QED
    BY <1>2, <1>3, <1>4, <1>5, <1>6, <1>7, <1>8, <1>9, <1>10 DEF CallerStep

LEMMA ServerType ==
  ASSUME ThreadCallTypeOK, NEW t \in Servers, NEW locked \in BOOLEAN, ServerStep(t, locked)
  PROVE  ThreadCallTypeOK'
  <1>1. ASSUME NEW from, NEW to \in ServerPc, Gone(t, from, to)
        PROVE  server' \in [Servers -> ServerPc]
    BY <1>1 DEF ThreadCallTypeOK, Gone
  <1>2. CASE Begin(t)
    BY <1>1, <1>2 DEF Begin, ThreadCallTypeOK, ServerPc
  <1>3. CASE Ready(t)
    BY <1>1, <1>3, SetEventType DEF Ready, ThreadCallTypeOK, ServerPc
  <1>4. CASE Get(t)
    <2> DEFINE m == Head(queue[t])
    <2>1. queue[t] \in Seq(Message) /\ queue[t] # <<>>
      BY <1>4 DEF Get, ThreadCallTypeOK
    <2>2. m \in Message /\ Tail(queue[t]) \in Seq(Message)
      BY <2>1
    <2>3. m.of \in Nat /\ m.kind \in {"START", "CALL", "QUIT"}
      BY <2>2 DEF Message
    <2>4. queue' \in [Servers -> Seq(Message)]
      BY <1>4, <2>2 DEF Get, ThreadCallTypeOK
    <2>5. server' \in [Servers -> ServerPc]
      BY <1>4, <2>3 DEF Get, ThreadCallTypeOK, ServerPc
    <2>6. m_call' \in Nat /\ serving' \in [Servers -> Nat]
      BY <1>4, <2>3 DEF Get, ThreadCallTypeOK
    <2> QED
      BY <1>4, <2>4, <2>5, <2>6 DEF Get, ThreadCallTypeOK
  <1>5. CASE CSTC_Call(t)
    <2>1. server' \in [Servers -> ServerPc]
      BY <1>1, <1>5 DEF CSTC_Call, ServerPc
    <2>2. done' \subseteq Nat
      BY <1>5 DEF CSTC_Call, ThreadCallTypeOK
    <2> QED
      BY <1>5, <2>1, <2>2 DEF CSTC_Call, ThreadCallTypeOK
  <1>6. CASE Signal(t)
    BY <1>1, <1>6, SetEventType DEF Signal, ThreadCallTypeOK, ServerPc
  <1>7. CASE Bye(t)
    BY <1>1, <1>7 DEF Bye, ThreadCallTypeOK, ServerPc, NULL
  <1>8. CASE End(t, locked)
    BY <1>1, <1>8 DEF End, ThreadCallTypeOK, ServerPc
  <1> QED
    BY <1>2, <1>3, <1>4, <1>5, <1>6, <1>7, <1>8 DEF ServerStep

-----------------------------------------------------------------------------
(* The invariant: a thread that has not yet set m_hThread to NULL is the    *)
(* one notify has started, the one in m_hThread, or the one unload waits    *)
(* for.                                                                     *)

Types == TypeOK /\ \A c \in Callers : call[c] <= asked

Known(p) == \/ at[Host] = "assign" /\ starting = p
            \/ at[Host] \in {"idle", "info", "read", "test"} /\ m_hProc = p
            \/ at[Host] = "join" /\ m_hProc = p /\ starting = p

ProcsKnown ==
  /\ at[Host] # "none" => object # NULL
  /\ \A p \in Procs : at[p] \in Running => of[p] = object /\ Known(p)

IInv == Types /\ ProcsKnown

-----------------------------------------------------------------------------
(* Types. *)

LEMMA GoesType ==
  ASSUME TypeOK, NEW c \in Callers, NEW from, NEW to, Goes(c, from, to),
         c = Host => to \in HostAt, c \in Procs => to \in ProcAt
  PROVE  /\ at' \in [Callers -> HostAt \cup ProcAt]
         /\ at'[Host] \in HostAt /\ \A p \in Procs : at'[p] \in ProcAt
  BY TsvnAssumption DEF TypeOK, Goes

LEMMA InitTypes == Init => Types
  <1> SUFFICES ASSUME Init
               PROVE  Types
    OBVIOUS
  <1>1. ThreadCallTypeOK
    <2>1. m_hEvent \in BOOLEAN /\ failed \in BOOLEAN
      BY DEF Init, ThreadCallInit
    <2>2. /\ m_hThread = 0 /\ m_ThreadID = 0 /\ m_call = 0 /\ done = {}
          /\ queue = [t \in Servers |-> <<>>] /\ serving = [t \in Servers |-> 0]
          /\ call = [c \in Callers |-> 0]
      BY DEF Init, ThreadCallInit, NULL
    <2>3. server \in [Servers -> ServerPc] /\ caller \in [Callers -> CallerPc]
      BY DEF Init, ThreadCallInit, ServerPc, CallerPc
    <2> QED
      BY <2>1, <2>2, <2>3 DEF ThreadCallTypeOK, NULL
  <1>2. /\ at \in [Callers -> HostAt \cup ProcAt] /\ of \in [Procs -> Nat]
        /\ at[Host] \in HostAt /\ \A p \in Procs : at[p] \in ProcAt
    BY TsvnAssumption DEF Init, HostAt, ProcAt, NULL
  <1>3. /\ object \in Nat /\ loads \in 0 .. MaxLoads /\ m_hProc \in Callers
        /\ starting \in Callers /\ m_pRev \in 0 .. asked /\ asked \in 0 .. MaxCalls
        /\ freed \subseteq 1 .. asked
    BY TsvnAssumption DEF Init, NULL, NoProc
  <1>4. exitEvent \in BOOLEAN /\ detaching \in BOOLEAN /\ crossed \in BOOLEAN
    BY DEF Init
  <1>5. \A c \in Callers : call[c] <= asked
    <2>1. call = [c \in Callers |-> 0] /\ asked = 0
      BY DEF Init, ThreadCallInit
    <2>2. ASSUME NEW c \in Callers
          PROVE  call[c] <= asked
      <3>1. call[c] = 0 /\ asked = 0 /\ 0 <= 0
        BY <2>1
      <3> QED
        BY <3>1, Zenon
    <2> QED
      BY <2>2
  <1> QED
    BY <1>1, <1>2, <1>3, <1>4, <1>5 DEF Types, TypeOK

(* A step of the SAORI that leaves questions and answers alone.             *)
LEMMA PlainType ==
  ASSUME Types, ThreadCallTypeOK', UNCHANGED <<call, m_pRev, asked, freed>>,
         NEW c \in Callers, NEW from, NEW to, Goes(c, from, to),
         c = Host => to \in HostAt, c \in Procs => to \in ProcAt,
         object' \in Nat, loads' \in 0 .. MaxLoads, m_hProc' \in Callers, starting' \in Callers,
         of' \in [Procs -> Nat],
         exitEvent' \in BOOLEAN, detaching' \in BOOLEAN, crossed' = crossed
  PROVE  Types'
  <1>1. /\ at' \in [Callers -> HostAt \cup ProcAt]
        /\ at'[Host] \in HostAt /\ \A p \in Procs : at'[p] \in ProcAt
    BY GoesType DEF Types
  <1>2. /\ m_pRev' \in 0 .. asked' /\ asked' \in 0 .. MaxCalls /\ freed' \subseteq 1 .. asked'
        /\ \A d \in Callers : call'[d] <= asked'
    BY DEF Types, TypeOK
  <1>3. crossed' \in BOOLEAN
    BY DEF Types, TypeOK
  <1> QED
    BY <1>1, <1>2, <1>3 DEF Types, TypeOK

LEMMA SubWCRevType ==
  ASSUME Types, NEW c \in Callers, NEW from, NEW to, Goes(c, from, to), SubWCRev(c),
         c = Host => to \in HostAt, c \in Procs => to \in ProcAt
  PROVE  Types'
  <1>1. /\ at' \in [Callers -> HostAt \cup ProcAt]
        /\ at'[Host] \in HostAt /\ \A p \in Procs : at'[p] \in ProcAt
    BY GoesType DEF Types
  <1>2. asked \in 0 .. MaxCalls /\ asked' = asked + 1 /\ asked' \in 0 .. MaxCalls
    BY TsvnAssumption DEF Types, TypeOK, SubWCRev
  <1>3. ThreadCallTypeOK'
    BY <1>2, CallType DEF Types, TypeOK, SubWCRev
  <1>4. \A d \in Callers : call'[d] <= asked'
    <2>1. call \in [Callers -> Nat] /\ call' = [call EXCEPT ![c] = asked + 1]
      BY DEF Types, TypeOK, ThreadCallTypeOK, SubWCRev, Call
    <2> QED
      BY <1>2, <2>1 DEF Types
  <1>5. m_pRev' \in 0 .. asked' /\ freed' \subseteq 1 .. asked'
    BY <1>2 DEF Types, TypeOK, SubWCRev
  <1>6. crossed' \in BOOLEAN
    BY DEF Types, TypeOK, SubWCRev
  <1>7. /\ object' \in Nat /\ loads' \in 0 .. MaxLoads /\ m_hProc' \in Callers
        /\ starting' \in Callers /\ of' \in [Procs -> Nat]
    BY DEF Types, TypeOK, SubWCRev
  <1>8. exitEvent' \in BOOLEAN /\ detaching' \in BOOLEAN
    BY DEF Types, TypeOK, SubWCRev
  <1> QED
    BY <1>1, <1>2, <1>3, <1>4, <1>5, <1>6, <1>7, <1>8 DEF Types, TypeOK

LEMMA DeletedType ==
  ASSUME Types
  PROVE  Deleted(m_pRev) \subseteq 1 .. asked
  BY DEF Types, TypeOK, Deleted, NULL

LEMMA KeepType ==
  ASSUME Types, NEW c \in Callers, Keep(c)
  PROVE  Types'
  <1>1. /\ at' \in [Callers -> HostAt \cup ProcAt]
        /\ at'[Host] \in HostAt /\ \A p \in Procs : at'[p] \in ProcAt
    <2>1. \/ at[c] = "info" /\ at' = [at EXCEPT ![c] = "read"]
          \/ at[c] = "before" /\ at' = [at EXCEPT ![c] = "readbefore"]
          \/ at[c] = "after" /\ at' = [at EXCEPT ![c] = "readafter"]
      BY DEF Keep, Goes
    <2>2. at[c] = "info" => c = Host
      BY TsvnAssumption DEF Types, TypeOK, ProcAt, Running
    <2>3. at[c] \in {"before", "after"} => c # Host
      BY DEF Types, TypeOK, HostAt, Unloading
    <2> QED
      BY <2>1, <2>2, <2>3, TsvnAssumption
         DEF Types, TypeOK, HostAt, ProcAt, Running
  <1>2. m_pRev' \in 0 .. asked' /\ freed' \subseteq 1 .. asked' /\ asked' \in 0 .. MaxCalls
    BY DeletedType DEF Types, TypeOK, ThreadCallTypeOK, Keep
  <1>3. ThreadCallTypeOK' /\ call' = call
    BY DEF Types, TypeOK, Keep, threadcall, ThreadCallTypeOK
  <1>4. /\ object' \in Nat /\ loads' \in 0 .. MaxLoads /\ m_hProc' \in Callers
        /\ starting' \in Callers /\ of' \in [Procs -> Nat]
    BY DEF Types, TypeOK, Keep
  <1>5. exitEvent' \in BOOLEAN /\ detaching' \in BOOLEAN /\ crossed' \in BOOLEAN
    BY DEF Types, TypeOK, Keep
  <1>6. \A d \in Callers : call'[d] <= asked'
    BY <1>3 DEF Types, Keep
  <1> QED
    BY <1>1, <1>2, <1>3, <1>4, <1>5, <1>6 DEF Types, TypeOK

LEMMA HostType == ASSUME Types, Host_ PROVE Types'
  <1>1. ThreadCallTypeOK /\ call \in [Callers -> Nat] /\ Host \in Callers
    BY TsvnAssumption DEF Types, TypeOK, ThreadCallTypeOK
  <1>2. ASSUME UNCHANGED threadcall
        PROVE  ThreadCallTypeOK' /\ call' = call
    BY <1>1, <1>2 DEF ThreadCallTypeOK, threadcall
  <1>3. /\ object \in Nat /\ loads \in 0 .. MaxLoads /\ m_hProc \in Callers
        /\ starting \in Callers /\ of \in [Procs -> Nat] /\ Host \notin Procs
    BY TsvnAssumption DEF Types, TypeOK
  <1>4. exitEvent \in BOOLEAN /\ detaching \in BOOLEAN
    BY DEF Types, TypeOK
  <1>5. CASE load
    <2>1. loads' \in 0 .. MaxLoads /\ object' \in Nat /\ loads' \in Nat
      BY <1>3, <1>5, TsvnAssumption DEF load
    <2>2. ThreadCallTypeOK' /\ call' = call
      BY <1>1, <1>5, <2>1, SetType DEF load, Set
    <2>3. Goes(Host, "none", "idle") /\ m_hProc' \in Callers
      BY <1>1, <1>5 DEF load, NoProc
    <2>4. exitEvent' \in BOOLEAN
      BY <1>5 DEF load
    <2>5. UNCHANGED <<of, starting, m_pRev, asked, freed, detaching, crossed>>
      BY <1>5 DEF load
    <2> QED
      BY <1>1, <1>3, <1>4, <2>1, <2>2, <2>3, <2>4, <2>5, PlainType DEF HostAt
  <1>6. CASE Info
    BY <1>1, <1>3, <1>6, SubWCRevType DEF Info, HostAt
  <1>7. CASE ReadInfo
    BY <1>1, <1>2, <1>3, <1>4, <1>7, PlainType DEF ReadInfo, HostAt
  <1>8. CASE Assign
    <2>1. m_hProc' \in Callers /\ starting' \in Callers
      BY <1>1, <1>3, <1>8 DEF Assign, NoProc
    <2> QED
      BY <1>1, <1>2, <1>3, <1>4, <1>8, <2>1, PlainType DEF Assign, HostAt
  <1>9. CASE Unload
    <2>1. PICK to \in {"exit", "test"} : Goes(Host, "idle", to)
      BY <1>9 DEF Unload
    <2>2. exitEvent' \in BOOLEAN /\ detaching' \in BOOLEAN
      BY <1>9 DEF Unload
    <2> QED
      BY <1>1, <1>2, <1>3, <1>9, <2>1, <2>2, PlainType DEF Unload, HostAt, Unloading
  <1>14. CASE WaitFor
    <2>1. PICK to \in {"exit", "join"} : Goes(Host, "test", to)
      BY <1>14 DEF WaitFor
    <2> QED
      BY <1>1, <1>2, <1>3, <1>4, <1>14, <2>1, PlainType DEF WaitFor, HostAt, Unloading
  <1>10. CASE Joined
    <2>1. starting' \in Callers
      BY <1>1, <1>10 DEF Joined, NoProc
    <2> QED
      BY <1>1, <1>2, <1>3, <1>4, <1>10, <2>1, PlainType DEF Joined, HostAt, Unloading
  <1>11. CASE ExitCall
    <2>1. ThreadCallTypeOK' /\ call' = call
      BY <1>1, <1>11, ExitType DEF ExitCall, Exit
    <2> QED
      BY <1>1, <1>3, <1>4, <1>11, <2>1, PlainType DEF ExitCall, HostAt, Unloading
  <1>12. CASE Delete
    <2>1. /\ at' \in [Callers -> HostAt \cup ProcAt]
          /\ at'[Host] \in HostAt /\ \A p \in Procs : at'[p] \in ProcAt
      BY <1>1, <1>3, <1>12, GoesType DEF Delete, HostAt, Types
    <2>2. /\ m_pRev' \in 0 .. asked' /\ freed' \subseteq 1 .. asked' /\ asked' \in 0 .. MaxCalls
          /\ object' \in Nat
      BY <1>12, DeletedType DEF Delete, Types, TypeOK, NULL
    <2>3. ThreadCallTypeOK' /\ \A c \in Callers : call'[c] <= asked'
      BY <1>2, <1>12 DEF Delete, Types
    <2>4. exitEvent' \in BOOLEAN /\ detaching' \in BOOLEAN /\ crossed' \in BOOLEAN
      BY <1>4, <1>12 DEF Delete, Types, TypeOK
    <2>5. /\ of' \in [Procs -> Nat] /\ loads' \in 0 .. MaxLoads /\ m_hProc' \in Callers
          /\ starting' \in Callers
      BY <1>1, <1>3, <1>12 DEF Delete, NoProc
    <2> QED
      BY <2>1, <2>2, <2>3, <2>4, <2>5 DEF Types, TypeOK
  <1>13. ASSUME NEW p \in Procs, Notify(p)
         PROVE  Types'
    <2>1. /\ at' \in [Callers -> HostAt \cup ProcAt]
          /\ at'[Host] \in HostAt /\ \A q \in Procs : at'[q] \in ProcAt
      BY <1>1, <1>13, TsvnAssumption
         DEF Notify, Types, TypeOK, HostAt, ProcAt, Running
    <2>2. of' \in [Procs -> Nat] /\ starting' \in Callers
      BY <1>3, <1>13, TsvnAssumption DEF Notify
    <2>3. UNCHANGED <<threadcall, object, loads, m_hProc, m_pRev, exitEvent, asked, freed,
                      detaching, crossed>>
      BY <1>13 DEF Notify
    <2>4. ThreadCallTypeOK' /\ \A c \in Callers : call'[c] <= asked'
      BY <1>2, <2>3 DEF Types
    <2> QED
      BY <2>1, <2>2, <2>3, <2>4 DEF Types, TypeOK
  <1> QED
    BY <1>5, <1>6, <1>7, <1>8, <1>9, <1>10, <1>11, <1>12, <1>13, <1>14 DEF Host_

LEMMA ProcType == ASSUME Types, NEW p \in Procs, Proc(p) \/ Dialog(p) \/ TortoiseEnds(p) PROVE Types'
  <1>1. p \in Callers /\ p # Host
    BY TsvnAssumption
  <1>2. ASSUME NEW from, NEW to \in ProcAt, Goes(p, from, to), m_hProc' \in Callers,
               UNCHANGED <<threadcall, object, loads, of, starting, m_pRev, exitEvent, asked,
                           freed, detaching, crossed>>
        PROVE  Types'
    <2>1. ThreadCallTypeOK' /\ call' = call
      BY <1>2 DEF Types, TypeOK, ThreadCallTypeOK, threadcall
    <2>2. /\ object' \in Nat /\ loads' \in 0 .. MaxLoads
          /\ starting' \in Callers /\ of' \in [Procs -> Nat]
      BY <1>2 DEF Types, TypeOK
    <2>3. exitEvent' \in BOOLEAN /\ detaching' \in BOOLEAN
      BY <1>2 DEF Types, TypeOK
    <2> QED
      BY <1>1, <1>2, <2>1, <2>2, <2>3, PlainType
  <1>3. ASSUME NEW from, NEW to \in ProcAt, Steps(p, from, to)
        PROVE  Types'
    <2>1. m_hProc' \in Callers
      BY <1>3 DEF Steps, Types, TypeOK
    <2> QED
      BY <1>2, <1>3, <2>1 DEF Steps
  <1>4. CASE Before(p)
    BY <1>1, <1>4, SubWCRevType DEF Before, ProcAt, Running
  <1>5. CASE After(p)
    BY <1>1, <1>5, SubWCRevType DEF After, ProcAt, Running
  <1>6. CASE Forget(p)
    <2>1. m_hProc' \in Callers
      BY <1>6, TsvnAssumption DEF Forget, NoProc
    <2> QED
      BY <1>2, <1>6, <2>1 DEF Forget, ProcAt, Running
  <1>7. CASE ReadBefore(p) \/ CreateProcess(p) \/ Dialog(p)
    BY <1>3, <1>7 DEF ReadBefore, CreateProcess, Dialog, ProcAt, Running
  <1>8. CASE TortoiseEnds(p) \/ ToldToExit(p) \/ ReadAfter(p)
    BY <1>3, <1>8 DEF TortoiseEnds, ToldToExit, ReadAfter, ProcAt, Running
  <1>9. CASE ForgetWindow(p) \/ Sent(p) \/ EndProc(p)
    BY <1>3, <1>9 DEF ForgetWindow, Sent, EndProc, ProcAt, Running
  <1> QED
    BY <1>4, <1>5, <1>6, <1>7, <1>8, <1>9 DEF Proc

LEMMA CallStepType ==
  ASSUME Types, (\E c \in Callers : Asks(c)) \/ (\E t \in Servers : Serves(t))
  PROVE  Types'
  <1>1. ThreadCallTypeOK' /\ call' = call /\ UNCHANGED tsvn
    <2>1. ASSUME NEW c \in Callers, Asks(c)
          PROVE  ThreadCallTypeOK' /\ call' = call /\ UNCHANGED tsvn
      <3>1. CallerStep(c) /\ UNCHANGED tsvn /\ ThreadCallTypeOK
        BY <2>1 DEF Asks, Types, TypeOK
      <3>2. call' = call
        BY <3>1 DEF CallerStep, Start, Spawn, SpawnFails, Await, Started, Post, Wait, Return, Join
      <3> QED
        BY <3>1, <3>2, CallerType
    <2>2. ASSUME NEW t \in Servers, Serves(t)
          PROVE  ThreadCallTypeOK' /\ call' = call /\ UNCHANGED tsvn
      <3>1. PICK l \in BOOLEAN : ServerStep(t, l)
        <4>1. Locked \in BOOLEAN
          BY DEF Locked, Types, TypeOK
        <4> QED
          BY <2>2, <4>1 DEF Serves
      <3>2. UNCHANGED tsvn /\ ThreadCallTypeOK
        BY <2>2 DEF Serves, Types, TypeOK
      <3>3. call' = call
        BY <3>1 DEF ServerStep, Begin, Ready, Get, CSTC_Call, Signal, Bye, End
      <3> QED
        BY <3>1, <3>2, <3>3, ServerType
    <2> QED
      BY <2>1, <2>2
  <1> QED
    BY <1>1 DEF Types, TypeOK, tsvn

LEMMA NextTypes == ASSUME Types, [Next]_vars PROVE Types'
  <1>1. CASE UNCHANGED vars
    <2>1. UNCHANGED threadcall /\ UNCHANGED tsvn
      BY <1>1 DEF vars
    <2> QED
      BY <2>1 DEF threadcall, tsvn, Types, TypeOK, ThreadCallTypeOK
  <1>2. ASSUME NEW p \in Procs, Proc(p) \/ Dialog(p) \/ TortoiseEnds(p)
        PROVE  Types'
    BY <1>2, ProcType
  <1>3. ASSUME NEW c \in Callers, Asks(c) \/ Keep(c)
        PROVE  Types'
    BY <1>3, KeepType, CallStepType
  <1>4. ASSUME NEW t \in Servers, Serves(t)
        PROVE  Types'
    BY <1>4, CallStepType
  <1> QED
    BY <1>1, <1>2, <1>3, <1>4, HostType DEF Next

(***************************************************************************)
(* Every variable stays in its type (all of ThreadCall and TsvnExec).       *)
(***************************************************************************)
THEOREM TypeCorrect == Spec => []TypeOK
  <1>1. Types => TypeOK
    BY DEF Types
  <1> QED
    BY <1>1, InitTypes, NextTypes, PTL DEF Spec

-----------------------------------------------------------------------------
(* The object under the threads.                                            *)

LEMMA InitKnown == Init => ProcsKnown
  BY TsvnAssumption DEF Init, ProcsKnown, Running

(* A step of p on its way through Running.                                  *)
LEMMA ProcGoesOn ==
  ASSUME Types, ProcsKnown, NEW p \in Procs, NEW from \in Running, NEW to, Goes(p, from, to),
         UNCHANGED <<object, m_hProc, of, starting>>
  PROVE  ProcsKnown'
  <1>1. at \in [Callers -> HostAt \cup ProcAt] /\ at' = [at EXCEPT ![p] = to] /\ at[p] \in Running
    BY DEF Types, TypeOK, Goes
  <1>2. at'[Host] = at[Host] /\ \A q \in Procs : at'[q] \in Running => at[q] \in Running
    BY <1>1, TsvnAssumption
  <1>3. \A q \in Procs : Known(q) => Known(q)'
    BY <1>2 DEF Known
  <1> QED
    BY <1>2, <1>3 DEF ProcsKnown

(* A step of the baseware while the object is at work.                      *)
LEMMA HostGoesOn ==
  ASSUME Types, ProcsKnown, NEW from \in {"idle", "info", "read"},
         NEW to \in {"idle", "info", "read", "test"}, Goes(Host, from, to),
         UNCHANGED <<object, m_hProc, of, starting>>
  PROVE  ProcsKnown'
  <1>1. at \in [Callers -> HostAt \cup ProcAt] /\ at' = [at EXCEPT ![Host] = to] /\ at[Host] = from
        /\ Host \in Callers /\ Host \notin Procs /\ Procs \subseteq Callers
    BY TsvnAssumption DEF Types, TypeOK, Goes
  <1>2. at'[Host] = to /\ \A q \in Procs : at'[q] = at[q]
    BY <1>1
  <1>3. \A q \in Procs : Known(q) => Known(q)'
    BY <1>1, <1>2 DEF Known
  <1> QED
    BY <1>1, <1>2, <1>3 DEF ProcsKnown

LEMMA HostKnown == ASSUME Types, ProcsKnown, Host_ PROVE ProcsKnown'
  <1>1. /\ at \in [Callers -> HostAt \cup ProcAt]
        /\ Host \in Callers /\ Host \notin Procs /\ Procs \subseteq Callers
    BY TsvnAssumption DEF Types, TypeOK
  <1>2. ASSUME NEW to, at' = [at EXCEPT ![Host] = to]
        PROVE  at'[Host] = to /\ \A q \in Procs : at'[q] = at[q]
    BY <1>1, <1>2
  <1>3. CASE load
    <2>1. at[Host] = "none" /\ at' = [at EXCEPT ![Host] = "idle"] /\ object' = loads + 1
      BY <1>3 DEF load, Goes
    <2>2. object' # NULL
      BY <2>1 DEF Types, TypeOK, NULL
    <2>3. \A q \in Procs : at[q] \notin Running
      BY <2>1 DEF ProcsKnown, Known
    <2> QED
      BY <1>2, <2>1, <2>2, <2>3 DEF ProcsKnown
  <1>4. CASE Info
    BY <1>4, HostGoesOn DEF Info, SubWCRev
  <1>5. CASE ReadInfo
    BY <1>5, HostGoesOn DEF ReadInfo
  <1>6. CASE Assign
    <2>1. /\ at[Host] = "assign" /\ at' = [at EXCEPT ![Host] = "idle"] /\ m_hProc' = starting
          /\ UNCHANGED <<object, of>>
      BY <1>6 DEF Assign, Goes
    <2>2. \A q \in Procs : Known(q) => Known(q)'
      BY <1>2, <2>1 DEF Known
    <2> QED
      BY <1>2, <2>1, <2>2 DEF ProcsKnown
  <1>7. CASE Unload
    <2>1. /\ at[Host] = "idle" /\ UNCHANGED <<object, of, m_hProc, starting>>
          /\ at' = [at EXCEPT ![Host] = IF m_hProc = NoProc THEN "exit" ELSE "test"]
      BY <1>7 DEF Unload, Goes
    <2>2. CASE m_hProc = NoProc
      <3>1. \A q \in Procs : at[q] \notin Running
        BY <1>1, <2>1, <2>2 DEF ProcsKnown, Known, NoProc
      <3> QED
        BY <1>2, <2>1, <3>1 DEF ProcsKnown
    <2>3. CASE m_hProc # NoProc
      <3>1. \A q \in Procs : Known(q) => Known(q)'
        BY <1>2, <2>1, <2>3 DEF Known
      <3> QED
        BY <1>2, <2>1, <3>1 DEF ProcsKnown
    <2> QED
      BY <2>2, <2>3
  <1>11. CASE WaitFor
    <2>1. /\ at[Host] = "test" /\ starting' = m_hProc /\ UNCHANGED <<object, of, m_hProc>>
          /\ at' = [at EXCEPT ![Host] = IF m_hProc = NoProc THEN "exit" ELSE "join"]
      BY <1>11 DEF WaitFor, Goes
    <2>2. CASE m_hProc = NoProc
      <3>1. \A q \in Procs : at[q] \notin Running
        BY <1>1, <2>1, <2>2 DEF ProcsKnown, Known, NoProc
      <3> QED
        BY <1>2, <2>1, <3>1 DEF ProcsKnown
    <2>3. CASE m_hProc # NoProc
      <3>1. \A q \in Procs : Known(q) => Known(q)'
        BY <1>2, <2>1, <2>3 DEF Known
      <3> QED
        BY <1>2, <2>1, <3>1 DEF ProcsKnown
    <2> QED
      BY <2>2, <2>3
  <1>8. CASE Joined
    <2>1. /\ at[Host] = "join" /\ at' = [at EXCEPT ![Host] = "exit"] /\ at[starting] = "ended"
          /\ UNCHANGED <<object, of>>
      BY <1>8 DEF Joined, Goes
    <2>2. \A q \in Procs : at[q] \notin Running
      BY <2>1 DEF ProcsKnown, Known, Running
    <2> QED
      BY <1>2, <2>1, <2>2 DEF ProcsKnown
  <1>9. CASE ExitCall \/ Delete
    <2>1. at[Host] \in {"exit", "exiting"}
      BY <1>9 DEF ExitCall, Delete, Goes
    <2>2. \A q \in Procs : at[q] \notin Running
      BY <2>1 DEF ProcsKnown, Known
    <2>3. CASE ExitCall
      <3>1. at' = [at EXCEPT ![Host] = "exiting"] /\ object' = object
        BY <2>3 DEF ExitCall, Goes
      <3> QED
        BY <1>2, <2>1, <2>2, <3>1 DEF ProcsKnown
    <2>4. CASE Delete
      <3>1. at' = [at EXCEPT ![Host] = "none"]
        BY <2>4 DEF Delete, Goes
      <3> QED
        BY <1>2, <2>2, <3>1 DEF ProcsKnown
    <2> QED
      BY <1>9, <2>3, <2>4
  <1>10. ASSUME NEW p \in Procs, Notify(p)
         PROVE  ProcsKnown'
    <2>1. /\ at[Host] = "idle" /\ m_hProc = NoProc
          /\ at' = [at EXCEPT ![Host] = "assign", ![p] = "begin"]
          /\ of' = [of EXCEPT ![p] = object] /\ starting' = p /\ object' = object
      BY <1>10 DEF Notify
    <2>2. \A q \in Procs : at[q] \notin Running
      BY <1>1, <2>1 DEF ProcsKnown, Known, NoProc
    <2>3. at'[Host] = "assign" /\ \A q \in Procs : q # p => at'[q] = at[q]
      BY <1>1, <2>1
    <2>4. of'[p] = object'
      BY <2>1 DEF Types, TypeOK
    <2>5. \A q \in Procs : at'[q] \in Running => q = p
      BY <2>2, <2>3
    <2>6. Known(p)'
      BY <2>1, <2>3 DEF Known
    <2>7. object' # NULL
      BY <2>1 DEF ProcsKnown
    <2> QED
      BY <2>4, <2>5, <2>6, <2>7 DEF ProcsKnown
  <1> QED
    BY <1>3, <1>4, <1>5, <1>6, <1>7, <1>8, <1>9, <1>10, <1>11 DEF Host_

LEMMA ProcKnown ==
  ASSUME Types, ProcsKnown, NEW p \in Procs, Proc(p) \/ Dialog(p) \/ TortoiseEnds(p)
  PROVE  ProcsKnown'
  <1>1. ASSUME NEW from \in Running, NEW to, Steps(p, from, to)
        PROVE  ProcsKnown'
    BY <1>1, ProcGoesOn DEF Steps
  <1>2. CASE Before(p) \/ After(p)
    BY <1>2, ProcGoesOn DEF Before, After, SubWCRev, Running
  <1>3. CASE ReadBefore(p) \/ CreateProcess(p) \/ Dialog(p)
    BY <1>1, <1>3 DEF ReadBefore, CreateProcess, Dialog, Running
  <1>4. CASE TortoiseEnds(p) \/ ToldToExit(p) \/ ReadAfter(p)
    BY <1>1, <1>4 DEF TortoiseEnds, ToldToExit, ReadAfter, Running
  <1>5. /\ at \in [Callers -> HostAt \cup ProcAt]
        /\ Host \in Callers /\ Host \notin Procs /\ Procs \subseteq Callers
    BY TsvnAssumption DEF Types, TypeOK
  \* m_hThread = NULL: p was the only one.
  <1>6. CASE Forget(p)
    <2>1. at[p] = "null" /\ at' = [at EXCEPT ![p] = "window"]
          /\ UNCHANGED <<object, of, starting>>
      BY <1>6 DEF Forget, Goes
    <2>2. at'[Host] = at[Host] /\ at'[p] = "window" /\ \A q \in Procs : q # p => at'[q] = at[q]
      BY <1>5, <2>1
    <2>3. \A q \in Procs : at[q] \in Running => q = p
      BY <2>1 DEF ProcsKnown, Known, Running
    <2>4. \A q \in Procs : at'[q] \notin Running
      BY <2>2, <2>3 DEF Running
    <2> QED
      BY <2>1, <2>2, <2>4 DEF ProcsKnown
  <1>7. CASE ForgetWindow(p) \/ Sent(p) \/ EndProc(p)
    <2>1. PICK to \in {"send", "end", "ended"} : at' = [at EXCEPT ![p] = to]
      BY <1>7 DEF ForgetWindow, Sent, EndProc, Steps, Goes
    <2>2. UNCHANGED <<object, m_hProc, of, starting>>
      BY <1>7 DEF ForgetWindow, Sent, EndProc, Steps
    <2>3. at'[Host] = at[Host] /\ at'[p] = to /\ \A q \in Procs : q # p => at'[q] = at[q]
      BY <1>5, <2>1
    <2>4. \A q \in Procs : at'[q] \in Running => at[q] \in Running
      BY <2>3 DEF Running
    <2>5. \A q \in Procs : Known(q) => Known(q)'
      BY <2>2, <2>3 DEF Known
    <2> QED
      BY <2>2, <2>3, <2>4, <2>5 DEF ProcsKnown
  <1> QED
    BY <1>2, <1>3, <1>4, <1>6, <1>7 DEF Proc

LEMMA KeepKnown == ASSUME Types, ProcsKnown, NEW c \in Callers, Keep(c) PROVE ProcsKnown'
  <1>1. UNCHANGED <<object, m_hProc, of, starting>>
    BY DEF Keep
  <1>2. CASE c = Host
    <2>1. at[Host] \notin {"before", "after"}
      BY DEF Types, TypeOK, HostAt, Unloading
    <2>2. Goes(Host, "info", "read")
      BY <1>2, <2>1 DEF Keep, Goes
    <2> QED
      BY <1>1, <2>2, HostGoesOn
  <1>3. CASE c \in Procs
    <2>1. at[c] # "info"
      BY <1>3 DEF Types, TypeOK, ProcAt, Running
    <2>2. PICK to \in {"readbefore", "readafter"} :
            Goes(c, "before", to) \/ Goes(c, "after", to)
      BY <2>1 DEF Keep, Goes
    <2> QED
      BY <1>1, <1>3, <2>2, ProcGoesOn DEF Running
  <1> QED
    BY <1>2, <1>3, TsvnAssumption

LEMMA NextIInv == ASSUME IInv, [Next]_vars PROVE IInv'
  <1>1. Types' /\ Types /\ ProcsKnown
    BY NextTypes DEF IInv
  <1>2. ASSUME UNCHANGED tsvn
        PROVE  ProcsKnown'
    BY <1>1, <1>2 DEF tsvn, ProcsKnown, Known
  <1>3. ASSUME UNCHANGED vars
        PROVE  ProcsKnown'
    BY <1>2, <1>3 DEF vars
  <1>4. ASSUME NEW p \in Procs, Proc(p) \/ Dialog(p) \/ TortoiseEnds(p)
        PROVE  ProcsKnown'
    BY <1>1, <1>4, ProcKnown
  <1>5. ASSUME NEW c \in Callers, Asks(c) \/ Keep(c)
        PROVE  ProcsKnown'
    BY <1>1, <1>2, <1>5, KeepKnown DEF Asks
  <1>6. ASSUME NEW t \in Servers, Serves(t)
        PROVE  ProcsKnown'
    BY <1>2, <1>6 DEF Serves
  <1>7. ProcsKnown'
    BY <1>1, <1>3, <1>4, <1>5, <1>6, HostKnown DEF Next
  <1> QED
    BY <1>1, <1>7 DEF IInv

(***************************************************************************)
(* unload waits for every thread that has not yet set m_hThread to NULL,    *)
(* also for one that was started and is not yet in m_hThread, or that sets  *)
(* it to NULL between unload's two looks (tsvnexec.cpp 162-167, 430-449,    *)
(* 585).  It says nothing of what the thread does after that.               *)
(***************************************************************************)
THEOREM ObjectOutlives == Spec => []ObjectOutlivesProc
  <1>1. Init => IInv
    BY InitTypes, InitKnown DEF IInv
  <1>2. IInv => ObjectOutlivesProc
    BY DEF IInv, ProcsKnown, Known, ObjectOutlivesProc
  <1> QED
    BY <1>1, <1>2, NextIInv, PTL DEF Spec

-----------------------------------------------------------------------------
(***************************************************************************)
(* The calls of tsvnexec through CSThreadCall, as long as no two threads    *)
(* ask at the same time.                                                    *)
(***************************************************************************)
(* The invariant: one caller at most is at work, and where it is says where *)
(* the thread is that it has started.                                       *)

\* Only the thread in m_hThread is alive, and a thread not started has no message.
Apart == /\ \A t \in Servers : t # m_hThread => server[t] \in {"none", "ended"}
         /\ \A t \in Servers : server[t] = "none" => queue[t] = <<>>

Cold == m_hThread = NULL /\ m_ThreadID = NULL /\ m_hEvent = FALSE
Begun == /\ m_hThread # NULL /\ m_ThreadID = NULL /\ m_hEvent = FALSE
         /\ server[m_hThread] = "begin" /\ queue[m_hThread] = <<>>
Thread(pc, messages, event) ==
  /\ m_hThread # NULL /\ m_ThreadID = m_hThread /\ m_hEvent = event
  /\ server[m_hThread] = pc /\ queue[m_hThread] = messages
Idle == Thread("get", <<>>, FALSE)
Only(kind, n) == <<[kind |-> kind, of |-> n]>>

\* The thread, for a caller c.  It may stay Cold at "await", if _beginthread has failed.
Line(c) ==
  \/ caller[c] = "start" /\ (Cold \/ Idle)
  \/ caller[c] = "spawn" /\ Cold
  \/ caller[c] \in {"toawait", "await"} /\ (Cold \/ Begun \/ Thread("ready", <<>>, FALSE))
  \/ caller[c] \in {"toawait", "started"} /\ Thread("get", <<>>, TRUE)
  \/ caller[c] = "post" /\ Idle
  \/ caller[c] \in {"towait", "wait"} /\ Thread("get", Only("CALL", call[c]), FALSE)
  \/ caller[c] \in {"towait", "wait"} /\ Thread("call", <<>>, FALSE) /\ serving[m_hThread] = call[c]
  \/ caller[c] \in {"towait", "wait"} /\ Thread("signal", <<>>, FALSE) /\ call[c] \in done
  \/ caller[c] \in {"towait", "answered"} /\ Thread("get", <<>>, TRUE) /\ call[c] \in done
  \/ caller[c] = "out" /\ Idle /\ call[c] \in done

\* The thread, for the caller c of Exit.
Leaving(c) ==
  \/ caller[c] = "join" /\ Thread("get", Only("QUIT", 0), FALSE)
  \/ caller[c] = "join" /\ \E to \in {"bye", "end", "ended"} : Thread(to, <<>>, FALSE)
  \/ caller[c] = "out" /\ Cold

Alone(c) == \A d \in Callers \ {c} : caller[d] = "out"

OneBusy == \A c, d \in Callers : Busy(c) /\ Busy(d) => c = d
OutElse == \A c \in Callers :
             caller[c] # "out" => at[c] \in Asking \/ (c = Host /\ at[c] = "exiting")
Asked == \A c \in Callers : at[c] \in Asking => /\ Line(c) /\ call[c] = asked
                                                /\ m_pRev # asked /\ asked \notin freed
Answered == \A c \in Callers : at[c] \in Reading => call[c] = asked /\ asked \notin freed
Quiet == (\A c \in Callers : at[c] \notin Asking) /\ at[Host] # "exiting" => Cold \/ Idle
Exiting == at[Host] = "exiting" => Leaving(Host)
Unloaded == at[Host] = "none" => Cold
Called == at[Host] \notin {"none", "exiting"} => m_call = object

Single == /\ OneBusy /\ OutElse /\ Apart /\ Asked /\ Answered
          /\ Quiet /\ Exiting /\ Unloaded /\ Called
CallInv == IInv /\ (crossed \/ Single)

-----------------------------------------------------------------------------
(* Steps of CSThreadCall.                                                   *)

LEMMA OneMessage ==
  ASSUME NEW kind, NEW n
  PROVE  /\ Append(<<>>, [kind |-> kind, of |-> n]) = Only(kind, n)
         /\ Only(kind, n) # <<>> /\ Tail(Only(kind, n)) = <<>>
         /\ Head(Only(kind, n)).kind = kind /\ Head(Only(kind, n)).of = n
  BY DEF Only

LEMMA CallerAsks ==
  ASSUME ThreadCallTypeOK, Apart, NEW c \in Callers, Line(c), CallerStep(c)
  PROVE  Apart' /\ Line(c)' /\ UNCHANGED <<m_call, call>>
         /\ \A d \in Callers \ {c} : caller'[d] = caller[d]
  <1>1. /\ caller \in [Callers -> CallerPc] /\ m_hThread \in Servers \cup {NULL}
        /\ m_hEvent \in BOOLEAN /\ call \in [Callers -> Nat]
        /\ server \in [Servers -> ServerPc] /\ queue \in [Servers -> Seq(Message)]
        /\ NULL \notin Servers
    BY ServerAssumption DEF ThreadCallTypeOK, NULL
  <1>2. ASSUME NEW to, Moved(c, to)
        PROVE  caller'[c] = to /\ \A d \in Callers \ {c} : caller'[d] = caller[d]
    BY <1>1, <1>2 DEF Moved
  <1>3. CASE Start(c)
    <2>1. caller[c] = "start" /\ (Cold \/ Idle)
      BY <1>3 DEF Line, Start
    <2>2. caller'[c] = IF m_hThread = NULL THEN "spawn" ELSE "post"
      BY <1>2, <1>3 DEF Start
    <2>3. UNCHANGED <<m_hThread, m_ThreadID, m_hEvent, m_call, server, queue, serving, call, done>>
      BY <1>3 DEF Start
    <2>4. Line(c)'
      BY <2>1, <2>2, <2>3 DEF Line, Cold, Idle, Thread
    <2> QED
      BY <1>2, <1>3, <2>3, <2>4 DEF Start, Apart
  <1>4. CASE SpawnFails(c)
    <2>1. caller[c] = "spawn" /\ Cold /\ caller'[c] = "toawait"
      BY <1>2, <1>4 DEF Line, SpawnFails
    <2>2. UNCHANGED <<m_hThread, m_ThreadID, m_hEvent, m_call, server, queue, serving, call, done>>
      BY <1>4 DEF SpawnFails
    <2>3. Line(c)'
      BY <2>1, <2>2 DEF Line, Cold
    <2> QED
      BY <1>2, <1>4, <2>2, <2>3 DEF SpawnFails, Apart
  <1>5. CASE Await(c)
    <2>1. \/ Cold \/ Begun \/ Thread("ready", <<>>, FALSE)
          \/ Thread("get", <<>>, TRUE)
      BY <1>5 DEF Line, Await
    <2>2. caller'[c] = IF m_hEvent THEN "started" ELSE "await"
      BY <1>2, <1>5 DEF Await
    <2>3. UNCHANGED <<m_hThread, m_ThreadID, m_hEvent, m_call, server, queue, serving, call, done>>
      BY <1>5 DEF Await
    <2>4. Line(c)'
      BY <2>1, <2>2, <2>3 DEF Line, Cold, Begun, Thread
    <2> QED
      BY <1>2, <1>5, <2>3, <2>4 DEF Await, Apart
  <1>6. CASE Started(c)
    <2>1. Thread("get", <<>>, TRUE) /\ caller'[c] = "post" /\ m_hEvent' = FALSE
      BY <1>2, <1>6 DEF Line, Started
    <2>2. UNCHANGED <<m_hThread, m_ThreadID, m_call, server, queue, serving, call, done>>
      BY <1>6 DEF Started
    <2>3. Line(c)'
      BY <2>1, <2>2 DEF Line, Idle, Thread
    <2> QED
      BY <1>2, <1>6, <2>2, <2>3 DEF Started, Apart
  <1>7. CASE Post(c)
    <2>1. Idle /\ caller[c] = "post"
      BY <1>7 DEF Line, Post
    <2>2. m_hThread \in Servers /\ m_ThreadID = m_hThread /\ Received(m_ThreadID)
      BY <1>1, <2>1 DEF Idle, Thread, Received, Listening
    <2>3. caller'[c] = "towait"
      BY <1>2, <1>7, <2>2 DEF Post
    <2>4. queue' = [queue EXCEPT ![m_hThread] = Append(@, [kind |-> "CALL", of |-> call[c]])]
      BY <1>7, <2>2 DEF Post, PostThreadMessage
    <2>5. queue'[m_hThread] = Only("CALL", call[c])
      BY <1>1, <2>1, <2>2, <2>4, OneMessage DEF Idle, Thread
    <2>6. UNCHANGED <<m_hThread, m_ThreadID, m_hEvent, m_call, server, serving, call, done>>
      BY <1>7 DEF Post
    <2>7. Thread("get", Only("CALL", call[c]), FALSE)'
      BY <2>1, <2>5, <2>6 DEF Idle, Thread, Only
    <2>8. \A t \in Servers : server[t] = "none" => t # m_hThread
      BY <2>1 DEF Idle, Thread
    <2>9. Apart'
      BY <1>1, <2>4, <2>6, <2>8 DEF Apart
    <2> QED
      BY <1>2, <1>7, <2>3, <2>6, <2>7, <2>9 DEF Post, Line
  <1>8. CASE Wait(c)
    <2>1. \/ Thread("get", Only("CALL", call[c]), FALSE)
          \/ Thread("call", <<>>, FALSE) /\ serving[m_hThread] = call[c]
          \/ Thread("signal", <<>>, FALSE) /\ call[c] \in done
          \/ Thread("get", <<>>, TRUE) /\ call[c] \in done
      BY <1>8 DEF Line, Wait
    <2>2. caller'[c] = IF m_hEvent THEN "answered" ELSE "wait"
      BY <1>2, <1>8 DEF Wait
    <2>3. UNCHANGED <<m_hThread, m_ThreadID, m_hEvent, m_call, server, queue, serving, call, done>>
      BY <1>8 DEF Wait
    <2>4. Line(c)'
      BY <2>1, <2>2, <2>3 DEF Line, Thread, Only
    <2> QED
      BY <1>2, <1>8, <2>3, <2>4 DEF Wait, Apart
  <1>9. CASE Return(c)
    <2>1. Thread("get", <<>>, TRUE) /\ call[c] \in done /\ caller'[c] = "out" /\ m_hEvent' = FALSE
      BY <1>2, <1>9 DEF Line, Return
    <2>2. UNCHANGED <<m_hThread, m_ThreadID, m_call, server, queue, serving, call, done>>
      BY <1>9 DEF Return
    <2>3. Line(c)'
      BY <2>1, <2>2 DEF Line, Idle, Thread
    <2> QED
      BY <1>2, <1>9, <2>2, <2>3 DEF Return, Apart
  <1>10. ~Join(c)
    BY DEF Line, Join
  <1>11. ASSUME NEW t \in Servers, Spawn(c, t)
         PROVE  Apart' /\ Line(c)' /\ UNCHANGED <<m_call, call>>
                /\ \A d \in Callers \ {c} : caller'[d] = caller[d]
    <2>1. Cold /\ caller'[c] = "toawait" /\ server[t] = "none"
      BY <1>2, <1>11 DEF Line, Spawn
    <2>2. m_hThread' = t /\ server' = [server EXCEPT ![t] = "begin"]
      BY <1>11 DEF Spawn
    <2>3. UNCHANGED <<m_ThreadID, m_hEvent, m_call, queue, serving, call, done>>
      BY <1>11 DEF Spawn
    <2>4. queue[t] = <<>> /\ \A s \in Servers : server[s] \in {"none", "ended"}
      BY <1>1, <2>1 DEF Apart, Cold
    <2>5. Begun'
      BY <1>1, <2>1, <2>2, <2>3, <2>4 DEF Begun, Cold, NULL
    <2>6. Apart'
      BY <1>1, <2>2, <2>3, <2>4 DEF Apart
    <2> QED
      BY <1>2, <1>11, <2>1, <2>3, <2>5, <2>6 DEF Spawn, Line
  <1> QED
    BY <1>3, <1>4, <1>5, <1>6, <1>7, <1>8, <1>9, <1>10, <1>11 DEF CallerStep

\* Who waits at the event is let go, and nobody else.
LEMMA EventTells ==
  ASSUME ThreadCallTypeOK, NEW c \in Callers, Alone(c), SetEvent
  PROVE  /\ m_hEvent' = TRUE /\ Alone(c)'
         /\ caller'[c] = CASE caller[c] = "await" -> "started"
                           [] caller[c] = "wait" -> "answered"
                           [] OTHER -> caller[c]
  BY DEF SetEvent, Alone

LEMMA ServerAnswers ==
  ASSUME ThreadCallTypeOK, Apart, NEW c \in Callers, Alone(c), Line(c), NEW t \in Servers,
         NEW locked, ServerStep(t, locked)
  PROVE  Apart' /\ Line(c)' /\ Alone(c)' /\ UNCHANGED <<m_call, call>>
  <1>1. /\ caller \in [Callers -> CallerPc] /\ m_hThread \in Servers \cup {NULL}
        /\ server \in [Servers -> ServerPc] /\ queue \in [Servers -> Seq(Message)]
        /\ serving \in [Servers -> Nat] /\ NULL \notin Servers
    BY ServerAssumption DEF ThreadCallTypeOK, NULL
  <1>2. server[t] \notin {"none", "ended"}
    BY DEF ServerStep, Begin, Ready, Get, CSTC_Call, Signal, Bye, End, Gone
  <1>3. t = m_hThread /\ ~Cold
    BY <1>1, <1>2 DEF Apart, Cold
  <1>4. ASSUME NEW to, NEW from, Gone(t, from, to), from # "none", to # "none", queue' = queue,
               m_hThread' = m_hThread
        PROVE  Apart' /\ server'[m_hThread'] = to
    BY <1>1, <1>3, <1>4 DEF Gone, Apart
  <1>5. CASE Begin(t)
    <2>1. /\ Begun /\ caller[c] \in {"toawait", "await"}
      BY <1>3, <1>5 DEF Line, Begin, Gone, Thread, Idle
    <2>2. UNCHANGED <<m_hThread, m_hEvent, m_call, queue, serving, caller, call, done>>
      BY <1>5 DEF Begin
    <2>3. Apart' /\ server'[m_hThread'] = "ready" /\ m_ThreadID' = t
      BY <1>4, <1>5, <2>2 DEF Begin
    <2>4. Thread("ready", <<>>, FALSE)'
      BY <1>3, <2>1, <2>2, <2>3 DEF Begun, Thread
    <2> QED
      BY <2>1, <2>2, <2>3, <2>4 DEF Line, Alone
  <1>6. CASE Ready(t)
    <2>1. Thread("ready", <<>>, FALSE) /\ caller[c] \in {"toawait", "await"}
      BY <1>3, <1>6 DEF Line, Ready, Gone, Thread, Idle, Begun
    <2>2. UNCHANGED <<m_hThread, m_ThreadID, m_call, queue, serving, call, done>>
      BY <1>6 DEF Ready
    <2>3. Apart' /\ server'[m_hThread'] = "get"
      BY <1>4, <1>6, <2>2 DEF Ready
    <2>4. m_hEvent' = TRUE /\ Alone(c)' /\ caller'[c] \in {"toawait", "started"}
      BY <1>6, <2>1, EventTells DEF Ready
    <2>5. Thread("get", <<>>, TRUE)'
      BY <2>1, <2>2, <2>3, <2>4 DEF Thread
    <2> QED
      BY <2>2, <2>3, <2>4, <2>5 DEF Line
  <1>7. CASE Get(t)
    <2>1. server[t] = "get" /\ queue[t] # <<>>
      BY <1>7 DEF Get
    <2>2. Thread("get", Only("CALL", call[c]), FALSE) /\ caller[c] \in {"towait", "wait"}
      BY <1>3, <2>1 DEF Line, Thread, Idle, Begun
    <2>3. queue[t] = Only("CALL", call[c])
      BY <1>3, <2>2 DEF Thread
    <2>4. Tail(queue[t]) = <<>> /\ Head(queue[t]).kind = "CALL" /\ Head(queue[t]).of = call[c]
      BY <2>3, OneMessage
    <2>5. /\ queue' = [queue EXCEPT ![t] = <<>>] /\ server' = [server EXCEPT ![t] = "call"]
          /\ serving' = [serving EXCEPT ![t] = call[c]] /\ m_call' = m_call
      BY <1>7, <2>4 DEF Get
    <2>6. UNCHANGED <<m_hThread, m_ThreadID, m_hEvent, caller, call, done>>
      BY <1>7 DEF Get
    <2>7. Apart'
      BY <1>1, <1>3, <2>5, <2>6 DEF Apart
    <2>8. Thread("call", <<>>, FALSE)' /\ serving'[m_hThread'] = call'[c]
      BY <1>1, <1>3, <2>2, <2>5, <2>6 DEF Thread
    <2> QED
      BY <2>2, <2>5, <2>6, <2>7, <2>8 DEF Line, Alone
  <1>8. CASE CSTC_Call(t)
    <2>1. /\ Thread("call", <<>>, FALSE) /\ serving[m_hThread] = call[c]
          /\ caller[c] \in {"towait", "wait"}
      BY <1>3, <1>8 DEF Line, CSTC_Call, Gone, Thread, Idle, Begun
    <2>2. UNCHANGED <<m_hThread, m_ThreadID, m_hEvent, m_call, queue, serving, caller, call>>
      BY <1>8 DEF CSTC_Call
    <2>3. Apart' /\ server'[m_hThread'] = "signal"
      BY <1>4, <1>8, <2>2 DEF CSTC_Call
    <2>4. call'[c] \in done'
      BY <1>3, <1>8, <2>1, <2>2 DEF CSTC_Call
    <2>5. Thread("signal", <<>>, FALSE)'
      BY <2>1, <2>2, <2>3 DEF Thread
    <2> QED
      BY <2>1, <2>2, <2>3, <2>4, <2>5 DEF Line, Alone
  <1>9. CASE Signal(t)
    <2>1. Thread("signal", <<>>, FALSE) /\ call[c] \in done /\ caller[c] \in {"towait", "wait"}
      BY <1>3, <1>9 DEF Line, Signal, Gone, Thread, Idle, Begun
    <2>2. UNCHANGED <<m_hThread, m_ThreadID, m_call, queue, serving, call, done>>
      BY <1>9 DEF Signal
    <2>3. Apart' /\ server'[m_hThread'] = "get"
      BY <1>4, <1>9, <2>2 DEF Signal
    <2>4. m_hEvent' = TRUE /\ Alone(c)' /\ caller'[c] \in {"towait", "answered"}
      BY <1>9, <2>1, EventTells DEF Signal
    <2>5. Thread("get", <<>>, TRUE)'
      BY <2>1, <2>2, <2>3, <2>4 DEF Thread
    <2> QED
      BY <2>1, <2>2, <2>3, <2>4, <2>5 DEF Line
  <1>10. ~Bye(t) /\ ~End(t, locked)
    BY <1>3 DEF Line, Bye, End, Gone, Thread, Idle, Begun
  <1> QED
    BY <1>5, <1>6, <1>7, <1>8, <1>9, <1>10 DEF ServerStep

\* CSTC_Call of the caller's own question, and the object is not touched.
LEMMA ServesCaller ==
  ASSUME ThreadCallTypeOK, Apart, NEW c \in Callers, Line(c), NEW t \in Servers,
         server[t] = "call"
  PROVE  serving[t] = call[c]
  <1>1. t = m_hThread
    BY DEF Apart
  <1> QED
    BY <1>1, ServerAssumption DEF Line, Thread, Idle, Begun, Cold, NULL

LEMMA QuietRests ==
  ASSUME ThreadCallTypeOK, Apart, Cold \/ Idle, NEW t \in Servers
  PROVE  server[t] \notin {"call", "bye"} /\ \A locked : ~ServerStep(t, locked)
  <1>1. server[t] \in {"none", "ended"} \/ (server[t] = "get" /\ queue[t] = <<>>)
    BY ServerAssumption DEF Apart, Cold, Idle, Thread, NULL
  <1> QED
    BY <1>1 DEF ServerStep, Begin, Ready, Get, CSTC_Call, Signal, Bye, End, Gone

LEMMA OutNoStep ==
  ASSUME NEW c \in Callers, caller[c] = "out"
  PROVE  ~CallerStep(c)
  BY DEF CallerStep, Start, Spawn, SpawnFails, Await, Started, Post, Wait, Return, Join

LEMMA LeavingJoins ==
  ASSUME ThreadCallTypeOK, Apart, NEW c \in Callers, Leaving(c), CallerStep(c)
  PROVE  Apart' /\ Leaving(c)' /\ \A d \in Callers \ {c} : caller'[d] = caller[d]
  <1>1. Join(c)
    BY DEF Leaving, CallerStep, Start, Spawn, SpawnFails, Await, Started, Post, Wait, Return, Join
  <1>2. /\ caller[c] = "join" /\ m_ThreadID' = NULL /\ m_hThread' = NULL
        /\ server[m_hThread] = "ended" /\ UNCHANGED <<m_hEvent, server, queue>>
    BY <1>1 DEF Join
  <1>3. caller'[c] = "out" /\ \A d \in Callers \ {c} : caller'[d] = caller[d]
    BY <1>1 DEF Join, Moved, ThreadCallTypeOK
  <1>4. m_hEvent = FALSE
    BY <1>2 DEF Leaving, Thread
  <1>5. Apart'
    BY <1>2 DEF Apart
  <1> QED
    BY <1>2, <1>3, <1>4, <1>5 DEF Leaving, Cold

LEMMA LeavingServes ==
  ASSUME ThreadCallTypeOK, Apart, NEW c \in Callers, Leaving(c), NEW t \in Servers,
         NEW locked, ServerStep(t, locked)
  PROVE  Apart' /\ Leaving(c)' /\ UNCHANGED caller
  <1>1. /\ m_hThread \in Servers \cup {NULL} /\ server \in [Servers -> ServerPc]
        /\ queue \in [Servers -> Seq(Message)] /\ NULL \notin Servers
    BY ServerAssumption DEF ThreadCallTypeOK, NULL
  <1>2. server[t] \notin {"none", "ended"}
    BY DEF ServerStep, Begin, Ready, Get, CSTC_Call, Signal, Bye, End, Gone
  <1>3. t = m_hThread /\ ~Cold /\ caller[c] = "join"
    BY <1>1, <1>2 DEF Apart, Cold, Leaving
  <1>4. ASSUME NEW to \in {"bye", "end", "ended"}, server' = [server EXCEPT ![t] = to],
               queue'[t] = <<>>, \A s \in Servers \ {t} : queue'[s] = queue[s],
               UNCHANGED <<m_hThread, m_ThreadID, m_hEvent, caller>>
        PROVE  Apart' /\ Leaving(c)' /\ UNCHANGED caller
    <2>1. server'[m_hThread'] = to /\ \A s \in Servers \ {t} : server'[s] = server[s]
      BY <1>1, <1>3, <1>4
    <2>2. Apart'
      BY <1>3, <1>4, <2>1 DEF Apart
    <2>3. Thread(to, <<>>, FALSE)'
      BY <1>3, <1>4, <2>1 DEF Leaving, Thread
    <2> QED
      BY <1>3, <1>4, <2>2, <2>3 DEF Leaving
  <1>5. CASE Get(t)
    <2>1. queue[t] = Only("QUIT", 0)
      BY <1>3, <1>5 DEF Leaving, Thread, Get
    <2>2. Tail(queue[t]) = <<>> /\ Head(queue[t]).kind = "QUIT"
      BY <2>1, OneMessage
    <2>3. server' = [server EXCEPT ![t] = "bye"] /\ queue' = [queue EXCEPT ![t] = <<>>]
      BY <1>5, <2>2 DEF Get
    <2>4. queue'[t] = <<>> /\ \A s \in Servers \ {t} : queue'[s] = queue[s]
      BY <1>1, <2>3
    <2>5. UNCHANGED <<m_hThread, m_ThreadID, m_hEvent, caller>>
      BY <1>5 DEF Get
    <2> QED
      BY <1>4, <2>3, <2>4, <2>5
  <1>6. ASSUME Bye(t) \/ End(t, locked)
        PROVE  Apart' /\ Leaving(c)' /\ UNCHANGED caller
    <2>1. queue[t] = <<>>
      BY <1>3, <1>6 DEF Leaving, Thread, Bye, End, Gone
    <2>2. PICK to \in {"end", "ended"} : server' = [server EXCEPT ![t] = to]
      BY <1>6 DEF Bye, End, Gone
    <2>3. UNCHANGED <<m_hThread, m_ThreadID, m_hEvent, queue, caller>>
      BY <1>6 DEF Bye, End
    <2> QED
      BY <1>4, <2>1, <2>2, <2>3
  <1>7. ~Begin(t) /\ ~Ready(t) /\ ~CSTC_Call(t) /\ ~Signal(t)
    BY <1>3 DEF Leaving, Thread, Begin, Ready, CSTC_Call, Signal, Gone
  <1> QED
    BY <1>5, <1>6, <1>7 DEF ServerStep

-----------------------------------------------------------------------------
(* Steps of the SAORI.                                                      *)

\* Who asks is the baseware in info, or a thread of TortoiseProc that unload knows of.
LEMMA WhoAsks ==
  ASSUME IInv, NEW c \in Callers, Busy(c)
  PROVE  at[Host] \notin {"none", "exit", "exiting"}
  <1>1. CASE c = Host
    BY <1>1 DEF Busy, Asking, Reading
  <1>2. CASE c \in Procs
    <2>1. at[c] \in Running
      BY <1>2 DEF Busy, Asking, Reading, Running, IInv, Types, TypeOK, ProcAt
    <2> QED
      BY <1>2, <2>1 DEF IInv, ProcsKnown, Known
  <1> QED
    BY <1>1, <1>2, TsvnAssumption

\* A step of the SAORI beside CSThreadCall, that neither asks nor keeps an answer, loads nor unloads.
LEMMA StepsBeside ==
  ASSUME Single, UNCHANGED <<threadcall, object, m_pRev, asked, freed>>, Host \in Callers,
         \A c \in Callers : at[c] \in Asking \/ at[c] = "exiting" => at'[c] = at[c],
         \A c \in Callers : at'[c] # at[c] => at'[c] \notin Asking \cup Reading,
         at'[Host] # at[Host] => {at[Host], at'[Host]} \cap {"none", "exiting"} = {}
  PROVE  Single'
  <1>1. UNCHANGED <<m_hThread, m_ThreadID, m_hEvent, m_call, server, queue, serving, caller, call,
                    done>>
    BY DEF threadcall
  <1>2. /\ \A c \in Callers : Line(c) => Line(c)'
        /\ Leaving(Host) => Leaving(Host)'
        /\ Cold => Cold'
        /\ Idle => Idle'
        /\ Apart => Apart'
    BY <1>1 DEF Line, Leaving, Cold, Idle, Begun, Thread, Apart, Only
  <1>3. \A c \in Callers : (at'[c] \in Asking => at[c] \in Asking)
                           /\ (at'[c] \in Reading => at[c] \in Reading)
    OBVIOUS
  <1>4. OneBusy'
    BY <1>3 DEF Single, OneBusy, Busy
  <1>5. OutElse'
    BY <1>1 DEF Single, OutElse
  <1>6. Apart' /\ Asked' /\ Answered'
    BY <1>1, <1>2, <1>3 DEF Single, Asked, Answered
  <1>7. Quiet'
    BY <1>2 DEF Single, Quiet
  <1>8. Exiting' /\ Unloaded' /\ Called'
    BY <1>1, <1>2 DEF Single, Exiting, Unloaded, Called
  <1> QED
    BY <1>4, <1>5, <1>6, <1>7, <1>8 DEF Single

\* crossed stays, once it is set.
LEMMA CrossedStays == ASSUME crossed, [Next]_vars PROVE crossed'
  <1>1. CASE UNCHANGED vars
    BY <1>1 DEF vars, tsvn
  <1>2. CASE Host_
    BY <1>2 DEF Host_, load, Info, SubWCRev, ReadInfo, Notify, Assign, Unload, WaitFor, Joined, ExitCall,
                Delete
  <1>3. ASSUME NEW p \in Procs, Proc(p) \/ Dialog(p) \/ TortoiseEnds(p)
        PROVE  crossed'
    BY <1>3 DEF Proc, Before, After, SubWCRev, ReadBefore, CreateProcess, ToldToExit, ReadAfter,
                Forget, ForgetWindow, Sent, EndProc, Dialog, TortoiseEnds, Steps
  <1>4. ASSUME NEW c \in Callers, Asks(c) \/ Keep(c)
        PROVE  crossed'
    BY <1>4 DEF Asks, Keep, tsvn
  <1>5. ASSUME NEW t \in Servers, Serves(t)
        PROVE  crossed'
    BY <1>5 DEF Serves, tsvn
  <1> QED
    BY <1>1, <1>2, <1>3, <1>4, <1>5 DEF Next

LEMMA AskSingle ==
  ASSUME IInv, Single, NEW c \in Callers, NEW from, NEW to \in Asking, Goes(c, from, to),
         SubWCRev(c), at[Host] \notin {"none", "exiting"}
  PROVE  crossed' \/ Single'
  <1> SUFFICES ASSUME ~crossed'
               PROVE  Single'
    OBVIOUS
  <1>1. /\ asked \in Nat /\ asked' = asked + 1 /\ m_pRev \in 0 .. asked /\ freed \subseteq 1 .. asked
        /\ call \in [Callers -> Nat] /\ caller \in [Callers -> CallerPc]
        /\ at \in [Callers -> HostAt \cup ProcAt] /\ Host \in Callers
    BY TsvnAssumption DEF IInv, Types, TypeOK, ThreadCallTypeOK, SubWCRev
  <1>2. \A d \in Callers \ {c} : ~Busy(d)
    BY DEF SubWCRev
  <1>3. /\ caller[c] = "out" /\ caller' = [caller EXCEPT ![c] = "start"]
        /\ call' = [call EXCEPT ![c] = asked + 1]
        /\ UNCHANGED <<m_hThread, m_ThreadID, m_hEvent, m_call, server, queue, serving, done>>
    BY DEF SubWCRev, Call, Moved
  <1>4. UNCHANGED <<object, m_pRev, freed>>
    BY DEF SubWCRev
  <1>5. /\ at'[c] = to /\ \A d \in Callers \ {c} : at'[d] = at[d]
    BY <1>1 DEF Goes
  <1>6. \A d \in Callers \ {c} : at'[d] \notin Asking \cup Reading
    BY <1>2, <1>5 DEF Busy
  <1>7. at'[Host] \notin {"none", "exiting"}
    BY <1>1, <1>5 DEF Asking
  <1>8. Cold \/ Idle
    <2>1. CASE at[c] \in Asking
      BY <1>3, <2>1 DEF Single, Asked, Line
    <2>2. CASE at[c] \notin Asking
      BY <1>2, <2>2 DEF Single, Quiet, Busy
    <2> QED
      BY <2>1, <2>2
  <1>9. Line(c)' /\ Apart'
    <2>1. caller'[c] = "start"
      BY <1>1, <1>3
    <2>2. Cold' \/ Idle'
      BY <1>3, <1>8 DEF Cold, Idle, Thread
    <2>3. Apart'
      BY <1>3 DEF Single, Apart
    <2> QED
      BY <2>1, <2>2, <2>3 DEF Line
  <1>10. OneBusy' /\ Answered'
    BY <1>5, <1>6 DEF OneBusy, Answered, Busy, Asking, Reading
  <1>11. OutElse'
    <2>1. \A d \in Callers \ {c} : caller'[d] = "out"
      BY <1>1, <1>2, <1>3 DEF Single, OutElse, Busy
    <2> QED
      BY <1>5, <2>1 DEF OutElse
  <1>12. Asked'
    <2>1. call'[c] = asked' /\ m_pRev' # asked' /\ asked' \notin freed'
      BY <1>1, <1>3, <1>4
    <2> QED
      BY <1>6, <1>9, <2>1 DEF Asked
  <1>13. Quiet' /\ Exiting' /\ Unloaded'
    BY <1>5, <1>7 DEF Quiet, Exiting, Unloaded
  <1>14. Called'
    BY <1>3, <1>4 DEF Single, Called
  <1> QED
    BY <1>9, <1>10, <1>11, <1>12, <1>13, <1>14 DEF Single

LEMMA KeepSingle ==
  ASSUME IInv, Single, NEW c \in Callers, Keep(c)
  PROVE  Single'
  <1>1. at \in [Callers -> HostAt \cup ProcAt] /\ Host \in Callers
    BY TsvnAssumption DEF IInv, Types, TypeOK
  <1>2. PICK to \in Reading : at' = [at EXCEPT ![c] = to]
    BY DEF Keep, Goes, Reading
  <1>3. at[c] \in Asking /\ caller[c] = "out"
    BY DEF Keep, Goes, Asking
  <1>4. /\ freed' = Deleted(m_pRev) /\ m_pRev' = call[c]
        /\ UNCHANGED <<threadcall, object, asked>>
    BY DEF Keep
  <1>5. /\ UNCHANGED <<m_hThread, m_ThreadID, m_hEvent, m_call, server, queue, serving, caller,
                       call, done>>
    BY <1>4 DEF threadcall
  <1>6. /\ Line(c) /\ call[c] = asked /\ m_pRev # asked /\ asked \notin freed
    BY <1>3 DEF Single, Asked
  <1>7. Idle'
    BY <1>3, <1>5, <1>6 DEF Line, Idle, Thread
  <1>8. \A d \in Callers \ {c} : at'[d] = at[d] /\ ~Busy(d)
    BY <1>1, <1>2, <1>3 DEF Single, OneBusy, Busy
  <1>9. at'[c] \in Reading /\ at'[c] \notin Asking /\ at'[c] \notin {"none", "exiting"}
    BY <1>1, <1>2 DEF Reading, Asking
  <1>10. at[Host] \notin {"none", "exiting"} /\ at'[Host] \notin {"none", "exiting"}
    BY <1>1, <1>3, <1>8, <1>9, WhoAsks DEF Busy
  <1>11. OneBusy' /\ Apart'
    BY <1>5, <1>8, <1>9 DEF OneBusy, Busy, Single, Apart
  <1>12. OutElse'
    BY <1>3, <1>5, <1>8, <1>10 DEF Single, OutElse, Busy
  <1>13. Asked'
    BY <1>8, <1>9 DEF Asked, Busy
  <1>14. Answered'
    BY <1>4, <1>5, <1>6, <1>8 DEF Answered, Busy, Deleted
  <1>15. Quiet' /\ Exiting' /\ Unloaded'
    BY <1>7, <1>10 DEF Quiet, Exiting, Unloaded
  <1>16. Called'
    BY <1>4, <1>5, <1>10 DEF Single, Called
  <1> QED
    BY <1>11, <1>12, <1>13, <1>14, <1>15, <1>16 DEF Single

\* Nobody is busy when the baseware is past join.
LEMMA NobodyBusy ==
  ASSUME IInv, at[Host] \in {"none", "exit", "exiting"}
  PROVE  \A c \in Callers : ~Busy(c)
  BY WhoAsks

LEMMA LoadSingle == ASSUME IInv, Single, load PROVE Single'
  <1>1. at \in [Callers -> HostAt \cup ProcAt] /\ Host \in Callers
    BY TsvnAssumption DEF IInv, Types, TypeOK
  <1>2. at[Host] = "none" /\ at' = [at EXCEPT ![Host] = "idle"] /\ object' = loads'
    BY DEF load, Goes
  <1>3. \A c \in Callers : ~Busy(c)
    BY <1>2, NobodyBusy
  <1>4. at'[Host] = "idle" /\ \A c \in Callers \ {Host} : at'[c] = at[c]
    BY <1>1, <1>2
  <1>5. \A c \in Callers : at'[c] \notin Asking \cup Reading
    BY <1>3, <1>4 DEF Busy, Asking, Reading
  <1>6. Cold
    BY <1>2 DEF Single, Unloaded
  <1>7. m_call' = object' /\ queue' = queue
    BY <1>2, <1>6 DEF load, Set, Cold
  <1>8. UNCHANGED <<m_hThread, m_ThreadID, m_hEvent, server, serving, caller, call, done>>
    BY DEF load, Set
  <1>9. Cold'
    BY <1>6, <1>8 DEF Cold
  <1>10. OneBusy' /\ Asked' /\ Answered'
    BY <1>5 DEF OneBusy, Busy, Asked, Answered
  <1>11. OutElse'
    BY <1>2, <1>3, <1>8 DEF Single, OutElse, Busy
  <1>12. Apart'
    BY <1>7, <1>8 DEF Single, Apart
  <1>13. Quiet' /\ Exiting' /\ Unloaded' /\ Called'
    BY <1>4, <1>7, <1>9 DEF Quiet, Exiting, Unloaded, Called
  <1> QED
    BY <1>10, <1>11, <1>12, <1>13 DEF Single

LEMMA ExitSingle == ASSUME IInv, Single, ExitCall PROVE Single'
  <1>1. /\ at \in [Callers -> HostAt \cup ProcAt] /\ Host \in Callers
        /\ caller \in [Callers -> CallerPc] /\ m_hThread \in Servers \cup {NULL}
        /\ queue \in [Servers -> Seq(Message)] /\ NULL \notin Servers
    BY TsvnAssumption, ServerAssumption DEF IInv, Types, TypeOK, ThreadCallTypeOK, NULL
  <1>2. /\ at[Host] = "exit" /\ at' = [at EXCEPT ![Host] = "exiting"]
        /\ UNCHANGED <<object, m_pRev, asked, freed>>
    BY DEF ExitCall, Goes
  <1>3. \A c \in Callers : ~Busy(c)
    BY <1>2, NobodyBusy
  <1>4. at'[Host] = "exiting" /\ \A c \in Callers \ {Host} : at'[c] = at[c]
    BY <1>1, <1>2
  <1>5. \A c \in Callers : at'[c] \notin Asking \cup Reading
    BY <1>3, <1>4 DEF Busy, Asking, Reading
  <1>6. UNCHANGED <<m_hThread, m_ThreadID, m_hEvent, server>> /\ caller[Host] = "out"
    BY DEF ExitCall, Exit
  <1>7. Cold \/ Idle
    BY <1>2, <1>3 DEF Single, Quiet, Busy
  <1>8. Apart' /\ Leaving(Host)' /\ \A c \in Callers \ {Host} : caller'[c] = caller[c]
    <2>1. CASE Cold
      <3>1. UNCHANGED <<caller, queue>>
        BY <2>1 DEF ExitCall, Exit, Cold
      <3> QED
        BY <1>6, <2>1, <3>1 DEF Single, Apart, Leaving, Cold
    <2>2. CASE Idle
      <3>1. m_hThread \in Servers /\ m_ThreadID = m_hThread /\ Received(m_ThreadID)
        BY <1>1, <2>2 DEF Idle, Thread, Received, Listening
      <3>2. /\ caller' = [caller EXCEPT ![Host] = "join"]
            /\ queue' = [queue EXCEPT ![m_hThread] = Append(@, [kind |-> "QUIT", of |-> 0])]
        BY <1>1, <3>1 DEF ExitCall, Exit, Moved, PostThreadMessage
      <3>3. queue'[m_hThread] = Only("QUIT", 0)
        BY <1>1, <2>2, <3>1, <3>2, OneMessage DEF Idle, Thread
      <3>4. Thread("get", Only("QUIT", 0), FALSE)'
        BY <1>6, <2>2, <3>3 DEF Idle, Thread, Only
      <3>5. Apart'
        BY <1>1, <1>6, <2>2, <3>1, <3>2 DEF Single, Apart, Idle, Thread
      <3> QED
        BY <1>1, <3>2, <3>4, <3>5 DEF Leaving
    <2> QED
      BY <1>7, <2>1, <2>2
  <1>9. OneBusy' /\ Asked' /\ Answered'
    BY <1>5 DEF OneBusy, Busy, Asked, Answered
  <1>10. OutElse'
    BY <1>2, <1>3, <1>4, <1>8 DEF Single, OutElse, Busy
  <1>11. Quiet' /\ Exiting' /\ Unloaded' /\ Called'
    BY <1>4, <1>8 DEF Quiet, Exiting, Unloaded, Called
  <1> QED
    BY <1>8, <1>9, <1>10, <1>11 DEF Single

LEMMA DeleteSingle == ASSUME IInv, Single, Delete PROVE Single'
  <1>1. at \in [Callers -> HostAt \cup ProcAt] /\ Host \in Callers
    BY TsvnAssumption DEF IInv, Types, TypeOK
  <1>2. at[Host] = "exiting" /\ at' = [at EXCEPT ![Host] = "none"] /\ caller[Host] = "out"
    BY DEF Delete, Goes
  <1>3. \A c \in Callers : ~Busy(c)
    BY <1>2, NobodyBusy
  <1>4. at'[Host] = "none" /\ \A c \in Callers \ {Host} : at'[c] = at[c]
    BY <1>1, <1>2
  <1>5. \A c \in Callers : at'[c] \notin Asking \cup Reading
    BY <1>3, <1>4 DEF Busy, Asking, Reading
  <1>6. UNCHANGED <<m_hThread, m_ThreadID, m_hEvent, m_call, server, queue, serving, caller, call,
                    done>>
    BY DEF Delete, threadcall
  <1>7. Cold'
    BY <1>2, <1>6 DEF Single, Exiting, Leaving, Cold
  <1>8. OneBusy' /\ Asked' /\ Answered'
    BY <1>5 DEF OneBusy, Busy, Asked, Answered
  <1>9. OutElse' /\ Apart'
    BY <1>2, <1>3, <1>6 DEF Single, OutElse, Apart, Busy
  <1>10. Quiet' /\ Exiting' /\ Unloaded' /\ Called'
    BY <1>4, <1>7 DEF Quiet, Exiting, Unloaded, Called
  <1> QED
    BY <1>8, <1>9, <1>10 DEF Single

LEMMA HostSingle == ASSUME IInv, Single, Host_ PROVE crossed' \/ Single'
  <1>1. /\ at \in [Callers -> HostAt \cup ProcAt]
        /\ Host \in Callers /\ Host \notin Procs /\ Procs \subseteq Callers
    BY TsvnAssumption DEF IInv, Types, TypeOK
  <1>2. CASE Info
    BY <1>1, <1>2, AskSingle DEF Info, Goes, Asking
  <1>3. ASSUME NEW from \in {"idle", "read", "assign", "test", "join"},
               NEW to \in {"idle", "test", "join", "exit"}, Goes(Host, from, to),
               UNCHANGED <<threadcall, object, m_pRev, asked, freed>>
        PROVE  Single'
    <2>1. at[Host] = from /\ at'[Host] = to /\ \A c \in Callers \ {Host} : at'[c] = at[c]
      BY <1>1, <1>3 DEF Goes
    <2>2. \A c \in Callers : at[c] \in Asking \/ at[c] = "exiting" => at'[c] = at[c]
      BY <1>3, <2>1 DEF Asking
    <2>3. \A c \in Callers : at'[c] # at[c] => at'[c] \notin Asking \cup Reading
      BY <1>3, <2>1 DEF Asking, Reading
    <2>4. {at[Host], at'[Host]} \cap {"none", "exiting"} = {}
      BY <1>3, <2>1
    <2> QED
      BY <1>1, <1>3, <2>2, <2>3, <2>4, StepsBeside
  <1>4. CASE ReadInfo
    BY <1>3, <1>4 DEF ReadInfo
  <1>5. CASE Assign
    BY <1>3, <1>5 DEF Assign
  <1>6. CASE Unload
    BY <1>3, <1>6 DEF Unload
  <1>7. CASE WaitFor \/ Joined
    BY <1>3, <1>7 DEF WaitFor, Joined
  <1>8. ASSUME NEW p \in Procs, Notify(p)
        PROVE  Single'
    <2>1. /\ at[Host] = "idle" /\ at[p] = "none"
          /\ at' = [at EXCEPT ![Host] = "assign", ![p] = "begin"]
          /\ UNCHANGED <<threadcall, object, m_pRev, asked, freed>>
      BY <1>8 DEF Notify
    <2>2. /\ at'[Host] = "assign" /\ at'[p] = "begin"
          /\ \A c \in Callers \ {Host, p} : at'[c] = at[c]
      BY <1>1, <2>1
    <2>3. \A c \in Callers : at[c] \in Asking \/ at[c] = "exiting" => at'[c] = at[c]
      BY <2>1, <2>2 DEF Asking
    <2>4. \A c \in Callers : at'[c] # at[c] => at'[c] \notin Asking \cup Reading
      BY <2>2 DEF Asking, Reading
    <2> QED
      BY <1>1, <2>1, <2>2, <2>3, <2>4, StepsBeside
  <1> QED
    BY <1>2, <1>4, <1>5, <1>6, <1>7, <1>8, LoadSingle, ExitSingle, DeleteSingle DEF Host_

LEMMA ProcSingle ==
  ASSUME IInv, Single, NEW p \in Procs, Proc(p) \/ Dialog(p) \/ TortoiseEnds(p)
  PROVE  crossed' \/ Single'
  <1>1. /\ at \in [Callers -> HostAt \cup ProcAt] /\ p \in Callers
        /\ Host \in Callers /\ Host # p
    BY TsvnAssumption DEF IInv, Types, TypeOK
  <1>2. CASE Before(p) \/ After(p)
    <2>1. at[p] \in Running
      BY <1>2 DEF Before, After, Goes, Running
    <2>2. at[Host] \notin {"none", "exiting"}
      BY <2>1 DEF IInv, ProcsKnown, Known
    <2> QED
      BY <1>1, <1>2, <2>2, AskSingle DEF Before, After, Asking
  <1>3. ASSUME NEW from \in ProcAt \ Asking, NEW to \in ProcAt \ (Asking \cup Reading),
               Goes(p, from, to), UNCHANGED <<threadcall, object, m_pRev, asked, freed>>
        PROVE  Single'
    <2>1. at[p] = from /\ at'[p] = to /\ \A c \in Callers \ {p} : at'[c] = at[c]
      BY <1>1, <1>3 DEF Goes
    <2>2. from # "exiting"
      BY <1>3 DEF ProcAt, Running
    <2>3. \A c \in Callers : at[c] \in Asking \/ at[c] = "exiting" => at'[c] = at[c]
      BY <1>3, <2>1, <2>2
    <2>4. \A c \in Callers : at'[c] # at[c] => at'[c] \notin Asking \cup Reading
      BY <1>3, <2>1
    <2> QED
      BY <1>1, <1>3, <2>1, <2>3, <2>4, StepsBeside
  <1>4. CASE ReadBefore(p) \/ CreateProcess(p) \/ Dialog(p)
    BY <1>3, <1>4 DEF ReadBefore, CreateProcess, Dialog, Steps, ProcAt, Running, Asking, Reading
  <1>5. CASE TortoiseEnds(p) \/ ToldToExit(p) \/ ReadAfter(p)
    BY <1>3, <1>5 DEF TortoiseEnds, ToldToExit, ReadAfter, Steps, ProcAt, Running, Asking, Reading
  <1>6. CASE Forget(p) \/ ForgetWindow(p) \/ Sent(p) \/ EndProc(p)
    BY <1>3, <1>6 DEF Forget, ForgetWindow, Sent, EndProc, Steps, ProcAt, Running, Asking, Reading
  <1> QED
    BY <1>2, <1>4, <1>5, <1>6 DEF Proc

\* A step of CSThreadCall, while c asks.
LEMMA AskedSteps ==
  ASSUME IInv, Single, NEW c \in Callers, at[c] \in Asking,
         (\E d \in Callers : Asks(d)) \/ (\E t \in Servers : Serves(t))
  PROVE  Single'
  <1>1. ThreadCallTypeOK /\ Line(c) /\ Apart
    BY DEF IInv, Types, TypeOK, Single, Asked
  <1>2. at[Host] \notin {"none", "exiting"}
    BY WhoAsks DEF Busy
  <1>3. \A d \in Callers \ {c} : ~Busy(d)
    BY DEF Single, OneBusy, Busy
  <1>4. Alone(c)
    BY <1>2, <1>3 DEF Single, OutElse, Alone, Busy
  <1>5. UNCHANGED <<at, object, m_pRev, asked, freed>>
    BY DEF Asks, Serves, tsvn
  <1>6. Apart' /\ Line(c)' /\ Alone(c)' /\ UNCHANGED <<m_call, call>>
    <2>1. ASSUME NEW d \in Callers, CallerStep(d)
          PROVE  Apart' /\ Line(c)' /\ Alone(c)' /\ UNCHANGED <<m_call, call>>
      <3>1. d = c
        BY <1>4, <2>1, OutNoStep DEF Alone
      <3> QED
        BY <1>1, <1>4, <2>1, <3>1, CallerAsks DEF Alone
    <2>2. ASSUME NEW t \in Servers, NEW l, ServerStep(t, l)
          PROVE  Apart' /\ Line(c)' /\ Alone(c)' /\ UNCHANGED <<m_call, call>>
      BY <1>1, <1>4, <2>2, ServerAnswers
    <2> QED
      BY <2>1, <2>2 DEF Asks, Serves
  <1>7. OneBusy' /\ Answered' /\ Asked'
    BY <1>3, <1>5, <1>6 DEF Single, OneBusy, Answered, Asked, Busy
  <1>8. OutElse'
    BY <1>5, <1>6 DEF OutElse, Alone
  <1>9. Quiet' /\ Exiting' /\ Unloaded' /\ Called'
    BY <1>2, <1>5, <1>6 DEF Quiet, Exiting, Unloaded, Called, Single
  <1> QED
    BY <1>6, <1>7, <1>8, <1>9 DEF Single

\* A step of CSThreadCall, while nobody asks: only Exit can have one.
LEMMA OtherSteps ==
  ASSUME IInv, Single, \A c \in Callers : at[c] \notin Asking,
         (\E d \in Callers : Asks(d)) \/ (\E t \in Servers : Serves(t))
  PROVE  Single'
  <1>1. ThreadCallTypeOK /\ Apart /\ Host \in Callers
    BY TsvnAssumption DEF IInv, Types, TypeOK, Single
  <1>2. \A d \in Callers \ {Host} : caller[d] = "out"
    BY DEF Single, OutElse
  <1>3. UNCHANGED <<at, object, m_pRev, asked, freed>>
    BY DEF Asks, Serves, tsvn
  <1>4. at[Host] = "exiting"
    <2>1. SUFFICES ASSUME at[Host] # "exiting"
                   PROVE  FALSE
      OBVIOUS
    <2>2. (Cold \/ Idle) /\ caller[Host] = "out"
      BY <1>1, <2>1 DEF Single, Quiet, OutElse
    <2>3. \A d \in Callers : ~CallerStep(d)
      BY <1>2, <2>2, OutNoStep
    <2>4. PICK t \in Servers : ServerStep(t, Locked)
      BY <2>3 DEF Asks, Serves
    <2> QED
      BY <1>1, <2>2, <2>4, QuietRests
  <1>5. Apart' /\ Leaving(Host)' /\ \A d \in Callers \ {Host} : caller'[d] = caller[d]
    <2>1. Leaving(Host)
      BY <1>4 DEF Single, Exiting
    <2>2. ASSUME NEW d \in Callers, CallerStep(d)
          PROVE  Apart' /\ Leaving(Host)' /\ \A e \in Callers \ {Host} : caller'[e] = caller[e]
      <3>1. d = Host
        BY <1>2, <2>2, OutNoStep
      <3> QED
        BY <1>1, <2>1, <2>2, <3>1, LeavingJoins
    <2>3. ASSUME NEW t \in Servers, NEW l, ServerStep(t, l)
          PROVE  Apart' /\ Leaving(Host)' /\ \A e \in Callers \ {Host} : caller'[e] = caller[e]
      BY <1>1, <2>1, <2>3, LeavingServes
    <2> QED
      BY <2>2, <2>3 DEF Asks, Serves
  <1>6. \A c \in Callers : ~Busy(c)
    BY <1>4, NobodyBusy
  <1>7. OneBusy' /\ Asked' /\ Answered'
    BY <1>3, <1>6 DEF OneBusy, Asked, Answered, Busy
  <1>8. OutElse'
    BY <1>2, <1>3, <1>4, <1>5 DEF OutElse
  <1>9. Quiet' /\ Exiting' /\ Unloaded' /\ Called'
    BY <1>3, <1>4, <1>5 DEF Quiet, Exiting, Unloaded, Called
  <1> QED
    BY <1>5, <1>7, <1>8, <1>9 DEF Single

LEMMA InitSingle == Init => Single
  <1> SUFFICES ASSUME Init
               PROVE  Single
    OBVIOUS
  <1>1. \A c \in Callers : at[c] = "none" /\ caller[c] = "out"
    BY DEF Init, ThreadCallInit
  <1>2. Cold /\ Host \in Callers
    BY TsvnAssumption DEF Init, ThreadCallInit, Cold
  <1>3. Apart
    BY DEF Init, ThreadCallInit, Apart
  <1> QED
    BY <1>1, <1>2, <1>3 DEF Single, OneBusy, OutElse, Asked, Answered, Quiet, Exiting, Unloaded,
                            Called, Busy, Asking, Reading

LEMMA NextCallInv == ASSUME CallInv, [Next]_vars PROVE CallInv'
  <1>1. IInv /\ IInv'
    BY NextIInv DEF CallInv
  <1>2. CASE crossed
    BY <1>1, <1>2, CrossedStays DEF CallInv
  <1>3. CASE ~crossed
    <2>1. Single
      BY <1>3 DEF CallInv
    <2>2. CASE UNCHANGED vars
      <3>1. UNCHANGED <<threadcall, at, object, m_pRev, asked, freed>>
        BY <2>2 DEF vars, tsvn
      <3> QED
        BY <1>1, <2>1, <3>1, StepsBeside, TsvnAssumption DEF CallInv
    <2>3. ASSUME NEW p \in Procs, Proc(p) \/ Dialog(p) \/ TortoiseEnds(p)
          PROVE  crossed' \/ Single'
      BY <1>1, <2>1, <2>3, ProcSingle
    <2>4. ASSUME NEW c \in Callers, Keep(c)
          PROVE  Single'
      BY <1>1, <2>1, <2>4, KeepSingle
    <2>5. CASE (\E d \in Callers : Asks(d)) \/ (\E t \in Servers : Serves(t))
      BY <1>1, <2>1, <2>5, AskedSteps, OtherSteps DEF CallInv
    <2>6. CASE Host_
      BY <1>1, <2>1, <2>6, HostSingle DEF CallInv
    <2> QED
      BY <1>1, <2>2, <2>3, <2>4, <2>5, <2>6 DEF CallInv, Next
  <1> QED
    BY <1>2, <1>3

LEMMA CallInvAlways == Spec => []CallInv
  <1>1. Init => CallInv
    BY InitTypes, InitKnown, InitSingle DEF CallInv, IInv
  <1> QED
    BY <1>1, NextCallInv, PTL DEF Spec

-----------------------------------------------------------------------------

(***************************************************************************)
(* One event tells that the thread has begun and that a call is done.  As   *)
(* long as nobody else asks, Call returns only when its own call has been   *)
(* carried out (cs_threadcall.cpp 53-64, 92, 119-126).                       *)
(***************************************************************************)
THEOREM CallAlwaysDone == Spec => []CallIsDone
  <1>1. CallInv => CallIsDone
    BY DEF CallInv, Single, Asked, Line, CallIsDone
  <1> QED
    BY <1>1, CallInvAlways, PTL

(***************************************************************************)
(* The data that is written by CSTC_Call, or read by who asked for it, has  *)
(* not been deleted with the answer before, and the object called is the    *)
(* one that is loaded (tsvnexec.cpp 513-525).                               *)
(***************************************************************************)
THEOREM DataAlwaysLives == Spec => []DataLives
  <1>1. ASSUME CallInv, ~crossed
        PROVE  DataLives
    <2>1. IInv /\ Single /\ ThreadCallTypeOK /\ Apart
      BY <1>1 DEF CallInv, IInv, Types, TypeOK, Single
    <2>2. \A c \in Callers : at[c] \in Reading => call[c] \notin freed
      BY <2>1 DEF Single, Answered
    <2>3. ASSUME NEW t \in Servers, server[t] = "call"
          PROVE  serving[t] \notin freed /\ m_call # NULL /\ m_call = object
      <3>1. PICK c \in Callers : at[c] \in Asking
        <4>1. SUFFICES ASSUME \A c \in Callers : at[c] \notin Asking
                       PROVE  FALSE
          OBVIOUS
        <4>2. CASE at[Host] = "exiting"
          <5>1. Leaving(Host)
            BY <2>1, <4>2 DEF Single, Exiting
          <5>2. t = m_hThread
            BY <2>1, <2>3 DEF Apart
          <5> QED
            BY <2>3, <5>1, <5>2, ServerAssumption DEF Leaving, Thread, Cold, NULL
        <4>3. CASE at[Host] # "exiting"
          BY <2>1, <2>3, <4>1, <4>3, QuietRests DEF Single, Quiet
        <4> QED
          BY <4>2, <4>3
      <3>2. Line(c) /\ call[c] = asked /\ asked \notin freed
        BY <2>1, <3>1 DEF Single, Asked
      <3>3. serving[t] = call[c]
        BY <2>1, <2>3, <3>2, ServesCaller
      <3>4. at[Host] \notin {"none", "exiting"}
        BY <2>1, <3>1, WhoAsks DEF Busy
      <3>5. m_call = object /\ object # NULL
        BY <2>1, <3>4 DEF Single, Called, IInv, ProcsKnown
      <3> QED
        BY <3>2, <3>3, <3>5
    <2> QED
      BY <2>2, <2>3 DEF DataLives
  <1>2. CallInv => DataLives
    BY <1>1 DEF DataLives
  <1> QED
    BY <1>2, CallInvAlways, PTL

(***************************************************************************)
(* When the baseware has unloaded the DLL no thread of CSThreadCall is left *)
(* in it: Exit waits for the one there is (cs_threadcall.cpp 65-74).        *)
(***************************************************************************)
THEOREM NoServerEverLeft == Spec => []NoServerLeft
  <1>1. CallInv => NoServerLeft
    BY ServerAssumption DEF CallInv, Single, Unloaded, Cold, Apart, NoServerLeft, NULL
  <1> QED
    BY <1>1, CallInvAlways, PTL

=============================================================================
