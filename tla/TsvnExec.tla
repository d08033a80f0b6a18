------------------------------ MODULE TsvnExec -------------------------------
(***************************************************************************)
(* tsvnexec (impl_saori/tsvnexec/tsvnexec.cpp): the revision of a working   *)
(* copy, asked by the thread of the baseware (info) and by the thread of a  *)
(* TortoiseProc (notify), before it and after it.  Both ask through         *)
(* CSThreadCall, and both keep the answer in the one m_pRev.                *)
(*                                                                          *)
(* Nothing keeps the two from asking at the same time; crossed remembers    *)
(* that they did.  Numbers stand for objects and for SubWCRevData, 0 is     *)
(* NULL.                                                                    *)
(***************************************************************************)
EXTENDS ThreadCall

CONSTANTS Host,       \* the thread of the baseware
          Procs,      \* the threads of TortoiseProc
          MaxLoads,   \* bound on load
          MaxCalls    \* bound on SubWCRev

ASSUME TsvnAssumption ==
  /\ Callers = Procs \cup {Host} /\ Host \notin Procs
  /\ MaxLoads \in Nat /\ MaxCalls \in Nat

VARIABLES at,           \* at[c]: where c is
          object,       \* the CTSVNSAORI
          loads,
          m_hProc,      \* its m_hThread: Host stands for NULL
          of,           \* of[p]: pData->saori
          starting,     \* the thread _beginthread has returned
          m_pRev,
          exitEvent,    \* m_hThreadExitEvent
          asked,        \* the SubWCRevData so far
          freed,        \* history: those deleted
          detaching,    \* does unload run from DllMain?
          crossed       \* history: two threads were in SubWCRev, or read what it returned

tsvn == <<at, object, loads, m_hProc, of, starting, m_pRev, exitEvent, asked, freed, detaching,
          crossed>>
vars == <<threadcall, tsvn>>

NoProc == Host
Asking == {"info", "before", "after"}          \* in SubWCRev
Reading == {"read", "readbefore", "readafter"} \* has what it returned
Running == {"begin", "before", "readbefore", "create", "dialog", "wait", "ask", "after",
            "readafter", "null"}               \* m_hThread is not yet NULL
Unloading == {"test", "join", "exit", "exiting"}
HostAt == {"none", "idle", "info", "read", "assign"} \cup Unloading
ProcAt == Running \cup {"none", "window", "send", "end", "ended"}

Init ==
  /\ ThreadCallInit
  /\ at = [c \in Callers |-> "none"] /\ of = [p \in Procs |-> NULL]
  /\ object = NULL /\ loads = 0 /\ m_hProc = NoProc /\ starting = NoProc
  /\ m_pRev = NULL /\ exitEvent = FALSE /\ asked = 0 /\ freed = {}
  /\ detaching = FALSE /\ crossed = FALSE

-----------------------------------------------------------------------------
(* SubWCRev, on thread c. *)

Goes(c, from, to) == at[c] = from /\ at' = [at EXCEPT ![c] = to]

Busy(c) == at[c] \in Asking \cup Reading

\* A bug for a mutant: the data of the answer before is asked for again.
SubWCRevReuses(c) ==
  /\ asked < MaxCalls
  /\ Call(c, asked + 1) /\ asked' = asked
  /\ crossed' = (crossed \/ \E d \in Callers \ {c} : Busy(d))
  /\ UNCHANGED <<object, loads, m_hProc, of, starting, m_pRev, exitEvent, freed, detaching>>

SubWCRev(c) ==
  /\ asked < MaxCalls
  /\ Call(c, asked + 1) /\ asked' = asked + 1
  /\ crossed' = (crossed \/ \E d \in Callers \ {c} : Busy(d))
  /\ UNCHANGED <<object, loads, m_hProc, of, starting, m_pRev, exitEvent, freed, detaching>>

Deleted(data) == freed \cup ({data} \ {NULL})

\* Call has returned: the answer before goes, this one stays.
Keep(c) ==
  /\ caller[c] = "out"
  /\ \/ Goes(c, "info", "read") \/ Goes(c, "before", "readbefore")
     \/ Goes(c, "after", "readafter")
  /\ freed' = Deleted(m_pRev) /\ m_pRev' = call[c]
  /\ UNCHANGED <<threadcall, object, loads, m_hProc, of, starting, exitEvent, asked, detaching,
                 crossed>>

-----------------------------------------------------------------------------
(* The baseware. *)

load ==
  /\ loads < MaxLoads
  /\ Goes(Host, "none", "idle")
  /\ loads' = loads + 1 /\ object' = loads' /\ m_hProc' = NoProc /\ exitEvent' = FALSE
  /\ Set(loads')
  /\ UNCHANGED <<of, starting, m_pRev, asked, freed, detaching, crossed>>

Info == Goes(Host, "idle", "info") /\ SubWCRev(Host)
ReadInfo ==
  /\ Goes(Host, "read", "idle")
  /\ UNCHANGED <<threadcall, object, loads, m_hProc, of, starting, m_pRev, exitEvent, asked,
                 freed, detaching, crossed>>

\* The thread runs before m_hThread has its handle.  If _beginthread fails nothing happens.
Notify(p) ==
  /\ at[Host] = "idle" /\ m_hProc = NoProc /\ at[p] = "none"
  /\ at' = [at EXCEPT ![Host] = "assign", ![p] = "begin"]
  /\ of' = [of EXCEPT ![p] = object] /\ starting' = p
  /\ UNCHANGED <<threadcall, object, loads, m_hProc, m_pRev, exitEvent, asked, freed, detaching,
                 crossed>>

Assign ==
  /\ Goes(Host, "assign", "idle")
  /\ m_hProc' = starting /\ starting' = NoProc
  /\ UNCHANGED <<threadcall, object, loads, of, m_pRev, exitEvent, asked, freed, detaching,
                 crossed>>

\* A bug for a mutant: nobody waits for the thread.
UnloadUnjoined ==
  /\ Goes(Host, "idle", "exit")
  /\ exitEvent' = TRUE /\ detaching' \in BOOLEAN
  /\ UNCHANGED <<threadcall, object, loads, m_hProc, of, starting, m_pRev, asked, freed, crossed>>

\* A bug for a mutant: the thread is waited for and not told.
UnloadUntold ==
  /\ Goes(Host, "idle", IF m_hProc = NoProc THEN "exit" ELSE "test")
  /\ detaching' \in BOOLEAN
  /\ UNCHANGED <<threadcall, object, loads, m_hProc, of, starting, m_pRev, exitEvent, asked, freed,
                 crossed>>

\* Is there a thread to wait for?
Unload ==
  /\ Goes(Host, "idle", IF m_hProc = NoProc THEN "exit" ELSE "test")
  /\ exitEvent' = TRUE /\ detaching' \in BOOLEAN
  /\ UNCHANGED <<threadcall, object, loads, m_hProc, of, starting, m_pRev, asked, freed, crossed>>

\* m_hThread is read again; the thread may have set it to NULL, and NULL is not waited for.
WaitFor ==
  /\ Goes(Host, "test", IF m_hProc = NoProc THEN "exit" ELSE "join")
  /\ starting' = m_hProc                      \* the handle it waits for
  /\ UNCHANGED <<threadcall, object, loads, m_hProc, of, m_pRev, exitEvent, asked, freed,
                 detaching, crossed>>

Joined ==
  /\ starting # NoProc /\ at[starting] = "ended"
  /\ Goes(Host, "join", "exit") /\ starting' = NoProc
  /\ UNCHANGED <<threadcall, object, loads, m_hProc, of, m_pRev, exitEvent, asked, freed,
                 detaching, crossed>>

ExitCall ==
  /\ Goes(Host, "exit", "exiting") /\ Exit(Host)
  /\ UNCHANGED <<object, loads, m_hProc, of, starting, m_pRev, exitEvent, asked, freed, detaching,
                 crossed>>

\* The destructor, after unload.
Delete ==
  /\ caller[Host] = "out"
  /\ Goes(Host, "exiting", "none")
  /\ object' = NULL /\ m_hProc' = NoProc /\ detaching' = FALSE
  /\ freed' = Deleted(m_pRev) /\ m_pRev' = NULL
  /\ UNCHANGED <<threadcall, loads, of, starting, exitEvent, asked, crossed>>

-----------------------------------------------------------------------------
(* ExecuteTortoiseProcThread of p. *)

Steps(p, from, to) ==
  /\ Goes(p, from, to)
  /\ UNCHANGED <<threadcall, object, loads, m_hProc, of, starting, m_pRev, exitEvent, asked,
                 freed, detaching, crossed>>

Before(p) == Goes(p, "begin", "before") /\ SubWCRev(p)
ReadBefore(p) == Steps(p, "readbefore", "create")
CreateProcess(p) == Steps(p, "create", "dialog") \/ Steps(p, "create", "ask")
\* The loop has no other way out than a dialog that was there.
Dialog(p) == Steps(p, "dialog", "wait")
TortoiseEnds(p) == Steps(p, "wait", "ask")

ToldToExit(p) == exitEvent /\ Steps(p, "wait", "ask")
After(p) == Goes(p, "ask", "after") /\ SubWCRev(p)
ReadAfter(p) == Steps(p, "readafter", "null")

Forget(p) ==
  /\ Goes(p, "null", "window")
  /\ m_hProc' = NoProc
  /\ UNCHANGED <<threadcall, object, loads, of, starting, m_pRev, exitEvent, asked, freed,
                 detaching, crossed>>

\* m_hTSVNWindow of the object, which unload waits for no longer.
ForgetWindow(p) == Steps(p, "window", "send")

Locked == detaching /\ at[Host] \in Unloading
Sent(p) == Steps(p, "send", "end")
EndProc(p) == ~Locked /\ Steps(p, "end", "ended")

Host_ == load \/ Info \/ ReadInfo \/ Assign \/ Unload \/ WaitFor \/ Joined \/ ExitCall \/ Delete
         \/ \E p \in Procs : Notify(p)
Proc(p) == Before(p) \/ ReadBefore(p) \/ CreateProcess(p) \/ ToldToExit(p) \/ After(p)
           \/ ReadAfter(p) \/ Forget(p) \/ ForgetWindow(p) \/ Sent(p) \/ EndProc(p)
Asks(c) == CallerStep(c) /\ UNCHANGED tsvn
Serves(t) == ServerStep(t, Locked) /\ UNCHANGED tsvn

Next ==
  \/ Host_
  \/ \E p \in Procs : Proc(p) \/ Dialog(p) \/ TortoiseEnds(p)
  \/ \E c \in Callers : Asks(c) \/ Keep(c)
  \/ \E t \in Servers : Serves(t)

\* Threads go on.  No dialog need appear, TortoiseProc need not end, and nothing but the baseware
\* loads, asks and unloads.
Fairness ==
  /\ WF_vars(ReadInfo) /\ WF_vars(Assign) /\ WF_vars(WaitFor) /\ WF_vars(Joined)
  /\ WF_vars(ExitCall) /\ WF_vars(Delete)
  /\ \A p \in Procs : WF_vars(Proc(p))
  /\ \A c \in Callers : WF_vars(Asks(c)) /\ WF_vars(Keep(c))
  /\ \A t \in Servers : WF_vars(Serves(t))

Spec == Init /\ [][Next]_vars /\ Fairness

-----------------------------------------------------------------------------
(* Properties. *)

\* Every variable stays in its type.
TypeOK ==
  /\ ThreadCallTypeOK
  /\ at \in [Callers -> HostAt \cup ProcAt] /\ of \in [Procs -> Nat]
  /\ at[Host] \in HostAt /\ \A p \in Procs : at[p] \in ProcAt
  /\ object \in Nat /\ loads \in 0..MaxLoads
  /\ m_hProc \in Callers /\ starting \in Callers
  /\ m_pRev \in 0..asked /\ asked \in 0..MaxCalls /\ freed \subseteq 1..asked
  /\ exitEvent \in BOOLEAN /\ detaching \in BOOLEAN /\ crossed \in BOOLEAN

\* Until it has set m_hThread to NULL, a thread of TortoiseProc finds its object there: unload knows
\* of it, from m_hThread, and waits.  The write to m_hTSVNWindow that follows (586) is outside of
\* this: unload no longer waits for it, and the object may be gone.
ObjectOutlivesProc == \A p \in Procs : at[p] \in Running => object # NULL /\ of[p] = object

\* When SubWCRev keeps an answer, CSTC_Call has been carried out for it: the event that told the
\* caller was set for its own call and not by the start of the thread, or for a call before.
CallIsDone ==
  crossed \/ \A c \in Callers : at[c] \in Asking /\ caller[c] = "out" => call[c] \in done

\* Neither CSTC_Call nor who reads an answer is given data that was deleted, and CSTC_Call is called
\* on the object that is loaded.
DataLives ==
  \/ crossed
  \/ /\ \A c \in Callers : at[c] \in Reading => call[c] \notin freed
     /\ \A t \in Servers : server[t] = "call" => serving[t] \notin freed /\ m_call # NULL
                                                 /\ m_call = object

\* No thread of CSThreadCall is left when the DLL has been unloaded.
NoServerLeft ==
  crossed \/ (at[Host] = "none" => \A t \in Servers : server[t] \in {"none", "ended"})

\* SubWCRev returns, if the thread it needs could be started.
CallReturns ==
  \A c \in Callers : at[c] \in Asking ~> at[c] \notin Asking \/ crossed \/ failed

OutOfCalls == IF asked = MaxCalls THEN {"begin", "ask"} ELSE {}

\* unload returns, outside of DllMain, unless TortoiseProc shows no dialog.
UnloadReturns ==
  at[Host] \in Unloading
    ~> \/ at[Host] = "none" \/ crossed \/ failed \/ detaching
       \/ \E p \in Procs : at[p] \in {"dialog"} \cup OutOfCalls

=============================================================================
