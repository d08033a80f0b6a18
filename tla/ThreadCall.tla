----------------------------- MODULE ThreadCall ------------------------------
(***************************************************************************)
(* CSThreadCall (util/cs_threadcall.cpp): a thread that carries out calls   *)
(* for others.  Call posts a message to it and waits for m_hEvent, the one  *)
(* manual-reset event that also tells Start that the thread has begun.      *)
(*                                                                          *)
(* A call is a number, an object of class CSThreadCallBase too.  Every Call *)
(* of the repository is synchronous.                                        *)
(***************************************************************************)
EXTENDS Naturals, Sequences

CONSTANTS Callers,   \* the threads that use it
          Servers    \* the threads it starts, one after the other

ASSUME ServerAssumption == Servers \subseteq Nat \ {0}

VARIABLES m_hThread,    \* 0 is NULL
          m_ThreadID,
          m_hEvent,
          m_call,       \* the object called, 0 is NULL
          server,       \* server[t]: where ThreadProc of t is
          queue,        \* queue[t]: its messages
          serving,      \* serving[t]: the call it is in
          caller,       \* caller[c]: where c is in Start, Call and Exit
          call,         \* call[c]: the number of its call
          done,         \* history: the calls carried out
          failed        \* history: has a _beginthread failed?

threadcall == <<m_hThread, m_ThreadID, m_hEvent, m_call, server, queue, serving, caller, call,
                done, failed>>

NULL == 0
CallerPc == {"out", "start", "spawn", "toawait", "await", "started", "post", "towait", "wait",
             "answered", "join"}
ServerPc == {"none", "begin", "ready", "get", "call", "signal", "bye", "end", "ended"}
Listening == {"ready", "get", "call", "signal"}     \* a message posted is received
Message == [kind : {"START", "CALL", "QUIT"}, of : Nat]

ThreadCallInit ==
  /\ m_hThread = NULL /\ m_ThreadID = NULL /\ m_hEvent = FALSE /\ m_call = NULL
  /\ server = [t \in Servers |-> "none"] /\ queue = [t \in Servers |-> <<>>]
  /\ serving = [t \in Servers |-> 0]
  /\ caller = [c \in Callers |-> "out"] /\ call = [c \in Callers |-> 0]
  /\ done = {} /\ failed = FALSE

-----------------------------------------------------------------------------
(* Windows. *)

Moved(c, to) == caller' = [caller EXCEPT ![c] = to]

\* Who waits is let go at once, even if the event is reset before it runs.
SetEvent ==
  /\ m_hEvent' = TRUE
  /\ caller' = [c \in Callers |-> CASE caller[c] = "await" -> "started"
                                    [] caller[c] = "wait" -> "answered"
                                    [] OTHER -> caller[c]]

Received(t) == t \in Servers /\ server[t] \in Listening
PostThreadMessage(t, kind, of) ==
  queue' = IF Received(t) THEN [queue EXCEPT ![t] = Append(@, [kind |-> kind, of |-> of])]
                          ELSE queue

-----------------------------------------------------------------------------
(* Set, Call, Exit, on thread c. *)

Set(object) ==
  /\ IF m_hThread # NULL THEN PostThreadMessage(m_ThreadID, "START", object) /\ m_call' = m_call
                         ELSE m_call' = object /\ queue' = queue
  /\ UNCHANGED <<m_hThread, m_ThreadID, m_hEvent, server, serving, caller, call, done, failed>>

Call(c, n) ==
  /\ caller[c] = "out"
  /\ Moved(c, "start") /\ call' = [call EXCEPT ![c] = n]
  /\ UNCHANGED <<m_hThread, m_ThreadID, m_hEvent, m_call, server, queue, serving, done, failed>>

Start(c) ==
  /\ caller[c] = "start"
  /\ Moved(c, IF m_hThread = NULL THEN "spawn" ELSE "post")
  /\ UNCHANGED <<m_hThread, m_ThreadID, m_hEvent, m_call, server, queue, serving, call, done,
                 failed>>

Spawn(c, t) ==
  /\ caller[c] = "spawn" /\ server[t] = "none"
  /\ m_hThread' = t /\ server' = [server EXCEPT ![t] = "begin"]
  /\ Moved(c, "toawait")
  /\ UNCHANGED <<m_ThreadID, m_hEvent, m_call, queue, serving, call, done, failed>>

\* _beginthread fails; Start waits all the same.
SpawnFails(c) ==
  /\ caller[c] = "spawn"
  /\ failed' = TRUE
  /\ Moved(c, "toawait")
  /\ UNCHANGED <<m_hThread, m_ThreadID, m_hEvent, m_call, server, queue, serving, call, done>>

Await(c) ==
  /\ caller[c] = "toawait"
  /\ Moved(c, IF m_hEvent THEN "started" ELSE "await")
  /\ UNCHANGED <<m_hThread, m_ThreadID, m_hEvent, m_call, server, queue, serving, call, done,
                 failed>>

\* A bug for a mutant: the event stays set after the thread has begun.
StartedUnreset(c) ==
  /\ caller[c] = "started"
  /\ Moved(c, "post")
  /\ UNCHANGED <<m_hThread, m_ThreadID, m_hEvent, m_call, server, queue, serving, call, done,
                 failed>>

Started(c) ==
  /\ caller[c] = "started"
  /\ m_hEvent' = FALSE
  /\ Moved(c, "post")
  /\ UNCHANGED <<m_hThread, m_ThreadID, m_call, server, queue, serving, call, done, failed>>

Post(c) ==
  /\ caller[c] = "post"
  /\ PostThreadMessage(m_ThreadID, "CALL", call[c])
  /\ Moved(c, IF Received(m_ThreadID) THEN "towait" ELSE "answered")
  /\ UNCHANGED <<m_hThread, m_ThreadID, m_hEvent, m_call, server, serving, call, done, failed>>

Wait(c) ==
  /\ caller[c] = "towait"
  /\ Moved(c, IF m_hEvent THEN "answered" ELSE "wait")
  /\ UNCHANGED <<m_hThread, m_ThreadID, m_hEvent, m_call, server, queue, serving, call, done,
                 failed>>

Return(c) ==
  /\ caller[c] = "answered"
  /\ m_hEvent' = FALSE
  /\ Moved(c, "out")
  /\ UNCHANGED <<m_hThread, m_ThreadID, m_call, server, queue, serving, call, done, failed>>

Exit(c) ==
  /\ caller[c] = "out"
  /\ IF m_hThread = NULL THEN UNCHANGED <<caller, queue>>
                         ELSE Moved(c, "join") /\ PostThreadMessage(m_ThreadID, "QUIT", 0)
  /\ UNCHANGED <<m_hThread, m_ThreadID, m_hEvent, m_call, server, serving, call, done, failed>>

\* A bug for a mutant: the thread is told to go, and not waited for.
JoinUnwaited(c) ==
  /\ caller[c] = "join"
  /\ m_ThreadID' = NULL /\ m_hThread' = NULL
  /\ Moved(c, "out")
  /\ UNCHANGED <<m_hEvent, m_call, server, queue, serving, call, done, failed>>

Join(c) ==
  /\ caller[c] = "join" /\ server[m_hThread] = "ended"
  /\ m_ThreadID' = NULL /\ m_hThread' = NULL
  /\ Moved(c, "out")
  /\ UNCHANGED <<m_hEvent, m_call, server, queue, serving, call, done, failed>>

-----------------------------------------------------------------------------
(* ThreadProc of t. *)

Gone(t, from, to) == server[t] = from /\ server' = [server EXCEPT ![t] = to]

Begin(t) ==
  /\ Gone(t, "begin", "ready") /\ m_ThreadID' = t
  /\ UNCHANGED <<m_hThread, m_hEvent, m_call, queue, serving, caller, call, done, failed>>

\* A bug for a mutant: nobody is told.
ReadyUntold(t) ==
  /\ Gone(t, "ready", "get")
  /\ UNCHANGED <<m_hThread, m_ThreadID, m_hEvent, m_call, queue, serving, caller, call, done,
                 failed>>

\* SetEvent, and CSTC_Start of an object that is there already.
Ready(t) ==
  /\ Gone(t, "ready", "get") /\ SetEvent
  /\ UNCHANGED <<m_hThread, m_ThreadID, m_call, queue, serving, call, done, failed>>

\* GetMessage.  A new object takes the place of the old one.
Get(t) ==
  /\ server[t] = "get" /\ queue[t] # <<>>
  /\ queue' = [queue EXCEPT ![t] = Tail(@)]
  /\ LET m == Head(queue[t])
     IN  /\ server' = [server EXCEPT ![t] = CASE m.kind = "START" -> "get"
                                              [] m.kind = "CALL" -> "call"
                                              [] m.kind = "QUIT" -> "bye"]
         /\ m_call' = IF m.kind = "START" THEN m.of ELSE m_call
         /\ serving' = IF m.kind = "CALL" THEN [serving EXCEPT ![t] = m.of] ELSE serving
  /\ UNCHANGED <<m_hThread, m_ThreadID, m_hEvent, caller, call, done, failed>>

CSTC_Call(t) ==
  /\ Gone(t, "call", "signal")
  /\ done' = done \cup {serving[t]}
  /\ UNCHANGED <<m_hThread, m_ThreadID, m_hEvent, m_call, queue, serving, caller, call, failed>>

Signal(t) ==
  /\ Gone(t, "signal", "get") /\ SetEvent
  /\ UNCHANGED <<m_hThread, m_ThreadID, m_call, queue, serving, call, done, failed>>

\* CSTC_Exit.
Bye(t) ==
  /\ Gone(t, "bye", "end")
  /\ m_call' = NULL
  /\ UNCHANGED <<m_hThread, m_ThreadID, m_hEvent, queue, serving, caller, call, done, failed>>

\* locked: someone else has the loader lock, without which no thread ends.
End(t, locked) ==
  /\ Gone(t, "end", "ended") /\ ~locked
  /\ UNCHANGED <<m_hThread, m_ThreadID, m_hEvent, m_call, queue, serving, caller, call, done,
                 failed>>

CallerStep(c) == \/ Start(c) \/ SpawnFails(c) \/ Await(c) \/ Started(c) \/ Post(c) \/ Wait(c)
                 \/ Return(c) \/ Join(c) \/ \E t \in Servers : Spawn(c, t)
ServerStep(t, locked) ==
  Begin(t) \/ Ready(t) \/ Get(t) \/ CSTC_Call(t) \/ Signal(t) \/ Bye(t) \/ End(t, locked)

ThreadCallTypeOK ==
  /\ m_hThread \in Servers \cup {NULL} /\ m_ThreadID \in Servers \cup {NULL}
  /\ m_hEvent \in BOOLEAN /\ m_call \in Nat
  /\ server \in [Servers -> ServerPc] /\ queue \in [Servers -> Seq(Message)]
  /\ serving \in [Servers -> Nat]
  /\ caller \in [Callers -> CallerPc] /\ call \in [Callers -> Nat]
  /\ done \subseteq Nat /\ failed \in BOOLEAN

=============================================================================
