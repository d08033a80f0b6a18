---------------------------- MODULE BouyomiChan -----------------------------
(***************************************************************************)
(* The BouyomiChan plugin (impl_plugin/BouyomiChan/bouyomichan.cpp): the    *)
(* host's thread cuts what a ghost says into pieces and queues them, a      *)
(* worker sends each to the speech program, holding the lock of the queue   *)
(* while it does.  A piece is its number; the speech program is external    *)
(* and a connection to it succeeds or fails, but always comes back.         *)
(***************************************************************************)
EXTENDS Integers, Sequences

CONSTANTS MaxLoads,   \* bound: objects, one after the other
          MaxPieces   \* bound: pieces queued in one object

ASSUME BoundAssumption == MaxLoads \in Nat /\ MaxPieces \in Nat

VARIABLES host,           \* where the host's thread is
          todo,           \* pieces it has still to queue
          count,          \* of the local of exec: did it queue one?
          detaching,      \* does unload run in DllMain, with the loader lock held?
          loads,          \* objects so far
          worker,         \* where ThreadProc is
          thread_queue,
          thread_event,   \* an auto-reset event
          thread_active,
          thread_lock,    \* "free", or who is in it
          pushed,         \* history: pieces queued
          taken,          \* history: pieces popped
          spoken          \* history: the piece sent last, 0 is none

vars == <<host, todo, count, detaching, loads, worker, thread_queue, thread_event,
          thread_active, thread_lock, pushed, taken, spoken>>
shared  == <<thread_queue, thread_event, thread_active, thread_lock>>
history == <<pushed, taken, spoken>>
hosting == <<host, todo, count, detaching, loads>>

HostPc   == {"none", "idle", "push", "signal", "wake", "join"}
WorkerPc == {"none", "while", "wait", "enter", "drain", "connect", "end", "ended", "killed"}
Stopped  == {"none", "ended", "killed"}

Init ==
  /\ host = "none" /\ todo = 0 /\ count = FALSE /\ detaching = FALSE /\ loads = 0
  /\ worker = "none"
  /\ thread_queue = <<>> /\ thread_event = FALSE /\ thread_active = TRUE
  /\ thread_lock = "free"
  /\ pushed = 0 /\ taken = 0 /\ spoken = 0

-----------------------------------------------------------------------------
(* The host's thread: load, exec, unload. *)

\* A new object with a queue, an event and a thread of its own.
load ==
  /\ host = "none" /\ loads < MaxLoads
  /\ host' = "idle" /\ loads' = loads + 1
  /\ worker' = "while"
  /\ thread_queue' = <<>> /\ thread_event' = FALSE /\ thread_active' = TRUE
  /\ thread_lock' = "free"
  /\ pushed' = 0 /\ taken' = 0 /\ spoken' = 0
  /\ UNCHANGED <<todo, count, detaching>>

\* OnOtherGhostTalk while the speech program runs; n: the pieces with a text.
OnOtherGhostTalk(n) ==
  /\ host = "idle" /\ pushed + n <= MaxPieces
  /\ host' = "push" /\ todo' = n /\ count' = FALSE
  /\ UNCHANGED <<detaching, loads, worker, shared, history>>

\* One piece, in a block of the lock.
Push ==
  /\ host = "push" /\ todo > 0 /\ thread_lock = "free"
  /\ pushed' = pushed + 1
  /\ thread_queue' = Append(thread_queue, pushed')
  /\ todo' = todo - 1 /\ count' = TRUE
  /\ UNCHANGED <<host, detaching, loads, worker, thread_event, thread_active, thread_lock,
                 taken, spoken>>

\* The script is at its end.
EndPush ==
  /\ host = "push" /\ todo = 0
  /\ host' = IF count THEN "signal" ELSE "idle"
  /\ UNCHANGED <<todo, count, detaching, loads, worker, shared, history>>

Signal ==
  /\ host = "signal"
  /\ thread_event' = TRUE
  /\ host' = "idle"
  /\ UNCHANGED <<todo, count, detaching, loads, worker, thread_queue, thread_active,
                 thread_lock, history>>

\* unload(), by the host's call or from DllMain.
Unload(detach) ==
  /\ host = "idle"
  /\ host' = "wake" /\ detaching' = detach
  /\ thread_active' = FALSE
  /\ UNCHANGED <<todo, count, loads, worker, thread_queue, thread_event, thread_lock, history>>

Wake ==
  /\ host = "wake"
  /\ host' = "join"
  /\ thread_event' = TRUE
  /\ UNCHANGED <<todo, count, detaching, loads, worker, thread_queue, thread_active,
                 thread_lock, history>>

\* The wait ends with the thread; the handles are closed, the object deleted.
Joined ==
  /\ host = "join" /\ worker = "ended"
  /\ host' = "none"
  /\ UNCHANGED <<todo, count, detaching, loads, worker, shared, history>>

\* A bug for a mutant: a late thread is left alone.
JoinTimeoutLeaves ==
  /\ host = "join" /\ worker # "ended"
  /\ host' = "none"
  /\ UNCHANGED <<todo, count, detaching, loads, worker, shared, history>>

\* A bug for a mutant: the wait has no end.
JoinForever == FALSE /\ UNCHANGED vars

\* The thread is not there within 5000 ms and is killed wherever it is.
JoinTimeout ==
  /\ host = "join" /\ worker # "ended"
  /\ host' = "none" /\ worker' = "killed"
  /\ UNCHANGED <<todo, count, detaching, loads, shared, history>>

-----------------------------------------------------------------------------
(* ThreadProc. *)

\* A bug for a mutant: the event is reset by hand, after the lock is left.
WhileResets ==
  /\ worker = "while"
  /\ worker' = IF thread_active THEN "wait" ELSE "end"
  /\ thread_event' = FALSE
  /\ UNCHANGED <<hosting, thread_queue, thread_active, thread_lock, history>>

While ==
  /\ worker = "while"
  /\ worker' = IF thread_active THEN "wait" ELSE "end"
  /\ UNCHANGED <<hosting, shared, history>>

Wait ==
  /\ worker = "wait" /\ thread_event
  /\ thread_event' = FALSE
  /\ worker' = "enter"
  /\ UNCHANGED <<hosting, thread_queue, thread_active, thread_lock, history>>

\* A bug for a mutant: the lock is forgotten.
EnterUnlocked ==
  /\ worker = "enter" /\ thread_lock = "free"
  /\ worker' = "drain"
  /\ UNCHANGED <<hosting, shared, history>>

Enter ==
  /\ worker = "enter" /\ thread_lock = "free"
  /\ thread_lock' = "worker"
  /\ worker' = "drain"
  /\ UNCHANGED <<hosting, thread_queue, thread_event, thread_active, history>>

\* A bug for a mutant: the newest piece first.
TakeLast ==
  /\ worker = "drain" /\ thread_queue # <<>> /\ thread_active
  /\ thread_queue' = SubSeq(thread_queue, 1, Len(thread_queue) - 1)
  /\ taken' = taken + 1
  /\ worker' = "connect"
  /\ UNCHANGED <<hosting, thread_event, thread_active, thread_lock, pushed, spoken>>

Take ==
  /\ worker = "drain" /\ thread_queue # <<>> /\ thread_active
  /\ thread_queue' = Tail(thread_queue)
  /\ taken' = Head(thread_queue)
  /\ worker' = "connect"
  /\ UNCHANGED <<hosting, thread_event, thread_active, thread_lock, pushed, spoken>>

\* The piece is sent, or lost when there is no socket or no connection.
Send(connects) ==
  /\ worker = "connect"
  /\ spoken' = IF connects THEN taken ELSE spoken
  /\ worker' = "drain"
  /\ UNCHANGED <<hosting, shared, pushed, taken>>

\* A bug for a mutant: the lock is never left.
LeaveLocked ==
  /\ worker = "drain" /\ (thread_queue = <<>> \/ ~thread_active)
  /\ worker' = "while"
  /\ UNCHANGED <<hosting, shared, history>>

\* Out of the block, and of the lock.
Leave ==
  /\ worker = "drain" /\ (thread_queue = <<>> \/ ~thread_active)
  /\ thread_lock' = "free"
  /\ worker' = "while"
  /\ UNCHANGED <<hosting, thread_queue, thread_event, thread_active, history>>

\* A thread that ends needs the loader lock.
End ==
  /\ worker = "end" /\ ~(detaching /\ host \in {"wake", "join"})
  /\ worker' = "ended"
  /\ UNCHANGED <<hosting, shared, history>>

-----------------------------------------------------------------------------

HostStep == Push \/ EndPush \/ Signal \/ Wake \/ Joined \/ JoinTimeout
WorkerStep == While \/ Wait \/ Enter \/ Take \/ (\E c \in BOOLEAN : Send(c)) \/ Leave \/ End

Next == \/ load
        \/ \E n \in 0 .. MaxPieces : OnOtherGhostTalk(n)
        \/ \E detach \in BOOLEAN : Unload(detach)
        \/ HostStep \/ WorkerStep

\* The threads run; nobody has to load, talk or unload.
Fairness == WF_vars(HostStep) /\ WF_vars(WorkerStep)

Spec == Init /\ [][Next]_vars /\ Fairness

-----------------------------------------------------------------------------
(* Properties. *)

TypeOK ==
  /\ host \in HostPc /\ worker \in WorkerPc
  /\ todo \in 0 .. MaxPieces /\ count \in BOOLEAN /\ detaching \in BOOLEAN
  /\ loads \in 0 .. MaxLoads
  /\ thread_queue \in Seq(Nat)
  /\ thread_event \in BOOLEAN /\ thread_active \in BOOLEAN
  /\ thread_lock \in {"free", "worker"}
  /\ pushed \in Nat /\ taken \in Nat /\ spoken \in Nat
  /\ worker \in {"drain", "connect"} => thread_lock = "worker"

(***************************************************************************)
(* The worker never sleeps on a piece: while it waits, or is about to, and  *)
(* the queue is not empty, the event is set or exec will still set it.      *)
(* exec fills the queue piece by piece and sets the event after the last,   *)
(* outside the lock (445-471, 119-131).                                     *)
(***************************************************************************)
NoLostWakeup ==
  (thread_queue # <<>> /\ thread_active /\ worker \in {"while", "wait"}) =>
    thread_event \/ (host = "push" /\ count) \/ host = "signal"

(***************************************************************************)
(* What is queued are the pieces after the one taken last, in the order the *)
(* ghost said them: none is taken twice, skipped or overtaken (129-131,     *)
(* 458-462).                                                                *)
(***************************************************************************)
InOrder ==
  /\ pushed = taken + Len(thread_queue)
  /\ \A i \in DOMAIN thread_queue : thread_queue[i] = taken + i
  /\ spoken <= taken

(***************************************************************************)
(* When the object is deleted no thread runs in it (82-100).                *)
(***************************************************************************)
NoThreadInFreedObject == host = "none" => worker \in Stopped

(***************************************************************************)
(* exec comes back to the host, although it waits for a lock that the       *)
(* worker holds while it talks to the network (124-183, 459).               *)
(***************************************************************************)
TalkReturns == (host = "push") ~> (host = "idle")

(***************************************************************************)
(* unload comes back, also from DllMain, where the worker cannot end (87).  *)
(***************************************************************************)
UnloadReturns == (host \in {"wake", "join"}) ~> (host = "none")

(***************************************************************************)
(* Every piece is taken, unless the plugin is unloaded first.               *)
(***************************************************************************)
EveryPieceTaken ==
  \A n \in 1 .. MaxPieces : (pushed >= n) ~> (taken >= n \/ ~thread_active)

=============================================================================
