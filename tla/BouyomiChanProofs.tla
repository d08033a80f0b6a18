------------------------- MODULE BouyomiChanProofs --------------------------
(***************************************************************************)
(* The safety properties of BouyomiChan for any number of objects and       *)
(* pieces.                                                                  *)
(***************************************************************************)
EXTENDS BouyomiChan, TLAPS

IInv == TypeOK /\ NoLostWakeup /\ InOrder /\ NoThreadInFreedObject

LEMMA InitIInv == Init => IInv
  <1> SUFFICES ASSUME Init
               PROVE  IInv
    OBVIOUS
  <1>1. TypeOK
    <2>1. /\ host \in HostPc /\ worker \in WorkerPc
          /\ count \in BOOLEAN /\ detaching \in BOOLEAN
          /\ thread_event \in BOOLEAN /\ thread_active \in BOOLEAN
          /\ thread_lock \in {"free", "worker"} /\ worker \notin {"drain", "connect"}
      BY DEF Init, HostPc, WorkerPc
    <2>2. /\ todo \in 0 .. MaxPieces /\ loads \in 0 .. MaxLoads /\ thread_queue \in Seq(Nat)
          /\ pushed \in Nat /\ taken \in Nat /\ spoken \in Nat
      BY BoundAssumption DEF Init
    <2> QED
      BY <2>1, <2>2 DEF TypeOK
  <1>2. NoLostWakeup /\ InOrder /\ NoThreadInFreedObject
    BY DEF Init, NoLostWakeup, InOrder, NoThreadInFreedObject, Stopped
  <1> QED
    BY <1>1, <1>2 DEF IInv

(* A step of the host that leaves queue, lock and counters alone.           *)
LEMMA HostKeeps ==
  ASSUME IInv, UNCHANGED <<thread_queue, thread_lock, history>>,
         host' \in HostPc, todo' \in 0 .. MaxPieces, count' \in BOOLEAN,
         detaching' \in BOOLEAN, loads' = loads, thread_event' \in BOOLEAN,
         thread_active' \in BOOLEAN, worker' = worker \/ worker' = "killed"
  PROVE  TypeOK' /\ InOrder'
  <1>1. worker' \in WorkerPc /\ (worker' \in {"drain", "connect"} => thread_lock' = "worker")
    BY DEF IInv, TypeOK, WorkerPc
  <1>2. TypeOK'
    BY <1>1 DEF IInv, TypeOK, history
  <1>3. InOrder'
    BY DEF IInv, InOrder, history
  <1> QED
    BY <1>2, <1>3

(* One piece more at the end of the queue (458-462).                        *)
LEMMA PushIInv == ASSUME IInv, Push PROVE IInv'
  <1>1. /\ host = "push" /\ host' = host /\ todo > 0 /\ todo' = todo - 1 /\ count' = TRUE
        /\ pushed' = pushed + 1 /\ thread_queue' = Append(thread_queue, pushed + 1)
        /\ UNCHANGED <<detaching, loads, worker, thread_event, thread_active, thread_lock,
                       taken, spoken>>
    BY DEF Push
  <1>2. thread_queue \in Seq(Nat) /\ pushed \in Nat /\ taken \in Nat /\ todo \in 0 .. MaxPieces
    BY DEF IInv, TypeOK
  <1>3. thread_queue' \in Seq(Nat) /\ pushed' \in Nat /\ todo' \in 0 .. MaxPieces
    BY <1>1, <1>2, BoundAssumption
  <1>4. count' \in BOOLEAN
    BY <1>1
  <1>5. TypeOK'
    BY <1>1, <1>3, <1>4 DEF IInv, TypeOK
  <1>6. InOrder'
    <2>1. Len(thread_queue') = Len(thread_queue) + 1
      BY <1>1, <1>2
    <2>2. ASSUME NEW i \in DOMAIN thread_queue'
          PROVE  thread_queue'[i] = taken + i
      <3>1. i \in 1 .. Len(thread_queue) + 1
        BY <1>1, <1>2
      <3>2. CASE i = Len(thread_queue) + 1
        BY <1>1, <1>2, <3>2 DEF IInv, InOrder
      <3>3. CASE i # Len(thread_queue) + 1
        <4>1. i \in 1 .. Len(thread_queue) /\ thread_queue'[i] = thread_queue[i]
          BY <1>1, <1>2, <3>1, <3>3
        <4> QED
          BY <1>2, <4>1 DEF IInv, InOrder
      <3> QED
        BY <3>2, <3>3
    <2> QED
      BY <1>1, <1>2, <2>1, <2>2 DEF IInv, InOrder
  <1>7. NoLostWakeup' /\ NoThreadInFreedObject'
    BY <1>1 DEF IInv, NoLostWakeup, NoThreadInFreedObject
  <1> QED
    BY <1>5, <1>6, <1>7 DEF IInv

(* The worker takes the piece at the head (129-131).                        *)
LEMMA TakeIInv == ASSUME IInv, Take PROVE IInv'
  <1>1. /\ worker = "drain" /\ thread_queue # <<>> /\ worker' = "connect"
        /\ thread_queue' = Tail(thread_queue) /\ taken' = Head(thread_queue)
        /\ UNCHANGED <<host, todo, count, detaching, loads, thread_event, thread_active,
                       thread_lock, pushed, spoken>>
    BY DEF Take, hosting
  <1>2. thread_queue \in Seq(Nat) /\ taken \in Nat /\ pushed \in Nat /\ spoken \in Nat
    BY DEF IInv, TypeOK
  <1>3. Len(thread_queue) > 0 /\ taken' = taken + 1
    BY <1>1, <1>2 DEF IInv, InOrder
  <1>4. thread_queue' \in Seq(Nat) /\ taken' \in Nat
    BY <1>1, <1>2, <1>3
  <1>5. TypeOK'
    BY <1>1, <1>4 DEF IInv, TypeOK, WorkerPc
  <1>6. InOrder'
    <2>1. Len(thread_queue') = Len(thread_queue) - 1
      BY <1>1, <1>2
    <2>2. ASSUME NEW i \in DOMAIN thread_queue'
          PROVE  thread_queue'[i] = taken' + i
      <3>1. /\ i \in 1 .. Len(thread_queue) - 1 /\ i + 1 \in 1 .. Len(thread_queue)
            /\ thread_queue'[i] = thread_queue[i + 1]
        BY <1>1, <1>2, <1>4, <2>1
      <3>2. thread_queue[i + 1] = taken + (i + 1)
        BY <1>2, <3>1 DEF IInv, InOrder
      <3> QED
        BY <1>2, <1>3, <3>1, <3>2
    <2>3. pushed' = taken' + Len(thread_queue') /\ spoken' <= taken'
      BY <1>1, <1>2, <1>3, <2>1 DEF IInv, InOrder
    <2> QED
      BY <2>2, <2>3 DEF InOrder
  <1>7. NoLostWakeup' /\ NoThreadInFreedObject'
    BY <1>1 DEF IInv, NoLostWakeup, NoThreadInFreedObject, Stopped
  <1> QED
    BY <1>5, <1>6, <1>7 DEF IInv

LEMMA LoadIInv == ASSUME IInv, load PROVE IInv'
  <1>1. TypeOK'
    <2>1. (/\ host \in HostPc /\ worker \in WorkerPc
           /\ count \in BOOLEAN /\ detaching \in BOOLEAN
           /\ thread_event \in BOOLEAN /\ thread_active \in BOOLEAN
           /\ thread_lock \in {"free", "worker"} /\ worker \notin {"drain", "connect"})'
      BY DEF IInv, TypeOK, load, HostPc, WorkerPc
    <2>2. (/\ todo \in 0 .. MaxPieces /\ loads \in 0 .. MaxLoads /\ thread_queue \in Seq(Nat)
           /\ pushed \in Nat /\ taken \in Nat /\ spoken \in Nat)'
      BY BoundAssumption DEF IInv, TypeOK, load
    <2> QED
      BY <2>1, <2>2 DEF TypeOK
  <1>2. InOrder' /\ NoLostWakeup' /\ NoThreadInFreedObject'
    BY DEF load, InOrder, NoLostWakeup, NoThreadInFreedObject
  <1> QED
    BY <1>1, <1>2 DEF IInv

LEMMA HostIInv ==
  ASSUME IInv,
         \/ \E n \in 0 .. MaxPieces : OnOtherGhostTalk(n)
         \/ \E detach \in BOOLEAN : Unload(detach)
         \/ HostStep
  PROVE  IInv'
  <1>1. ASSUME NEW n \in 0 .. MaxPieces, OnOtherGhostTalk(n)
        PROVE  IInv'
    <2>1. TypeOK' /\ InOrder'
      BY <1>1, HostKeeps DEF OnOtherGhostTalk, shared, IInv, TypeOK, HostPc
    <2>2. NoLostWakeup' /\ NoThreadInFreedObject'
      BY <1>1 DEF OnOtherGhostTalk, shared, IInv, NoLostWakeup, NoThreadInFreedObject
    <2> QED
      BY <2>1, <2>2 DEF IInv
  <1>2. ASSUME NEW detach \in BOOLEAN, Unload(detach)
        PROVE  IInv'
    <2>1. TypeOK' /\ InOrder'
      BY <1>2, HostKeeps DEF Unload, IInv, TypeOK, HostPc
    <2>2. NoLostWakeup' /\ NoThreadInFreedObject'
      BY <1>2 DEF Unload, NoLostWakeup, NoThreadInFreedObject
    <2> QED
      BY <2>1, <2>2 DEF IInv
  <1>3. CASE Push
    BY <1>3, PushIInv
  <1>4. CASE EndPush
    <2>1. TypeOK' /\ InOrder'
      BY <1>4, HostKeeps DEF EndPush, shared, IInv, TypeOK, HostPc
    <2>2. NoLostWakeup' /\ NoThreadInFreedObject'
      BY <1>4 DEF EndPush, shared, IInv, NoLostWakeup, NoThreadInFreedObject
    <2> QED
      BY <2>1, <2>2 DEF IInv
  <1>5. CASE Signal
    <2>1. TypeOK' /\ InOrder'
      BY <1>5, HostKeeps DEF Signal, IInv, TypeOK, HostPc
    <2>2. NoLostWakeup' /\ NoThreadInFreedObject'
      BY <1>5 DEF Signal, NoLostWakeup, NoThreadInFreedObject
    <2> QED
      BY <2>1, <2>2 DEF IInv
  <1>6. CASE Wake
    <2>1. TypeOK' /\ InOrder'
      BY <1>6, HostKeeps DEF Wake, IInv, TypeOK, HostPc
    <2>2. NoLostWakeup' /\ NoThreadInFreedObject'
      BY <1>6 DEF Wake, NoLostWakeup, NoThreadInFreedObject
    <2> QED
      BY <2>1, <2>2 DEF IInv
  <1>7. CASE Joined
    <2>1. TypeOK' /\ InOrder'
      BY <1>7, HostKeeps DEF Joined, shared, IInv, TypeOK, HostPc
    <2>2. NoLostWakeup' /\ NoThreadInFreedObject'
      BY <1>7 DEF Joined, shared, NoLostWakeup, NoThreadInFreedObject, Stopped
    <2> QED
      BY <2>1, <2>2 DEF IInv
  <1>8. CASE JoinTimeout
    <2>1. TypeOK' /\ InOrder'
      BY <1>8, HostKeeps DEF JoinTimeout, shared, IInv, TypeOK, HostPc
    <2>2. NoLostWakeup' /\ NoThreadInFreedObject'
      BY <1>8 DEF JoinTimeout, shared, NoLostWakeup, NoThreadInFreedObject, Stopped
    <2> QED
      BY <2>1, <2>2 DEF IInv
  <1> QED
    BY <1>1, <1>2, <1>3, <1>4, <1>5, <1>6, <1>7, <1>8 DEF HostStep

LEMMA WorkerIInv == ASSUME IInv, WorkerStep PROVE IInv'
  <1>1. CASE While
    <2>1. /\ worker = "while" /\ worker' \in {"wait", "end"}
          /\ UNCHANGED <<hosting, shared, history>>
      BY <1>1 DEF While
    <2>2. TypeOK'
      BY <2>1 DEF IInv, TypeOK, WorkerPc, hosting, shared, history
    <2>3. InOrder' /\ NoLostWakeup' /\ NoThreadInFreedObject'
      BY <2>1 DEF IInv, InOrder, NoLostWakeup, NoThreadInFreedObject, Stopped, hosting, shared,
                  history
    <2> QED
      BY <2>2, <2>3 DEF IInv
  <1>2. CASE Wait
    <2>1. TypeOK'
      BY <1>2 DEF Wait, IInv, TypeOK, WorkerPc, hosting, history
    <2>2. InOrder' /\ NoLostWakeup' /\ NoThreadInFreedObject'
      BY <1>2 DEF Wait, IInv, InOrder, NoLostWakeup, NoThreadInFreedObject, Stopped, hosting,
                  history
    <2> QED
      BY <2>1, <2>2 DEF IInv
  <1>3. CASE Enter
    <2>1. TypeOK'
      BY <1>3 DEF Enter, IInv, TypeOK, WorkerPc, hosting, history
    <2>2. InOrder' /\ NoLostWakeup' /\ NoThreadInFreedObject'
      BY <1>3 DEF Enter, IInv, InOrder, NoLostWakeup, NoThreadInFreedObject, Stopped, hosting,
                  history
    <2> QED
      BY <2>1, <2>2 DEF IInv
  <1>4. CASE Take
    BY <1>4, TakeIInv
  <1>5. ASSUME NEW c \in BOOLEAN, Send(c)
        PROVE  IInv'
    <2>1. /\ worker = "connect" /\ worker' = "drain" /\ spoken' \in {taken, spoken}
          /\ UNCHANGED <<hosting, shared, pushed, taken>>
      BY <1>5 DEF Send
    <2>2. TypeOK'
      BY <2>1 DEF IInv, TypeOK, WorkerPc, hosting, shared
    <2>3. InOrder'
      BY <2>1 DEF IInv, TypeOK, InOrder, shared
    <2>4. NoLostWakeup' /\ NoThreadInFreedObject'
      BY <2>1 DEF IInv, NoLostWakeup, NoThreadInFreedObject, Stopped, hosting, shared
    <2> QED
      BY <2>2, <2>3, <2>4 DEF IInv
  <1>6. CASE Leave
    <2>1. TypeOK'
      BY <1>6 DEF Leave, IInv, TypeOK, WorkerPc, hosting, history
    <2>2. InOrder' /\ NoLostWakeup' /\ NoThreadInFreedObject'
      BY <1>6 DEF Leave, IInv, InOrder, NoLostWakeup, NoThreadInFreedObject, Stopped, hosting,
                  history
    <2> QED
      BY <2>1, <2>2 DEF IInv
  <1>7. CASE End
    <2>1. TypeOK'
      BY <1>7 DEF End, IInv, TypeOK, WorkerPc, hosting, shared, history
    <2>2. InOrder' /\ NoLostWakeup' /\ NoThreadInFreedObject'
      BY <1>7 DEF End, IInv, InOrder, NoLostWakeup, NoThreadInFreedObject, Stopped, hosting,
                  shared, history
    <2> QED
      BY <2>1, <2>2 DEF IInv
  <1> QED
    BY <1>1, <1>2, <1>3, <1>4, <1>5, <1>6, <1>7 DEF WorkerStep

LEMMA NextIInv == IInv /\ [Next]_vars => IInv'
  <1> SUFFICES ASSUME IInv, [Next]_vars
               PROVE  IInv'
    OBVIOUS
  <1>1. CASE load
    BY <1>1, LoadIInv
  <1>2. CASE \/ \E n \in 0 .. MaxPieces : OnOtherGhostTalk(n)
             \/ \E detach \in BOOLEAN : Unload(detach)
             \/ HostStep
    BY <1>2, HostIInv
  <1>3. CASE WorkerStep
    BY <1>3, WorkerIInv
  <1>4. CASE UNCHANGED vars
    <2>1. TypeOK'
      BY <1>4 DEF vars, shared, history, IInv, TypeOK
    <2>2. NoLostWakeup' /\ InOrder' /\ NoThreadInFreedObject'
      BY <1>4 DEF vars, IInv, NoLostWakeup, InOrder, NoThreadInFreedObject
    <2> QED
      BY <2>1, <2>2 DEF IInv
  <1> QED
    BY <1>1, <1>2, <1>3, <1>4 DEF Next

LEMMA Invariant == Spec => []IInv
  BY InitIInv, NextIInv, PTL DEF Spec

(* The variables keep their types, and the worker sends with the lock.      *)
THEOREM TypeCorrect == Spec => []TypeOK
  <1>1. IInv => TypeOK
    BY DEF IInv
  <1> QED
    BY Invariant, <1>1, PTL

(* No piece is left with a sleeping worker and nobody to wake it            *)
(* (bouyomichan.cpp 119-131, 445-471).                                      *)
THEOREM WakeupsAreKept == Spec => []NoLostWakeup
  <1>1. IInv => NoLostWakeup
    BY DEF IInv
  <1> QED
    BY Invariant, <1>1, PTL

(* The pieces are taken in the order they were queued, each once            *)
(* (bouyomichan.cpp 129-131, 458-462).                                      *)
THEOREM PiecesInOrder == Spec => []InOrder
  <1>1. IInv => InOrder
    BY DEF IInv
  <1> QED
    BY Invariant, <1>1, PTL

(* No thread runs in a deleted object (bouyomichan.cpp 82-100).             *)
THEOREM ObjectOutlivesThread == Spec => []NoThreadInFreedObject
  <1>1. IInv => NoThreadInFreedObject
    BY DEF IInv
  <1> QED
    BY Invariant, <1>1, PTL

=============================================================================
