---------------------------- MODULE SharedValue -----------------------------
(***************************************************************************)
(* The shared value plugin (impl_plugin/shared_value/shared_value.cpp): its *)
(* values in memory, values.dat, and the requests of its exec.  When        *)
(* OnSecondChange saves is the matter of SharedValueTimer; here it may.     *)
(*                                                                          *)
(* A line of the file is its tag and text after decoding; a line torn       *)
(* inside the tag has no tag.  A missing and an empty file are both <<>>.   *)
(***************************************************************************)
EXTENDS Naturals, SequencesExt

CONSTANTS Ghosts, Keys, Texts, Empty, Fold, Trunc, Cut, Batches, Queries,  \* see SharedStore
          MaxWrites,     \* bound: requests that write
          MaxFailures    \* bound: crashes, saves that stop short, loads that do not open the file

ASSUME TextAssumption ==
  /\ Empty \in Texts /\ Ghosts \cup Keys \subseteq Texts
  /\ Fold \in [Texts -> Texts] /\ Trunc \in [Texts -> Texts] /\ Cut \in [Texts -> SUBSET Texts]
  /\ \A t \in Texts : /\ Fold[Fold[t]] = Fold[t] /\ (Fold[t] = Empty <=> t = Empty)
                      /\ Trunc[Trunc[t]] = Trunc[t] /\ (Trunc[t] = Empty <=> t = Empty)

\* The names of ghosts and variables fit on a line, in any spelling.
ASSUME NameAssumption ==
  \A t \in Texts : Fold[t] \in {Fold[n] : n \in Ghosts \cup Keys} => Trunc[t] = t

ASSUME InputAssumption ==
  /\ \A b \in Batches : b # <<>> /\ b \in Seq([name : Keys, value : Texts])
  /\ \A q \in Queries : q # <<>> /\ q \in Seq(Keys)
  /\ MaxWrites \in Nat /\ MaxFailures \in Nat

VARIABLES up,              \* is there an object?
          m_ghost_values,  \* its areas: [ghost, element], element of [name, value]
          file,            \* the lines of values.dat
          reply,           \* [kind, of]: the last answer, of its pairs in order
          saved, whole,    \* history: what was saved last, and if to the end
          writes, failures

vars == <<up, m_ghost_values, file, reply, saved, whole, writes, failures>>

NoReply == [kind |-> "none", of |-> <<>>]
Same(s, t) == Fold[s] = Fold[t]      \* wcsicmp(s, t) == 0

-----------------------------------------------------------------------------
(* CSharedValueGhost and FindGhost. *)

\* A bug for a mutant: case counts.
FindSpelled(e, n) == SelectInSeq(e, LAMBDA x : x.name = n)

Find(e, n) == SelectInSeq(e, LAMBDA x : Same(x.name, n))     \* 0: none

FindGhost(m, g) == SelectInSeq(m, LAMBDA x : Same(x.ghost, g))

Get(e, n) == IF Find(e, n) = 0 THEN Empty ELSE e[Find(e, n)].value

\* An empty value erases.
Add(e, n, v) ==
  LET i == Find(e, n)
  IN  CASE i = 0 /\ v = Empty -> e
        [] i = 0 /\ v # Empty -> Append(e, [name |-> n, value |-> v])
        [] i # 0 /\ v = Empty -> RemoveAt(e, i)
        [] i # 0 /\ v # Empty -> [e EXCEPT ![i].value = v]

\* The area of g, made when there is none.
WithGhost(m, g) == IF FindGhost(m, g) # 0 THEN m ELSE Append(m, [ghost |-> g, element |-> <<>>])

AddTo(m, g, n, v) ==
  LET made == WithGhost(m, g)
  IN  [made EXCEPT ![FindGhost(made, g)].element = Add(@, n, v)]

\* The areas when i pairs of the batch are in.
Batch(m, g, b) ==
  LET areas[i \in 0 .. Len(b)] ==
        IF i = 0 THEN WithGhost(m, g) ELSE AddTo(areas[i - 1], g, b[i].name, b[i].value)
  IN  areas

AddBatch(m, g, b) == Batch(m, g, b)[Len(b)]

-----------------------------------------------------------------------------
(* values.dat. *)

Line(tag, t) == [tag |-> tag, text |-> Trunc[t]]

GhostLines(a) ==
  IF a.element = <<>> THEN <<>>
  ELSE <<Line("GHOST*", a.ghost)>>
       \o FlattenSeq([i \in DOMAIN a.element |->
                        <<Line("NAME_*", a.element[i].name), Line("VALUE*", a.element[i].value)>>])

SaveLines(m) ==
  <<Line("SVD2", Empty)>> \o FlattenSeq([i \in DOMAIN m |-> GhostLines(m[i])])

\* A file that stops somewhere: after a line, or inside one.
TornLine(l) == {[tag |-> "none", text |-> Empty]} \cup
               (IF l.tag = "SVD2" THEN {} ELSE {[l EXCEPT !.text = t] : t \in Cut[l.text]})

TornFiles(f) ==
  {SubSeq(f, 1, n) : n \in 0 .. Len(f) - 1}
  \cup UNION {{Append(SubSeq(f, 1, n - 1), l) : l \in TornLine(f[n])} : n \in DOMAIN f}

\* A bug for a mutant: the first ghost of the file gets every element.
ReadLineKeepsGhost(s, l) ==
  CASE l.tag = "GHOST*" ->
         [s EXCEPT !.values = WithGhost(@, l.text),
                   !.ghost = IF @ = 0 THEN FindGhost(WithGhost(s.values, l.text), l.text) ELSE @]
    [] l.tag = "NAME_*" -> [s EXCEPT !.name = l.text]
    [] l.tag = "VALUE*" /\ s.ghost # 0 /\ s.name # Empty ->
         [s EXCEPT !.values[s.ghost].element = Add(@, s.name, l.text), !.name = Empty]
    [] OTHER -> s

\* The loop of load(); ghost: the place of pGhost, 0 is NULL.
ReadLine(s, l) ==
  CASE l.tag = "GHOST*" ->
         LET made == WithGhost(s.values, l.text)
         IN  [s EXCEPT !.values = made, !.ghost = FindGhost(made, l.text)]
    [] l.tag = "NAME_*" /\ s.ghost # 0 /\ s.name # Empty ->
         [s EXCEPT !.values[s.ghost].element = Add(@, s.name, Empty), !.name = l.text]
    [] l.tag = "NAME_*" /\ ~(s.ghost # 0 /\ s.name # Empty) -> [s EXCEPT !.name = l.text]
    [] l.tag = "VALUE*" /\ s.ghost # 0 /\ s.name # Empty ->
         [s EXCEPT !.values[s.ghost].element = Add(@, s.name, l.text), !.name = Empty]
    [] OTHER -> s

\* What it has when i lines are read, the header being the first.
Read(f) ==
  LET after[i \in 1 .. Len(f)] ==
        IF i = 1 THEN [values |-> <<>>, ghost |-> 0, name |-> Empty]
        ELSE ReadLine(after[i - 1], f[i])
  IN  after

LoadLines(f) == IF f = <<>> \/ f[1].tag # "SVD2" THEN <<>> ELSE Read(f)[Len(f)].values

-----------------------------------------------------------------------------
(* The plugin and its host. *)

Init ==
  /\ up = FALSE /\ m_ghost_values = <<>> /\ file = <<>> /\ reply = NoReply
  /\ saved = <<>> /\ whole = TRUE
  /\ writes = 0 /\ failures = 0

\* load(): false when the file does not open or has no header; the host may go on or unload.
load(opens) ==
  /\ ~up /\ up' = TRUE
  /\ m_ghost_values' = IF opens THEN LoadLines(file) ELSE <<>>
  /\ IF opens THEN UNCHANGED failures ELSE failures < MaxFailures /\ failures' = failures + 1
  /\ UNCHANGED <<file, reply, saved, whole, writes>>

\* Save(): to the end; not at all, when the file does not open; or up to some
\* place, which no one notices either.
Save(how) ==
  \/ how = "all" /\ file' = SaveLines(m_ghost_values) /\ saved' = m_ghost_values /\ whole' = TRUE
     /\ UNCHANGED failures
  \/ how = "none" /\ UNCHANGED <<file, saved, whole, failures>>
  \/ how = "part" /\ failures < MaxFailures /\ failures' = failures + 1
     /\ file' \in TornFiles(SaveLines(m_ghost_values)) /\ saved' = m_ghost_values /\ whole' = FALSE

\* A bug for a mutant: the areas are deleted and stay in the vector.
GoneLeavesAreas == up' = FALSE /\ m_ghost_values' = m_ghost_values /\ reply' = NoReply

\* The object goes, and its values with it.
Gone == up' = FALSE /\ m_ghost_values' = <<>> /\ reply' = NoReply

unload(how) == up /\ Save(how) /\ Gone /\ UNCHANGED writes

\* "none" is also the second in which it is not yet time to save.
OnSecondChange(how) ==
  /\ up /\ Save(how)
  /\ reply' = NoReply
  /\ UNCHANGED <<up, m_ghost_values, writes>>

\* The process ends without unload.
Crash ==
  /\ up /\ failures < MaxFailures /\ failures' = failures + 1
  /\ Gone
  /\ UNCHANGED <<file, saved, whole, writes>>

\* The process ends inside Save, whose fopen emptied the file.
CrashInSave == up /\ Save("part") /\ Gone /\ UNCHANGED writes

Changed(m) ==
  /\ up /\ writes < MaxWrites
  /\ m_ghost_values' = m /\ reply' = NoReply
  /\ writes' = writes + 1
  /\ UNCHANGED <<up, file, saved, whole, failures>>

\* Into the area of the ghost that sends it.
OnSharedValueWrite(sender, b) == Changed(AddBatch(m_ghost_values, sender, b))

\* Into the area of any ghost.
OnSharedValueWriteEx(g, b) == Changed(AddBatch(m_ghost_values, g, b))

property_set(g, k, v) ==
  /\ g # Empty /\ k # Empty
  /\ Changed(AddTo(m_ghost_values, g, k, v))

Told(kind, of) ==
  /\ up
  /\ reply' = [kind |-> kind, of |-> of]
  /\ UNCHANGED <<up, m_ghost_values, file, saved, whole, writes, failures>>

Area(g) == IF FindGhost(m_ghost_values, g) = 0 THEN <<>>
           ELSE m_ghost_values[FindGhost(m_ghost_values, g)].element

PushBack(e) == [i \in DOMAIN e |-> <<e[i].name, e[i].value>>]

\* The ghost starts: it is told all its variables.
OnGhostBoot(g) == Told("all", PushBack(Area(g)))

OnSharedValueRead(g, q) == Told("read", [i \in DOMAIN q |-> <<q[i], Get(Area(g), q[i])>>])

OnSharedValueReadAll(g) == Told("all", PushBack(Area(g)))      \* __SYSTEM_ALL_DATA__

property_get(g, k) ==
  /\ g # Empty /\ k # Empty
  /\ Told("property", IF Get(Area(g), k) = Empty THEN <<>> ELSE <<<<k, Get(Area(g), k)>>>>)

OnSharedValueGhostList ==
  Told("list", [i \in DOMAIN m_ghost_values |-> <<m_ghost_values[i].ghost, Empty>>])

Change ==
  \E g \in Ghosts :
    \/ \E b \in Batches : OnSharedValueWrite(g, b) \/ OnSharedValueWriteEx(g, b)
    \/ \E b \in Batches : Len(b) = 1 /\ property_set(g, b[1].name, b[1].value)

Question ==
  \/ OnSharedValueGhostList
  \/ \E g \in Ghosts :
       \/ \E q \in Queries : OnSharedValueRead(g, q)
       \/ \E k \in Keys : property_get(g, k)
       \/ OnGhostBoot(g) \/ OnSharedValueReadAll(g)

Next ==
  \/ Crash \/ CrashInSave \/ Change \/ Question
  \/ \E opens \in BOOLEAN : load(opens)
  \/ \E how \in {"all", "none", "part"} : unload(how) \/ OnSecondChange(how)

Spec == Init /\ [][Next]_vars

-----------------------------------------------------------------------------
(* Properties. *)

TypeOK ==
  /\ up \in BOOLEAN /\ whole \in BOOLEAN
  /\ m_ghost_values \in Seq([ghost : Texts, element : Seq([name : Texts, value : Texts])])
  /\ \A i \in DOMAIN file : file[i] \in [tag : {"SVD2", "GHOST*", "NAME_*", "VALUE*", "none"},
                                         text : Texts]
  /\ ~up => m_ghost_values = <<>>
  /\ writes \in 0 .. MaxWrites /\ failures \in 0 .. MaxFailures

(***************************************************************************)
(* Whatever was written in whatever spelling, and whatever a torn file      *)
(* brought back, no ghost has two areas, no area two elements of one name,  *)
(* and no element an empty value: Find stops at the first match, so a       *)
(* second one would be a value nobody can erase (150-159, 174-193).         *)
(***************************************************************************)
OneOfEach ==
  /\ \A i, j \in DOMAIN m_ghost_values :
        Same(m_ghost_values[i].ghost, m_ghost_values[j].ghost) => i = j
  /\ \A a \in Range(m_ghost_values) :
        /\ \A i, j \in DOMAIN a.element : Same(a.element[i].name, a.element[j].name) => i = j
        /\ \A e \in Range(a.element) : e.value # Empty

(***************************************************************************)
(* readme.txt 65 calls the list that OnSharedValueGhostList gives the list  *)
(* of the ghosts that store values.                                         *)
(***************************************************************************)
ListedGhostsStore ==
  reply.kind = "list" => \A i \in DOMAIN reply.of : Area(reply.of[i][1]) # <<>>

(***************************************************************************)
(* The plugin implements SharedStore: batches, lookups without case, the    *)
(* file and what a crash leaves of it.                                      *)
(***************************************************************************)
GhostId == {Fold[g] : g \in Ghosts}
KeyId   == {Fold[k] : k \in Keys}

KV(m) == [c \in GhostId \X KeyId |->
            IF FindGhost(m, c[1]) = 0 THEN Empty
            ELSE Get(m[FindGhost(m, c[1])].element, c[2])]

Store == INSTANCE SharedStore
           WITH kv <- KV(m_ghost_values), disk <- [kv |-> KV(saved), whole |-> whole],
                reply <- [kind |-> reply.kind,
                          of |-> {<<Fold[reply.of[i][1]], reply.of[i][2]>> : i \in DOMAIN reply.of}]
ImplementsStore == Store!Spec

=============================================================================
