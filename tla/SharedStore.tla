---------------------------- MODULE SharedStore -----------------------------
(***************************************************************************)
(* What the shared value plugin promises the ghosts: one value for each     *)
(* variable of each ghost, written in batches, read back as written last,   *)
(* and kept over a restart.  A crash while the file is written may lose     *)
(* variables and cut one value short, a file that does not open loses all;  *)
(* nothing ever mixes two of them up (impl_plugin/shared_value).            *)
(***************************************************************************)
EXTENDS Naturals, Sequences

CONSTANTS Ghosts,   \* names of ghosts, in any spelling
          Keys,     \* names of variables, in any spelling
          Texts,    \* every text, values and names
          Empty,    \* the empty text: no value
          Fold,     \* Fold[t]: t without case
          Trunc,    \* Trunc[t]: what a line of the file has room for
          Cut,      \* Cut[t]: the texts a torn t may leave
          Batches,  \* batches of a write: sequences of [name, value]
          Queries   \* queries of a read: sequences of names

VARIABLES up,       \* is the plugin loaded?
          kv,       \* kv[c]: the value in cell c
          disk,     \* [kv, whole]: what was saved last, and if to the end
          reply     \* [kind, of]: what the last request told

vars == <<up, kv, disk, reply>>

Cells   == {Fold[g] : g \in Ghosts} \X {Fold[k] : k \in Keys}
Nothing == [c \in Cells |-> Empty]
NoReply == [kind |-> "none", of |-> {}]

Last(b, k) ==    \* the value that b, read in order, leaves in k
  LET at == {i \in DOMAIN b : Fold[b[i].name] = k}
  IN  b[CHOOSE i \in at : \A j \in at : j <= i].value
Sets(b, k) == \E i \in DOMAIN b : Fold[b[i].name] = k

\* What a complete file brings back: not the variable without a name.
Kept(m) == [c \in Cells |-> IF c[2] = Empty THEN Empty ELSE Trunc[m[c]]]

\* What a torn file may bring back: some cells, one of them cut short.
Torn(m, k) ==
  LET kept == Kept(m)
      cut  == {c \in Cells : k[c] \notin {Empty, kept[c]}}
  IN  \A c \in cut : cut = {c} /\ k[c] \in Cut[kept[c]]

Init == up = FALSE /\ kv = Nothing /\ disk = [kv |-> Nothing, whole |-> TRUE] /\ reply = NoReply

Start ==
  /\ ~up /\ up' = TRUE
  /\ kv' \in [Cells -> Texts]
  /\ \/ IF disk.whole THEN kv' = Kept(disk.kv) ELSE Torn(disk.kv, kv')
     \/ kv' = Nothing                    \* the file does not open
  /\ UNCHANGED <<disk, reply>>

Write(g, b) ==
  /\ up
  /\ reply' = NoReply
  /\ LET old == kv
     IN  kv' = [c \in Cells |->
                  IF c[1] = Fold[g] /\ Sets(b, c[2]) THEN Last(b, c[2]) ELSE old[c]]
  /\ UNCHANGED <<up, disk>>

Tell(kind, of) ==
  /\ up /\ reply'.kind = kind
  /\ reply' = [kind |-> kind, of |-> of]
  /\ UNCHANGED <<up, kv, disk>>

Read(g, q) ==
  Tell("read", {<<Fold[q[i]], kv[<<Fold[g], Fold[q[i]]>>]>> : i \in DOMAIN q})

ReadAll(g) ==
  Tell("all", LET now == kv
              IN  {<<c[2], now[c]>> : c \in {d \in Cells : d[1] = Fold[g] /\ now[d] # Empty}})

Property(g, k) == Tell("property", {<<Fold[k], kv[<<Fold[g], Fold[k]>>]>>} \ {<<Fold[k], Empty>>})

\* Every ghost that stores a value is in the list, which may name others too.
List ==
  /\ up /\ reply'.kind = "list"
  /\ reply' \in [kind : {"list"}, of : SUBSET {<<Fold[t], Empty>> : t \in Texts}]
  /\ LET now == kv
     IN  \A c \in Cells : now[c] # Empty => <<c[1], Empty>> \in reply'.of
  /\ UNCHANGED <<up, kv, disk>>

\* What a save leaves: all of it, a part, or the last one when the file does
\* not open.
Saved == disk' \in {disk} \cup [kv : {kv}, whole : BOOLEAN]

Save  == up /\ reply' = NoReply /\ UNCHANGED <<up, kv>> /\ Saved
Stop  == up /\ up' = FALSE /\ reply' = NoReply /\ kv' = Nothing /\ Saved
Crash == up /\ up' = FALSE /\ reply' = NoReply /\ kv' = Nothing
         /\ disk' \in {disk, [kv |-> kv, whole |-> FALSE]}

Next ==
  \/ Start \/ List \/ Save \/ Stop \/ Crash
  \/ \E g \in Ghosts :
       \/ \E b \in Batches : Write(g, b)
       \/ \E q \in Queries : Read(g, q)
       \/ ReadAll(g)
       \/ \E k \in Keys : Property(g, k)

Spec == Init /\ [][Next]_vars
=============================================================================
