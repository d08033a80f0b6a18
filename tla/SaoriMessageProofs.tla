------------------------- MODULE SaoriMessageProofs -------------------------
(***************************************************************************)
(* Proofs about the parsers of SaoriMessage.                                *)
(***************************************************************************)
EXTENDS SaoriMessage, FiniteSetTheorems, TLAPS

-----------------------------------------------------------------------------
(* The lines of a message. *)

\* What an indexed line that is taken carries.
LEMMA TakenLine ==
  ASSUME NEW l \in Line, Taken(l)
  PROVE  l.kind = "indexed" /\ l.ord \in Nat /\ l.text \in LineTexts
BY DEF Taken, Line, IndexedLine, ScalarLine, OptionLine, NoiseLine

LEMMA WrittenLineIsLine == WrittenLine \subseteq Line
<1>1. -1 .. MaxOrd \subseteq Int
  BY BoundAssumption
<1>. QED BY <1>1 DEF WrittenLine, Line, IndexedLine

-----------------------------------------------------------------------------
(* The fields of a reply and their lines. *)

\* The listing misses no key.
LEMMA KeyListingComplete ==
  ASSUME NEW S, IsFiniteSet(S)
  PROVE  /\ Cardinality(S) \in Nat
         /\ SetToSeq(S) \in [1 .. Cardinality(S) -> S]
         /\ \A k \in S : \E i \in 1 .. Cardinality(S) : SetToSeq(S)[i] = k
<1> DEFINE n == Cardinality(S)
           f == SetToSeq(S)
<1>1. n \in Nat
  BY FS_CardinalityType
<1>2. PICK g : g \in [1 .. n -> S] /\ IsInjective(g)
  <2>1. PICK g : g \in Bijection(1 .. n, S)
    BY FS_CardinalityType DEF ExistsBijection
  <2>2. g \in [1 .. n -> S] /\ IsInjective(g)
    BY <2>1 DEF Bijection, Injection, IsInjective
  <2>. QED BY <2>2
<1>3. f \in [1 .. n -> S] /\ IsInjective(f)
  BY <1>2 DEF SetToSeq
<1>4. f \in Injection(1 .. n, S)
  BY <1>3 DEF Injection, IsInjective
<1>5. Cardinality(1 .. n) = n
  BY <1>1, FS_Interval
<1>6. f \in Surjection(1 .. n, S)
  <2> HIDE DEF f
  <2>. QED BY <1>4, <1>5, FS_Injection
<1>. QED BY <1>1, <1>3, <1>6 DEF Surjection

\* A function on 1 .. n is a sequence of length n.
LEMMA FunctionIsSeq ==
  ASSUME NEW S, NEW n \in Nat, NEW f \in [1 .. n -> S]
  PROVE  f \in Seq(S) /\ Len(f) = n
OBVIOUS

\* Three sequences put together, place by place.
LEMMA Concat3 ==
  ASSUME NEW S, NEW a \in Seq(S), NEW b \in Seq(S), NEW c \in Seq(S)
  PROVE  /\ Len(a \o b \o c) = Len(a) + Len(b) + Len(c)
         /\ \A i \in 1 .. Len(a) : (a \o b \o c)[i] = a[i]
         /\ \A i \in 1 .. Len(b) : (a \o b \o c)[Len(a) + i] = b[i]
         /\ \A i \in 1 .. Len(c) : (a \o b \o c)[Len(a) + Len(b) + i] = c[i]
<1>0. /\ a \o b \in Seq(S) /\ Len(a \o b) = Len(a) + Len(b)
      /\ \A i \in 1 .. Len(a) : (a \o b)[i] = a[i]
      /\ \A i \in 1 .. Len(b) : (a \o b)[Len(a) + i] = b[i]
  OBVIOUS
<1>1. PICK ab \in Seq(S) : ab = a \o b
  BY <1>0
<1>2. /\ Len(ab \o c) = Len(ab) + Len(c)
      /\ \A i \in 1 .. Len(ab) : (ab \o c)[i] = ab[i]
      /\ \A i \in 1 .. Len(c) : (ab \o c)[Len(ab) + i] = c[i]
  OBVIOUS
<1>3. Len(a) \in Nat /\ Len(b) \in Nat
  OBVIOUS
<1>4. /\ \A i \in 1 .. Len(a) : i \in 1 .. Len(ab)
      /\ \A i \in 1 .. Len(b) : Len(a) + i \in 1 .. Len(ab)
  BY <1>0, <1>1, <1>3
<1>. QED BY <1>0, <1>1, <1>2, <1>4

\* An element before a sequence, place by place.
LEMMA Prepended ==
  ASSUME NEW S, NEW e \in S, NEW b \in Seq(S)
  PROVE  /\ <<e>> \o b \in Seq(S) /\ Len(<<e>> \o b) = 1 + Len(b)
         /\ (<<e>> \o b)[1] = e
         /\ \A p \in 1 .. Len(b) : (<<e>> \o b)[1 + p] = b[p]
OBVIOUS

\* A place among 2 + K + n is one of the first two, of the K or of the n.
LEMMA PlaceOf ==
  ASSUME NEW K \in Nat, NEW n \in Nat, NEW p \in 1 .. 2 + K + n
  PROVE  p = 1 \/ p = 2 \/ (\E i \in 1 .. K : p = 2 + i) \/ (\E i \in 1 .. n : p = 2 + K + i)
<1>1. CASE p <= 2 + K
  <2>1. p = 1 \/ p = 2 \/ (p - 2 \in 1 .. K /\ p = 2 + (p - 2))
    BY <1>1
  <2>. QED BY <2>1
<1>2. CASE p > 2 + K
  <2>1. p - (2 + K) \in 1 .. n /\ p = 2 + K + (p - (2 + K))
    BY <1>2
  <2>. QED BY <2>1
<1>. QED BY <1>1, <1>2

\* The lines the fields of o begin with, one for each.
Lines(o) == [i \in DOMAIN Fields(o) |-> FieldLine(Fields(o)[i])]

\* The lines s of reply o, one by one: the code page, the scalar field, a line
\* for each of the K keys, one for each of the n values.
LinesOfReply(s, o, K, n, keys) ==
  /\ o.values \in [1 .. n -> Texts] /\ keys \in [1 .. K -> DOMAIN o.opts]
  /\ \A k \in DOMAIN o.opts : \E i \in 1 .. K : keys[i] = k
  /\ Len(s) = 2 + K + n
  /\ s[1].kind = "option" /\ s[1].key = CharsetKey
  /\ s[2].kind = "scalar" /\ s[2].text = Cut[o.result]
  /\ \A i \in 1 .. K : /\ s[2 + i].kind = "option" /\ s[2 + i].key = keys[i]
                       /\ s[2 + i].text = Cut[o.opts[keys[i]]]
  /\ \A i \in 1 .. n : /\ s[2 + K + i].kind = "indexed" /\ s[2 + K + i].ord = i - 1
                       /\ Taken(s[2 + K + i]) /\ s[2 + K + i].text = Cut[Flat[o.values[i]]]

\* A field and its text: what toString appends for o.
FieldOf(f, o) ==
  /\ f.text \in Texts /\ (f.text \in WrittenTexts(o) \/ f.text = CharsetText)
  /\ FieldLine(f) \in Line

LEMMA ReplyLines ==
  ASSUME NEW o \in OutputObject
  PROVE  /\ \E K \in Nat, n \in Nat : \E keys : LinesOfReply(Lines(o), o, K, n, keys)
         /\ Len(Fields(o)) \in Nat /\ Len(Lines(o)) = Len(Fields(o))
         /\ \A i \in 1 .. Len(Fields(o)) : /\ FieldOf(Fields(o)[i], o)
                                           /\ Lines(o)[i] = FieldLine(Fields(o)[i])
<1> DEFINE keys == SetToSeq(DOMAIN o.opts)
           K    == Cardinality(DOMAIN o.opts)
           KeyField(i) == [kind |-> "option", key |-> keys[i], text |-> o.opts[keys[i]]]
           ValueField(i) == [kind |-> "indexed", ord |-> i - 1, zero |-> i = 1,
                             text |-> Flat[o.values[i]]]
           charset == [kind |-> "option", key |-> CharsetKey, text |-> CharsetText]
           result  == [kind |-> "scalar", text |-> o.result]
           F == Fields(o)
<1>1. IsFiniteSet(DOMAIN o.opts) /\ DOMAIN o.opts \subseteq Keys /\ o.opts \in [DOMAIN o.opts -> Texts]
  <2>1. DOMAIN o.opts \subseteq Keys /\ o.opts \in [DOMAIN o.opts -> Texts]
    BY DEF OutputObject, PluginKeys
  <2>. QED BY <2>1, KeyAssumption, FS_Subset
<1>2. /\ K \in Nat /\ keys \in [1 .. K -> DOMAIN o.opts]
      /\ \A k \in DOMAIN o.opts : \E i \in 1 .. K : keys[i] = k
  BY <1>1, KeyListingComplete
<1>3. PICK n \in Nat : o.values \in [1 .. n -> Texts]
  BY BoundAssumption DEF OutputObject
<1>4. /\ Len(F) = 2 + K + n /\ DOMAIN F = 1 .. 2 + K + n
      /\ F[1] = charset /\ F[2] = result
      /\ \A i \in 1 .. K : F[2 + i] = KeyField(i)
      /\ \A i \in 1 .. n : F[2 + K + i] = ValueField(i)
  <2> DEFINE head == <<charset, result>>
             mid  == [i \in 1 .. K |-> KeyField(i)]
             last == [i \in 1 .. n |-> ValueField(i)]
             All  == {KeyField(i) : i \in 1 .. K} \cup {ValueField(i) : i \in 1 .. n}
                     \cup {charset, result}
  <2>1. F = head \o mid \o last
    <3>1. DOMAIN keys = 1 .. K /\ DOMAIN o.values = 1 .. n
      BY <1>2, <1>3
    <3>. QED BY <3>1 DEF Fields, FlatText
  <2>2. /\ head \in Seq(All) /\ Len(head) = 2 /\ head[1] = charset /\ head[2] = result
        /\ mid \in Seq(All) /\ Len(mid) = K /\ \A i \in 1 .. K : mid[i] = KeyField(i)
        /\ last \in Seq(All) /\ Len(last) = n /\ \A i \in 1 .. n : last[i] = ValueField(i)
    <3>1. mid \in [1 .. K -> All] /\ last \in [1 .. n -> All] /\ charset \in All /\ result \in All
      OBVIOUS
    <3>2. \A i \in 1 .. K : mid[i] = KeyField(i)
      OBVIOUS
    <3>3. \A i \in 1 .. n : last[i] = ValueField(i)
      OBVIOUS
    <3> HIDE DEF All, mid, last, charset, result, K, KeyField, ValueField
    <3>4. head \in Seq(All) /\ Len(head) = 2 /\ head[1] = charset /\ head[2] = result
      BY <3>1
    <3> HIDE DEF head
    <3>. QED BY <1>2, <1>3, <3>1, <3>2, <3>3, <3>4, FunctionIsSeq
  <2> HIDE DEF head, mid, last, All, K, charset, result, KeyField, ValueField
  <2>3. PICK S : head \in Seq(S) /\ mid \in Seq(S) /\ last \in Seq(S)
    BY <2>2
  <2>4. /\ Len(head \o mid \o last) = Len(head) + Len(mid) + Len(last)
        /\ \A i \in 1 .. Len(head) : (head \o mid \o last)[i] = head[i]
        /\ \A i \in 1 .. Len(mid) : (head \o mid \o last)[Len(head) + i] = mid[i]
        /\ \A i \in 1 .. Len(last) : (head \o mid \o last)[Len(head) + Len(mid) + i] = last[i]
    BY <2>3, Concat3
  <2>5. DOMAIN (head \o mid \o last) = 1 .. Len(head \o mid \o last)
    BY <2>3
  <2>6. Len(F) = 2 + K + n /\ DOMAIN F = 1 .. 2 + K + n
    BY <2>1, <2>2, <2>4, <2>5
  <2>7. F[1] = charset /\ F[2] = result
    BY <2>1, <2>2, <2>4
  <2>8. \A i \in 1 .. K : F[2 + i] = KeyField(i)
    BY <2>1, <2>2, <2>4
  <2>9. \A i \in 1 .. n : F[2 + K + i] = ValueField(i)
    BY <2>1, <2>2, <2>4
  <2>. QED BY <2>6, <2>7, <2>8, <2>9
<1>5. /\ Len(Lines(o)) = 2 + K + n
      /\ \A i \in 1 .. 2 + K + n : Lines(o)[i] = FieldLine(F[i])
  BY <1>2, <1>3, <1>4 DEF Lines
<1>6. /\ FieldLine(charset) = [kind |-> "option", key |-> CharsetKey, text |-> Cut[CharsetText]]
      /\ FieldLine(result) = [kind |-> "scalar", text |-> Cut[o.result]]
      /\ \A i \in 1 .. K : FieldLine(KeyField(i)) =
           [kind |-> "option", key |-> keys[i], text |-> Cut[o.opts[keys[i]]]]
      /\ \A i \in 1 .. n : FieldLine(ValueField(i)) =
           [kind |-> "indexed", ord |-> i - 1, zero |-> i = 1, text |-> Cut[Flat[o.values[i]]]]
  BY DEF FieldLine
<1>7. /\ \A i \in 1 .. K : o.opts[keys[i]] \in Texts /\ keys[i] \in Keys
      /\ \A i \in 1 .. K : o.opts[keys[i]] \in WrittenTexts(o)
      /\ \A i \in 1 .. n : Flat[o.values[i]] \in Texts
      /\ \A i \in 1 .. n : Flat[o.values[i]] \in WrittenTexts(o)
      /\ o.result \in Texts /\ o.result \in WrittenTexts(o) /\ CharsetText \in Texts
  <2>1. o.result \in Texts /\ o.result \in WrittenTexts(o) /\ CharsetText \in Texts
    BY TextAssumption DEF OutputObject, WrittenTexts, LineTexts
  <2>2. ASSUME NEW i \in 1 .. K
        PROVE  keys[i] \in Keys /\ o.opts[keys[i]] \in Texts /\ o.opts[keys[i]] \in WrittenTexts(o)
    <3>1. keys[i] \in DOMAIN o.opts
      BY <1>2
    <3> HIDE DEF keys
    <3>. QED BY <1>1, <3>1 DEF WrittenTexts
  <2>3. ASSUME NEW i \in 1 .. n
        PROVE  Flat[o.values[i]] \in Texts /\ Flat[o.values[i]] \in WrittenTexts(o)
    <3>1. i \in DOMAIN o.values /\ o.values[i] \in Texts
      BY <1>3
    <3>. QED BY <3>1, TextAssumption DEF WrittenTexts
  <2>. QED BY <2>1, <2>2, <2>3
<1>8. \A t \in Texts : Cut[t] \in LineTexts
  BY TextAssumption
<1>9. /\ FieldOf(charset, o) /\ FieldOf(result, o)
      /\ \A i \in 1 .. K : FieldOf(KeyField(i), o)
      /\ \A i \in 1 .. n : FieldOf(ValueField(i), o)
  <2>1. FieldOf(charset, o)
    BY <1>6, <1>7, <1>8, KeyAssumption DEF FieldOf, Line, OptionLine
  <2>2. FieldOf(result, o)
    BY <1>6, <1>7, <1>8 DEF FieldOf, Line, ScalarLine
  <2>3. ASSUME NEW i \in 1 .. K PROVE FieldOf(KeyField(i), o)
    <3>0. FieldLine(KeyField(i)) =
            [kind |-> "option", key |-> keys[i], text |-> Cut[o.opts[keys[i]]]]
      BY <1>6
    <3>1. KeyField(i).text = o.opts[keys[i]]
      OBVIOUS
    <3>2. keys[i] \in Keys /\ Cut[o.opts[keys[i]]] \in LineTexts
      BY <1>7, <1>8
    <3> HIDE DEF KeyField, keys, K
    <3>3. FieldLine(KeyField(i)) \in Line
      BY <3>0, <3>2 DEF Line, OptionLine
    <3>. QED BY <1>7, <3>1, <3>3 DEF FieldOf
  <2>4. ASSUME NEW i \in 1 .. n PROVE FieldOf(ValueField(i), o)
    <3>0. FieldLine(ValueField(i)) = [kind |-> "indexed", ord |-> i - 1, zero |-> i = 1,
                                      text |-> Cut[Flat[o.values[i]]]]
      BY <1>6
    <3>1. ValueField(i).text = Flat[o.values[i]]
      OBVIOUS
    <3>2. i - 1 \in Int /\ (i = 1) \in BOOLEAN /\ Cut[Flat[o.values[i]]] \in LineTexts
      BY <1>3, <1>7, <1>8
    <3> HIDE DEF ValueField
    <3>3. FieldLine(ValueField(i)) \in Line
      BY <3>0, <3>2 DEF Line, IndexedLine
    <3>. QED BY <1>7, <3>1, <3>3 DEF FieldOf
  <2>. QED BY <2>1, <2>2, <2>3, <2>4
<1>10. ASSUME NEW p \in 1 .. 2 + K + n
       PROVE  p = 1 \/ p = 2 \/ (\E i \in 1 .. K : p = 2 + i) \/ (\E i \in 1 .. n : p = 2 + K + i)
  BY <1>2, <1>3, PlaceOf
<1>11. \A i \in 1 .. 2 + K + n : FieldOf(F[i], o)
  <2> HIDE DEF F, charset, result, KeyField, ValueField, K
  <2>. QED BY <1>4, <1>9, <1>10
<1>12. LinesOfReply(Lines(o), o, K, n, keys)
  <2>1. /\ 1 \in 1 .. 2 + K + n /\ 2 \in 1 .. 2 + K + n
        /\ \A i \in 1 .. K : 2 + i \in 1 .. 2 + K + n
        /\ \A i \in 1 .. n : 2 + K + i \in 1 .. 2 + K + n
    <3> HIDE DEF K
    <3>. QED BY <1>2, <1>3
  <2>2. \A i \in 1 .. K : /\ FieldLine(KeyField(i)).kind = "option"
                          /\ FieldLine(KeyField(i)).key = keys[i]
                          /\ FieldLine(KeyField(i)).text = Cut[o.opts[keys[i]]]
    <3> HIDE DEF KeyField, keys, K
    <3>. QED BY <1>6
  <2>3. \A i \in 1 .. n : /\ FieldLine(ValueField(i)).kind = "indexed"
                          /\ FieldLine(ValueField(i)).ord = i - 1
                          /\ Taken(FieldLine(ValueField(i)))
                          /\ FieldLine(ValueField(i)).text = Cut[Flat[o.values[i]]]
    <3>1. ASSUME NEW i \in 1 .. n
          PROVE  /\ FieldLine(ValueField(i)).kind = "indexed"
                 /\ FieldLine(ValueField(i)).ord = i - 1
                 /\ Taken(FieldLine(ValueField(i)))
                 /\ FieldLine(ValueField(i)).text = Cut[Flat[o.values[i]]]
      <4>1. i - 1 > 0 \/ (i - 1 = 0 /\ i = 1)
        BY <1>3
      <4>2. /\ FieldLine(ValueField(i)).kind = "indexed" /\ FieldLine(ValueField(i)).ord = i - 1
            /\ FieldLine(ValueField(i)).zero = (i = 1)
            /\ FieldLine(ValueField(i)).text = Cut[Flat[o.values[i]]]
        <5> HIDE DEF ValueField
        <5>. QED BY <1>6
      <4>3. i - 1 = 0 /\ i = 1 => FieldLine(ValueField(i)).zero
        BY <4>2
      <4> HIDE DEF ValueField
      <4>. QED BY <4>1, <4>2, <4>3 DEF Taken
    <3> HIDE DEF ValueField
    <3>. QED BY <3>1
  <2>4. /\ FieldLine(charset).kind = "option" /\ FieldLine(charset).key = CharsetKey
        /\ FieldLine(result).kind = "scalar" /\ FieldLine(result).text = Cut[o.result]
    BY <1>6
  <2> HIDE DEF F, charset, result, KeyField, ValueField, K, keys
  <2>5. /\ Lines(o)[1] = FieldLine(charset) /\ Lines(o)[2] = FieldLine(result)
        /\ \A i \in 1 .. K : Lines(o)[2 + i] = FieldLine(KeyField(i))
        /\ \A i \in 1 .. n : Lines(o)[2 + K + i] = FieldLine(ValueField(i))
    BY <1>4, <1>5, <2>1
  <2>6. \A i \in 1 .. K : /\ Lines(o)[2 + i].kind = "option" /\ Lines(o)[2 + i].key = keys[i]
                          /\ Lines(o)[2 + i].text = Cut[o.opts[keys[i]]]
    BY <2>2, <2>5
  <2>7. \A i \in 1 .. n : /\ Lines(o)[2 + K + i].kind = "indexed"
                          /\ Lines(o)[2 + K + i].ord = i - 1
                          /\ Taken(Lines(o)[2 + K + i])
                          /\ Lines(o)[2 + K + i].text = Cut[Flat[o.values[i]]]
    BY <2>3, <2>5
  <2>. QED BY <1>2, <1>3, <1>5, <2>4, <2>5, <2>6, <2>7 DEF LinesOfReply
<1> HIDE DEF K, keys
<1>. QED BY <1>2, <1>3, <1>4, <1>5, <1>11, <1>12

-----------------------------------------------------------------------------
(* One step of the loop. *)

\* What Store returns when argc is the length of the vector: the field itself,
\* the old places unchanged, the gap empty.
LEMMA StoreResult ==
  ASSUME NEW v \in Seq(LineTexts), NEW n \in Nat, NEW t \in LineTexts
  PROVE  LET w == Store(v, Len(v), n, t)
         IN  /\ w \in Seq(LineTexts)
             /\ Len(w) = IF Len(v) <= n THEN n + 1 ELSE Len(v)
             /\ \A i \in 1 .. Len(w) :
                  w[i] = IF i = n + 1 THEN t ELSE IF i <= Len(v) THEN v[i] ELSE Empty
<1> DEFINE w == Store(v, Len(v), n, t)
<1>0. Empty \in LineTexts
  BY TextAssumption
<1>1. CASE Len(v) <= n
  <2>1. w = [i \in 1 .. n + 1 |->
               IF i = n + 1 THEN t ELSE IF i <= Len(v) THEN v[i] ELSE Empty]
    BY <1>1 DEF Store
  <2>2. w \in [1 .. n + 1 -> LineTexts]
    BY <1>0, <2>1
  <2>. QED BY <1>1, <2>1, <2>2
<1>2. CASE Len(v) > n
  <2>1. w = [i \in 1 .. Len(v) |-> IF i = n + 1 THEN t ELSE v[i]]
    BY <1>2 DEF Store
  <2>2. w \in [1 .. Len(v) -> LineTexts]
    BY <2>1
  <2>. QED BY <1>2, <2>1, <2>2
<1>. QED BY <1>1, <1>2

\* While a reply is written nothing of it has been read.
Writing == phase = "write" => sent \in OutputObject /\ pos = 0

\* The vector of fields with the counter the loop relies on.
Inv == TypeOK /\ argc = Len(vec) /\ FieldsInPlace /\ Writing

LEMMA OnWireType ==
  ASSUME NEW o \in OutputObject, NEW i \in 1 .. Len(Fields(o))
  PROVE  OnWire(Fields(o)[i]) \in Seq(Line)
<1> DEFINE f == Fields(o)[i]
<1>1. f.text \in Texts /\ FieldLine(f) \in Line
  BY ReplyLines DEF FieldOf
<1>2. Behind[f.text] \in Seq(Line)
  BY <1>1, TextAssumption
<1>3. OnWire(f) = <<FieldLine(f)>> \o Behind[f.text]
  BY DEF OnWire
<1> HIDE DEF f
<1>4. <<FieldLine(f)>> \o Behind[f.text] \in Seq(Line)
  BY <1>1, <1>2, Prepended
<1>5. OnWire(f) \in Seq(Line)
  BY <1>3, <1>4
<1>. QED BY <1>5 DEF f

LEMMA InitInv == Init => Inv
<1> SUFFICES ASSUME Init PROVE Inv
  OBVIOUS
<1>1. src \in Seq(Line)
  <2>1. CASE RequestInit
    <3>1. PICK n \in 0 .. MaxLines : src \in [1 .. n -> WrittenLine]
      BY <2>1 DEF RequestInit
    <3>. QED BY <3>1, WrittenLineIsLine, BoundAssumption
  <2>2. CASE ResponseInit
    BY <2>2 DEF ResponseInit
  <2>. QED BY <2>1, <2>2 DEF Init
<1>2. TypeOK
  <2>1. opt \in [{} -> LineTexts]
    BY DEF Init
  <2>2. opt \in UNION {[K -> LineTexts] : K \in SUBSET Keys}
    BY <2>1
  <2>3. dir \in {"request", "response"}
    BY DEF Init, RequestInit, ResponseInit
  <2>4. vec \in Seq(LineTexts) /\ argc \in Nat /\ written \in Nat /\ phase \in {"write", "first"}
    BY DEF Init, RequestInit, ResponseInit
  <2>5. scalar \in LineTexts
    BY TextAssumption DEF Init
  <2>6. pos \in 0 .. Len(src)
    BY <1>1 DEF Init
  <2>. QED BY <1>1, <2>2, <2>3, <2>4, <2>5, <2>6 DEF TypeOK
<1>3. argc = Len(vec) /\ FieldsInPlace
  BY DEF Init, FieldsInPlace
<1>4. Writing
  BY DEF Init, RequestInit, ResponseInit, Writing
<1>. QED BY <1>2, <1>3, <1>4 DEF Inv

\* A field more is written, and nothing read.
LEMMA WriteStep == Inv /\ WriteField => Inv'
<1> SUFFICES ASSUME Inv, WriteField PROVE Inv'
  OBVIOUS
<1>1. sent \in OutputObject /\ pos = 0
  BY DEF Inv, Writing, WriteField
<1>2. /\ written \in Nat /\ written < Len(Fields(sent))
      /\ src' = src \o OnWire(Fields(sent)[written + 1]) /\ written' = written + 1
      /\ dir' = dir /\ sent' = sent /\ pos' = pos /\ vec' = vec /\ argc' = argc
      /\ opt' = opt /\ scalar' = scalar /\ phase' = phase
  BY DEF Inv, TypeOK, WriteField
<1>3. OnWire(Fields(sent)[written + 1]) \in Seq(Line)
  <2>1. written + 1 \in 1 .. Len(Fields(sent))
    BY <1>1, <1>2, ReplyLines
  <2>. QED BY <1>1, <2>1, OnWireType
<1>4. src' \in Seq(Line)
  BY <1>2, <1>3 DEF Inv, TypeOK
<1>5. TypeOK'
  BY <1>1, <1>2, <1>4 DEF Inv, TypeOK
<1>6. vec = <<>>
  BY <1>1 DEF Inv, FieldsInPlace
<1>7. FieldsInPlace'
  BY <1>1, <1>2, <1>6 DEF FieldsInPlace
<1>. QED BY <1>1, <1>2, <1>5, <1>7 DEF Inv, Writing

\* A line that names no field leaves every place as it was.
LEMMA OtherLine ==
  ASSUME Inv, NEW kind, NextLine(kind), ~Taken(src[pos + 1]), UNCHANGED <<vec, argc>>
  PROVE  argc' = Len(vec)' /\ FieldsInPlace'
<1>1. pos \in Nat /\ pos' = pos + 1 /\ src' = src /\ vec' = vec /\ argc' = argc
  BY DEF NextLine, message, Inv, TypeOK
<1>2. \A n \in Int : ~Names(pos + 1, n)
  BY DEF Names
<1>3. ASSUME NEW i \in 1 .. Len(vec) PROVE FieldIs(i - 1, vec[i])'
  <2>1. FieldIs(i - 1, vec[i])
    BY DEF Inv, FieldsInPlace
  <2>. QED BY <1>1, <1>2, <2>1 DEF FieldIs, Names
<1>4. \A p \in 1 .. pos' : Taken(src[p]) => src[p].ord < Len(vec)
  BY <1>1 DEF Inv, FieldsInPlace
<1>5. vec # <<>> => \E p \in 1 .. pos' : Names(p, Len(vec) - 1)
  BY <1>1 DEF Inv, FieldsInPlace
<1>. QED BY <1>1, <1>3, <1>4, <1>5 DEF Inv, FieldsInPlace, Names

LEMMA IndexedStep == Inv /\ StoreIndexed => Inv'
<1> SUFFICES ASSUME Inv, StoreIndexed PROVE Inv'
  OBVIOUS
<1> DEFINE l == src[pos + 1]
           n == l.ord
<1>1. /\ pos \in Nat /\ pos < Len(src) /\ pos' = pos + 1 /\ src' = src
      /\ dir' = dir /\ phase' = phase /\ written' = written /\ phase = "lines"
  BY DEF Inv, TypeOK, StoreIndexed, NextLine, message
<1>2. l \in Line /\ Taken(l)
  BY <1>1 DEF Inv, TypeOK, StoreIndexed
<1>3. n \in Nat /\ l.text \in LineTexts
  BY <1>2, TakenLine
<1>4. /\ vec' \in Seq(LineTexts)
      /\ Len(vec') = IF Len(vec) <= n THEN n + 1 ELSE Len(vec)
      /\ \A i \in 1 .. Len(vec') :
           vec'[i] = IF i = n + 1 THEN l.text ELSE IF i <= Len(vec) THEN vec[i] ELSE Empty
  <2>1. vec' = Store(vec, Len(vec), n, l.text) /\ vec \in Seq(LineTexts)
    BY DEF Inv, TypeOK, StoreIndexed
  <2>. QED BY <1>3, <2>1, StoreResult
<1>5. argc' = Len(vec') /\ argc' \in Nat
  BY <1>4 DEF StoreIndexed
<1>6. TypeOK'
  BY <1>1, <1>4, <1>5 DEF Inv, TypeOK, StoreIndexed
<1>7. \A p \in 1 .. pos : Taken(src[p]) => src[p].ord < Len(vec)
  BY DEF Inv, FieldsInPlace
<1>8. ASSUME NEW i \in 1 .. Len(vec') PROVE FieldIs(i - 1, vec[i])'
  <2>1. CASE i = n + 1
    <3>1. Names(pos + 1, i - 1) /\ vec'[i] = src[pos + 1].text
      BY <1>2, <1>3, <1>4, <1>8, <2>1 DEF Names
    <3>. QED BY <1>1, <3>1 DEF FieldIs, Names
  <2>2. CASE i # n + 1
    <3>1. ~Names(pos + 1, i - 1)
      BY <1>3, <2>2 DEF Names
    <3>2. CASE i <= Len(vec)
      <4>1. FieldIs(i - 1, vec[i]) /\ vec'[i] = vec[i]
        BY <1>4, <2>2, <3>2 DEF Inv, FieldsInPlace
      <4>. QED BY <1>1, <3>1, <4>1 DEF FieldIs, Names
    <3>3. CASE i > Len(vec)
      <4>1. vec'[i] = Empty
        BY <1>4, <2>2, <3>3
      <4>2. \A p \in 1 .. pos : ~Names(p, i - 1)
        <5>1. ASSUME NEW p \in 1 .. pos, Names(p, i - 1) PROVE FALSE
          <6>1. src[p].ord < Len(vec) /\ src[p].ord = i - 1
            BY <1>7, <5>1 DEF Names
          <6>. QED BY <3>3, <6>1 DEF Inv, TypeOK
        <5>. QED BY <5>1
      <4>. QED BY <1>1, <3>1, <4>1, <4>2 DEF FieldIs, Names
    <3>. QED BY <1>4, <3>2, <3>3 DEF Inv, TypeOK
  <2>. QED BY <2>1, <2>2
<1>9. \A p \in 1 .. pos' : Taken(src[p]) => src[p].ord < Len(vec')
  <2>1. ASSUME NEW p \in 1 .. pos + 1, Taken(src[p]) PROVE src[p].ord < Len(vec')
    <3>1. CASE p = pos + 1
      BY <1>3, <1>4, <3>1 DEF Inv, TypeOK
    <3>2. CASE p \in 1 .. pos
      <4>1. src[p] \in Line /\ src[p].ord < Len(vec)
        BY <1>1, <1>7, <2>1, <3>2 DEF Inv, TypeOK
      <4>2. src[p].ord \in Nat
        BY <2>1, <4>1, TakenLine
      <4>. QED BY <1>3, <1>4, <4>1, <4>2 DEF Inv, TypeOK
    <3>. QED BY <1>1, <2>1, <3>1, <3>2
  <2>. QED BY <1>1, <2>1
<1>10. \E p \in 1 .. pos' : Names(p, Len(vec') - 1)
  <2>1. CASE Len(vec) <= n
    <3>1. Len(vec') - 1 = n
      BY <1>3, <1>4, <2>1
    <3>2. Names(pos + 1, n)
      BY <1>2 DEF Names
    <3>. QED BY <1>1, <3>1, <3>2
  <2>2. CASE Len(vec) > n
    <3>1. Len(vec') = Len(vec) /\ vec # <<>>
      BY <1>3, <1>4, <2>2 DEF Inv, TypeOK
    <3>. QED BY <1>1, <3>1 DEF Inv, FieldsInPlace
  <2>. QED BY <1>3, <2>1, <2>2 DEF Inv, TypeOK
<1>11. FieldsInPlace'
  BY <1>1, <1>8, <1>9, <1>10 DEF FieldsInPlace, Names
<1>. QED BY <1>1, <1>5, <1>6, <1>11 DEF Inv, Writing

LEMMA StepInv == Inv /\ [Next]_vars => Inv'
<1> SUFFICES ASSUME Inv, [Next]_vars PROVE Inv'
  OBVIOUS
<1>0. CASE WriteField
  BY <1>0, WriteStep
<1>00. CASE Send
  BY <1>00 DEF Send, message, Inv, TypeOK, FieldsInPlace, FieldIs, Names, Writing
<1> USE DEF message
<1>1. CASE ReadRequestLine
  BY <1>1 DEF ReadRequestLine, Inv, Writing, TypeOK, FieldsInPlace, FieldIs, Names
<1>2. CASE ReadStatusLine
  BY <1>2 DEF ReadStatusLine, Inv, Writing, TypeOK, FieldsInPlace, FieldIs, Names
<1>3. CASE StoreIndexed
  BY <1>3, IndexedStep
<1>4. CASE DropIndexed
  <2>1. argc' = Len(vec)' /\ FieldsInPlace'
    BY <1>4, OtherLine DEF DropIndexed
  <2>2. TypeOK'
    BY <1>4 DEF DropIndexed, NextLine, Inv, TypeOK
  <2>9. Writing'
    BY <1>4 DEF DropIndexed, NextLine, Writing
  <2>. QED BY <2>1, <2>2, <2>9 DEF Inv
<1>5. CASE StoreScalar
  <2>1. argc' = Len(vec)' /\ FieldsInPlace'
    <3>1. ~Taken(src[pos + 1])
      BY <1>5 DEF StoreScalar, NextLine, Taken
    <3>. QED BY <1>5, <3>1, OtherLine DEF StoreScalar
  <2>2. src[pos + 1] \in Line /\ src[pos + 1].kind = "scalar"
    BY <1>5 DEF StoreScalar, NextLine, Inv, TypeOK
  <2>3. src[pos + 1].text \in LineTexts
    BY <2>2 DEF Line, IndexedLine, ScalarLine, OptionLine, NoiseLine
  <2>4. TypeOK'
    BY <1>5, <2>3 DEF StoreScalar, NextLine, Inv, TypeOK
  <2>9. Writing'
    BY <1>5 DEF StoreScalar, NextLine, Writing
  <2>. QED BY <2>1, <2>4, <2>9 DEF Inv
<1>6. CASE StoreOption
  <2> DEFINE l == src[pos + 1]
  <2>1. argc' = Len(vec)' /\ FieldsInPlace'
    <3>1. ~Taken(l)
      BY <1>6 DEF StoreOption, NextLine, Taken
    <3>. QED BY <1>6, <3>1, OtherLine DEF StoreOption
  <2>2. l \in Line /\ l.kind = "option" /\ l.key # NoKey
    BY <1>6 DEF StoreOption, NextLine, Inv, TypeOK
  <2>3. l.text \in LineTexts /\ Canon[l.key] \in Keys
    BY <2>2, KeyAssumption DEF Line, IndexedLine, ScalarLine, OptionLine, NoiseLine
  <2>4. opt' \in UNION {[K -> LineTexts] : K \in SUBSET Keys}
    <3>1. PICK K \in SUBSET Keys : opt \in [K -> LineTexts]
      BY DEF Inv, TypeOK
    <3>2. opt' \in [K \cup {Canon[l.key]} -> LineTexts]
      BY <1>6, <2>3, <3>1 DEF StoreOption, StoredKey
    <3>. QED BY <2>3, <3>2
  <2>5. TypeOK'
    <3>1. /\ dir' = dir /\ src' = src /\ written' = written /\ vec' = vec /\ argc' = argc
          /\ scalar' = scalar /\ phase' = phase /\ pos' = pos + 1 /\ pos < Len(src)
      BY <1>6 DEF StoreOption, NextLine
    <3>. QED BY <2>4, <3>1 DEF Inv, TypeOK
  <2>9. Writing'
    BY <1>6 DEF StoreOption, NextLine, Writing
  <2>. QED BY <2>1, <2>5, <2>9 DEF Inv
<1>7. CASE SkipLine
  <2>1. PICK kind \in {"noise", "option"} : NextLine(kind)
    BY <1>7 DEF SkipLine
  <2>2. ~Taken(src[pos + 1])
    BY <2>1 DEF NextLine, Taken
  <2>3. argc' = Len(vec)' /\ FieldsInPlace'
    BY <1>7, <2>1, <2>2, OtherLine DEF SkipLine
  <2>4. TypeOK'
    BY <1>7 DEF SkipLine, NextLine, Inv, TypeOK
  <2>9. Writing'
    BY <2>1 DEF NextLine, Writing
  <2>. QED BY <2>3, <2>4, <2>9 DEF Inv
<1>8. CASE Finish
  BY <1>8 DEF Finish, Inv, Writing, TypeOK, FieldsInPlace, FieldIs, Names
<1>9. CASE UNCHANGED vars
  BY <1>9 DEF vars, Inv, Writing, TypeOK, FieldsInPlace, FieldIs, Names
<1>. QED
  BY <1>0, <1>00, <1>1, <1>2, <1>3, <1>4, <1>5, <1>6, <1>7, <1>8, <1>9 DEF Next

-----------------------------------------------------------------------------
(* Which option line counts. *)

\* A line that sets no key leaves what is known of the keys as it was.
LEMMA OtherKey ==
  ASSUME TypeOK, LastOptionCounts, NEW kind, NextLine(kind), opt' = opt,
         kind # "option" \/ src[pos + 1].key = NoKey
  PROVE  LastOptionCounts'
<1>1. pos \in Nat /\ pos' = pos + 1 /\ src' = src
  BY DEF NextLine, message, TypeOK
<1>2. \A k : ~Sets(pos + 1, k)
  BY DEF Sets, NextLine
<1>3. ASSUME NEW k \in DOMAIN opt
      PROVE  \E p \in 1 .. pos + 1 : /\ Sets(p, k) /\ opt[k] = src[p].text
                                     /\ \A q \in p + 1 .. pos + 1 : ~Sets(q, k)
  <2>1. PICK p \in 1 .. pos : /\ Sets(p, k) /\ opt[k] = src[p].text
                              /\ \A q \in p + 1 .. pos : ~Sets(q, k)
    BY DEF LastOptionCounts
  <2>. QED BY <1>1, <1>2, <2>1
<1>4. \A p \in 1 .. pos + 1 : \A k \in Keys : Sets(p, k) => k \in DOMAIN opt
  BY <1>1, <1>2 DEF LastOptionCounts
<1>. QED BY <1>1, <1>3, <1>4 DEF LastOptionCounts, Sets

\* The line just read is the last with its key, and no other key's.
LEMMA OptionStep == TypeOK /\ LastOptionCounts /\ StoreOption => LastOptionCounts'
<1> SUFFICES ASSUME TypeOK, LastOptionCounts, StoreOption PROVE LastOptionCounts'
  OBVIOUS
<1> DEFINE l == src[pos + 1]
           key == Canon[l.key]
<1>1. /\ pos \in Nat /\ pos' = pos + 1 /\ src' = src
      /\ l.kind = "option" /\ l.key # NoKey
      /\ opt' = [k \in DOMAIN opt \cup {key} |-> IF k = key THEN l.text ELSE opt[k]]
  BY DEF NextLine, message, TypeOK, StoreOption, StoredKey
<1>2. \A k : Sets(pos + 1, k) <=> k = key
  BY <1>1 DEF Sets
<1>3. ASSUME NEW k \in DOMAIN opt'
      PROVE  \E p \in 1 .. pos + 1 : /\ Sets(p, k) /\ opt'[k] = src[p].text
                                     /\ \A q \in p + 1 .. pos + 1 : ~Sets(q, k)
  <2>1. CASE k = key
    <3>1. Sets(pos + 1, k) /\ opt'[k] = src[pos + 1].text
      BY <1>1, <1>2, <2>1
    <3>. QED BY <1>1, <3>1
  <2>2. CASE k # key
    <3>1. k \in DOMAIN opt /\ opt'[k] = opt[k] /\ ~Sets(pos + 1, k)
      BY <1>1, <1>2, <1>3, <2>2
    <3>2. PICK p \in 1 .. pos : /\ Sets(p, k) /\ opt[k] = src[p].text
                                /\ \A q \in p + 1 .. pos : ~Sets(q, k)
      BY <3>1 DEF LastOptionCounts
    <3>. QED BY <1>1, <3>1, <3>2
  <2>. QED BY <2>1, <2>2
<1>4. \A p \in 1 .. pos + 1 : \A k \in Keys : Sets(p, k) => k \in DOMAIN opt'
  BY <1>1, <1>2 DEF LastOptionCounts
<1> HIDE DEF l, key
<1>. QED BY <1>1, <1>3, <1>4 DEF LastOptionCounts, Sets

LEMMA KeysStep == Inv /\ LastOptionCounts /\ [Next]_vars => LastOptionCounts'
<1> SUFFICES ASSUME Inv, LastOptionCounts, [Next]_vars PROVE LastOptionCounts'
  OBVIOUS
<1>0. TypeOK
  BY DEF Inv
<1> USE DEF message
<1>1. CASE ReadRequestLine \/ ReadStatusLine \/ Finish \/ UNCHANGED vars
  BY <1>1 DEF ReadRequestLine, ReadStatusLine, Finish, vars, LastOptionCounts, Sets
<1>2. CASE StoreIndexed \/ DropIndexed \/ StoreScalar
  BY <1>0, <1>2, OtherKey DEF StoreIndexed, DropIndexed, StoreScalar
<1>3. CASE StoreOption
  BY <1>0, <1>3, OptionStep
<1>4. CASE SkipLine
  BY <1>0, <1>4, OtherKey DEF SkipLine
<1>5. CASE WriteField
  <2>1. pos = 0 /\ pos' = 0 /\ opt' = opt
    BY <1>5 DEF WriteField, Inv, Writing
  <2>. QED BY <2>1 DEF LastOptionCounts
<1>6. CASE Send
  BY <1>6 DEF Send, LastOptionCounts, Sets
<1>. QED BY <1>1, <1>2, <1>3, <1>4, <1>5, <1>6 DEF Next

-----------------------------------------------------------------------------
(* A reply, written and read back. *)

\* What the parser holds as the scalar is the text of a scalar line it has read.
ScalarRead ==
  (\E p \in 1 .. pos : src[p].kind = "scalar")
     => \E p \in 1 .. pos : src[p].kind = "scalar" /\ scalar = src[p].text

LEMMA ScalarStep == Inv /\ ScalarRead /\ [Next]_vars => ScalarRead'
<1> SUFFICES ASSUME Inv, ScalarRead, [Next]_vars PROVE ScalarRead'
  OBVIOUS
<1> USE DEF message
<1>0. pos \in Nat
  BY DEF Inv, TypeOK
<1>1. CASE Send \/ ReadRequestLine \/ ReadStatusLine \/ Finish \/ UNCHANGED vars
  BY <1>1 DEF Send, ReadRequestLine, ReadStatusLine, Finish, vars, ScalarRead
<1>2. CASE StoreScalar
  BY <1>0, <1>2 DEF StoreScalar, NextLine, ScalarRead
<1>3. CASE StoreIndexed \/ DropIndexed \/ StoreOption \/ SkipLine
  <2>1. /\ pos' = pos + 1 /\ src' = src /\ scalar' = scalar
        /\ src[pos + 1].kind # "scalar"
    BY <1>3 DEF StoreIndexed, DropIndexed, StoreOption, SkipLine, NextLine
  <2>. QED BY <1>0, <2>1 DEF ScalarRead
<1>4. CASE WriteField
  BY <1>4 DEF WriteField, Inv, Writing, ScalarRead
<1>. QED BY <1>1, <1>2, <1>3, <1>4 DEF Next

\* The lines on the wire, when w fields of o are written: each field's own line
\* is there, and if o is harmless every other line is skipped.
WireOf(s, o, w) ==
  /\ w \in 0 .. Len(Fields(o))
  /\ \A i \in 1 .. w : \E p \in 1 .. Len(s) : s[p] = Lines(o)[i]
  /\ Harmless(o) => \A p \in 1 .. Len(s) :
       s[p].kind = "noise" \/ \E i \in 1 .. w : s[p] = Lines(o)[i]

LEMMA WireStep ==
  ASSUME NEW o \in OutputObject, NEW s \in Seq(Line), NEW w, WireOf(s, o, w), w < Len(Fields(o))
  PROVE  WireOf(s \o OnWire(Fields(o)[w + 1]), o, w + 1)
<1> DEFINE f == Fields(o)[w + 1]
           b == Behind[f.text]
           l == FieldLine(f)
           t == s \o OnWire(f)
<1>1. /\ w \in Nat /\ Len(Fields(o)) \in Nat /\ w + 1 \in 1 .. Len(Fields(o))
      /\ Lines(o)[w + 1] = l /\ FieldOf(f, o)
  BY ReplyLines DEF WireOf
<1>2. b \in Seq(Line) /\ l \in Line
  BY <1>1, TextAssumption DEF FieldOf
<1>3. /\ Len(t) = Len(s) + 1 + Len(b)
      /\ \A p \in 1 .. Len(s) : t[p] = s[p]
      /\ t[Len(s) + 1] = l
      /\ \A p \in 1 .. Len(b) : t[Len(s) + 1 + p] = b[p]
  <2> HIDE DEF f, b, l
  <2>3. /\ <<l>> \o b \in Seq(Line) /\ Len(<<l>> \o b) = 1 + Len(b)
        /\ (<<l>> \o b)[1] = l
        /\ \A p \in 1 .. Len(b) : (<<l>> \o b)[1 + p] = b[p]
    BY <1>2, Prepended
  <2>4. PICK g \in Seq(Line) : g = <<l>> \o b
    BY <2>3
  <2>5. /\ Len(s \o g) = Len(s) + Len(g)
        /\ \A p \in 1 .. Len(s) : (s \o g)[p] = s[p]
        /\ \A p \in 1 .. Len(g) : (s \o g)[Len(s) + p] = g[p]
    OBVIOUS
  <2>6. t = s \o g
    <3>1. OnWire(f) = <<l>> \o b
      BY DEF OnWire, b, l
    <3>. QED BY <2>4, <3>1
  <2>7. Len(s) \in Nat /\ Len(b) \in Nat
    BY <1>2
  <2>8. Len(g) = 1 + Len(b) /\ g[1] = l /\ \A p \in 1 .. Len(b) : g[1 + p] = b[p]
    BY <2>3, <2>4
  <2>9. \A p \in 1 .. Len(b) : (s \o g)[Len(s) + 1 + p] = b[p]
    <3>1. ASSUME NEW p \in 1 .. Len(b) PROVE (s \o g)[Len(s) + 1 + p] = b[p]
      <4>1. 1 + p \in 1 .. Len(g) /\ Len(s) + 1 + p = Len(s) + (1 + p)
        BY <2>7, <2>8
      <4>. QED BY <2>5, <2>8, <4>1
    <3>. QED BY <3>1
  <2>10. (s \o g)[Len(s) + 1] = l /\ Len(s \o g) = Len(s) + 1 + Len(b)
    BY <2>5, <2>7, <2>8
  <2>. QED BY <2>5, <2>6, <2>9, <2>10
<1>4. ASSUME NEW i \in 1 .. w + 1 PROVE \E p \in 1 .. Len(t) : t[p] = Lines(o)[i]
  <2> HIDE DEF f, b, l, t
  <2>1. CASE i = w + 1
    BY <1>1, <1>2, <1>3, <2>1
  <2>2. CASE i \in 1 .. w
    <3>1. PICK p \in 1 .. Len(s) : s[p] = Lines(o)[i]
      BY <2>2 DEF WireOf
    <3>. QED BY <1>2, <1>3, <3>1
  <2>. QED BY <1>1, <2>1, <2>2
<1>5. ASSUME Harmless(o), NEW p \in 1 .. Len(t)
      PROVE  t[p].kind = "noise" \/ \E i \in 1 .. w + 1 : t[p] = Lines(o)[i]
  <2>0. \A q \in 1 .. Len(b) : b[q].kind = "noise"
    <3>1. CASE f.text = CharsetText
      <4>1. b = <<>>
        BY <3>1, TextAssumption DEF LineTexts
      <4>. QED BY <4>1
    <3>2. CASE f.text \in WrittenTexts(o)
      <4>1. \A q \in DOMAIN b : b[q].kind = "noise"
        BY <1>5, <3>2 DEF Harmless
      <4>2. DOMAIN b = 1 .. Len(b)
        BY <1>2
      <4>. QED BY <4>1, <4>2
    <3>. QED BY <1>1, <3>1, <3>2 DEF FieldOf
  <2> HIDE DEF f, b, l, t
  <2>1. CASE p \in 1 .. Len(s)
    <3>1. s[p].kind = "noise" \/ \E i \in 1 .. w : s[p] = Lines(o)[i]
      BY <1>5, <2>1 DEF WireOf
    <3>. QED BY <1>1, <1>3, <2>1, <3>1
  <2>2. CASE p = Len(s) + 1
    BY <1>1, <1>3, <2>2
  <2>3. CASE p > Len(s) + 1
    <3>1. p - (Len(s) + 1) \in 1 .. Len(b) /\ p = Len(s) + 1 + (p - (Len(s) + 1))
      BY <1>2, <1>3, <2>3
    <3>. QED BY <1>3, <2>0, <3>1
  <2>. QED BY <1>2, <1>3, <2>1, <2>2, <2>3
<1> HIDE DEF t
<1>6. w + 1 \in 0 .. Len(Fields(o))
  BY <1>1
<1>. QED BY <1>4, <1>5, <1>6 DEF WireOf, t

\* What the parser of replies is given, and what it makes of the status line.
ReplyRead ==
  /\ sent \in OutputObject /\ first = StatusOf(sent)
  /\ WireOf(src, sent, written)
  /\ phase # "write" => written = Len(Fields(sent))
  /\ phase \notin {"write", "first"} => status = IF first \in {200, 204, 400} THEN first ELSE 500
  /\ phase = "done" => pos = Len(src)

LEMMA ReplyStep ==
  TypeOK /\ (dir = "response" => ReplyRead) /\ [Next]_vars => (dir = "response" => ReplyRead)'
<1> SUFFICES ASSUME TypeOK, dir = "response" => ReplyRead, [Next]_vars, dir' = "response"
             PROVE  ReplyRead'
  OBVIOUS
<1> USE DEF message, ReplyRead
<1>1. CASE ReadRequestLine
  BY <1>1 DEF ReadRequestLine, WireOf
<1>1a. CASE ReadStatusLine
  <2>1. /\ dir' = dir /\ sent' = sent /\ first' = first /\ src' = src /\ written' = written
        /\ phase = "first" /\ phase' = "lines"
        /\ status' = IF first \in {200, 204, 400} THEN first ELSE 500
    BY <1>1a DEF ReadStatusLine
  <2>. QED BY <2>1 DEF WireOf
<1>2. CASE StoreIndexed \/ DropIndexed \/ StoreScalar \/ StoreOption \/ SkipLine
  <2>1. PICK kind : NextLine(kind)
    BY <1>2 DEF StoreIndexed, DropIndexed, StoreScalar, StoreOption, SkipLine
  <2>. QED BY <2>1 DEF NextLine, WireOf
<1>3. CASE Finish \/ UNCHANGED vars
  BY <1>3 DEF Finish, vars, WireOf
<1>4. CASE WriteField
  <2>1. /\ src' = src \o OnWire(Fields(sent)[written + 1]) /\ written' = written + 1
        /\ written < Len(Fields(sent))
        /\ dir' = dir /\ sent' = sent /\ first' = first /\ phase' = phase /\ phase = "write"
    BY <1>4 DEF WriteField
  <2>2. WireOf(src', sent, written')
    BY <2>1, WireStep DEF TypeOK
  <2>. QED BY <2>1, <2>2 DEF WireOf
<1>5. CASE Send
  BY <1>5 DEF Send, WireOf
<1>. QED BY <1>1, <1>1a, <1>2, <1>3, <1>4, <1>5 DEF Next

\* Where the parser is when a reply has been read.
ReplyDone == Inv /\ LastOptionCounts /\ ScalarRead /\ ReplyRead /\ phase = "done"

\* Whatever is behind its line breaks, no value and no key of the reply is lost.
LEMMA NothingLost ==
  ASSUME ReplyDone
  PROVE  /\ Len(vec) >= Len(sent.values)
         /\ DOMAIN sent.opts \cup {CharsetKey} \subseteq DOMAIN opt
<1> DEFINE s == Lines(sent)
<1>0. /\ sent \in OutputObject /\ pos = Len(src) /\ TypeOK
      /\ written = Len(Fields(sent)) /\ WireOf(src, sent, written)
  BY DEF ReplyDone, ReplyRead, Inv
<1>0a. PICK K \in Nat, n \in Nat : \E keys : LinesOfReply(s, sent, K, n, keys)
  BY <1>0, ReplyLines
<1>1. PICK keys : LinesOfReply(s, sent, K, n, keys)
  BY <1>0a
<1>2. \A i \in 1 .. 2 + K + n : \E p \in 1 .. pos : src[p] = s[i]
  <2>1. Len(Fields(sent)) = 2 + K + n
    BY <1>0, <1>1, ReplyLines DEF LinesOfReply
  <2>. QED BY <1>0, <2>1 DEF WireOf
<1> USE DEF LinesOfReply
<1> HIDE DEF s
<1>3. Len(vec) >= Len(sent.values)
  <2>1. Len(sent.values) = n /\ Len(vec) \in Nat
    BY <1>0, <1>1 DEF TypeOK
  <2>2. CASE n = 0
    BY <2>1, <2>2
  <2>3. CASE n > 0
    <3>1. Taken(s[2 + K + n]) /\ s[2 + K + n].ord = n - 1
      BY <1>1, <2>3
    <3>2. PICK p \in 1 .. pos : src[p] = s[2 + K + n]
      BY <1>2, <2>3
    <3>3. n - 1 < Len(vec)
      BY <3>1, <3>2 DEF ReplyDone, Inv, FieldsInPlace
    <3>. QED BY <2>1, <3>3
  <2>. QED BY <2>2, <2>3
<1>4. CharsetKey \in DOMAIN opt
  <2>1. PICK p \in 1 .. pos : src[p] = s[1]
    BY <1>2
  <2>2. Sets(p, CharsetKey)
    BY <1>1, <2>1, KeyAssumption DEF Sets
  <2>. QED BY <2>2, KeyAssumption DEF ReplyDone, LastOptionCounts
<1>5. ASSUME NEW k \in DOMAIN sent.opts PROVE k \in DOMAIN opt
  <2>1. k \in Keys /\ k # NoKey /\ Canon[k] = k
    BY <1>0, KeyAssumption DEF OutputObject, PluginKeys
  <2>2. PICK i \in 1 .. K : keys[i] = k
    BY <1>1
  <2>3. PICK p \in 1 .. pos : src[p] = s[2 + i]
    BY <1>2
  <2>4. Sets(p, k)
    BY <1>1, <2>1, <2>2, <2>3 DEF Sets
  <2>. QED BY <2>1, <2>4 DEF ReplyDone, LastOptionCounts
<1>. QED BY <1>3, <1>4, <1>5

\* A harmless reply is read back, each text up to its first line break.
LEMMA ReadBack ==
  ASSUME ReplyDone, Harmless(sent)
  PROVE  /\ vec = [i \in DOMAIN sent.values |-> Cut[Flat[sent.values[i]]]]
         /\ scalar = Cut[sent.result]
         /\ DOMAIN opt = DOMAIN sent.opts \cup {CharsetKey}
         /\ \A k \in DOMAIN sent.opts : opt[k] = Cut[sent.opts[k]]
<1> DEFINE s == Lines(sent)
<1>0. /\ sent \in OutputObject /\ pos = Len(src) /\ TypeOK
      /\ written = Len(Fields(sent)) /\ WireOf(src, sent, written)
  BY DEF ReplyDone, ReplyRead, Inv
<1>0a. PICK K \in Nat, n \in Nat : \E keys : LinesOfReply(s, sent, K, n, keys)
  BY <1>0, ReplyLines
<1>1. PICK keys : LinesOfReply(s, sent, K, n, keys)
  BY <1>0a
<1>1a. /\ \A i \in 1 .. 2 + K + n : \E p \in 1 .. pos : src[p] = s[i]
       /\ \A p \in 1 .. pos : src[p].kind = "noise" \/ \E i \in 1 .. 2 + K + n : src[p] = s[i]
  <2>1. Len(Fields(sent)) = 2 + K + n
    BY <1>0, <1>1, ReplyLines DEF LinesOfReply
  <2>. QED BY <1>0, <2>1 DEF WireOf
<1>1b. \A i \in 1 .. n : /\ Taken(s[2 + K + i])
                          /\ s[2 + K + i].ord = i - 1
                          /\ s[2 + K + i].text = Cut[Flat[sent.values[i]]]
  BY <1>1 DEF LinesOfReply
<1>1c. K \in Nat /\ n \in Nat
  OBVIOUS
<1> USE DEF LinesOfReply
<1> HIDE DEF s
<1>2. ASSUME NEW p \in 1 .. pos, src[p].kind # "noise"
      PROVE  \/ src[p] = s[1] \/ src[p] = s[2]
             \/ (\E i \in 1 .. K : src[p] = s[2 + i]) \/ (\E i \in 1 .. n : src[p] = s[2 + K + i])
  <2>1. PICK q \in 1 .. 2 + K + n : src[p] = s[q]
    BY <1>1a, <1>2
  <2>2. q = 1 \/ q = 2 \/ (\E i \in 1 .. K : q = 2 + i) \/ (\E i \in 1 .. n : q = 2 + K + i)
    BY PlaceOf
  <2>. QED BY <2>1, <2>2
<1>3. \A k \in DOMAIN sent.opts : k \in Keys /\ k # NoKey /\ Canon[k] = k /\ k # CharsetKey
  BY <1>0, KeyAssumption DEF OutputObject, PluginKeys
<1>4. ASSUME NEW m \in Nat, NEW p \in 1 .. pos, Names(p, m)
      PROVE  m + 1 \in 1 .. n /\ src[p].text = Cut[Flat[sent.values[m + 1]]]
  <2>1. src[p].kind = "indexed" /\ src[p].ord = m
    BY <1>4 DEF Names, Taken
  <2>2. PICK i \in 1 .. n : src[p] = s[2 + K + i]
    BY <1>1, <1>2, <2>1
  <2>3. src[p].ord = i - 1 /\ src[p].text = Cut[Flat[sent.values[i]]]
    BY <1>1b, <2>2
  <2>4. i = m + 1
    BY <1>1c, <2>1, <2>3
  <2>. QED BY <2>3, <2>4
<1>5. ASSUME NEW i \in 1 .. n PROVE \E p \in 1 .. pos : Names(p, i - 1)
  <2>1. PICK p \in 1 .. pos : src[p] = s[2 + K + i]
    BY <1>1a
  <2>2. Taken(s[2 + K + i]) /\ s[2 + K + i].ord = i - 1
    BY <1>1b
  <2>. QED BY <2>1, <2>2 DEF Names
<1>6. Len(vec) = n
  <2>1. Len(vec) \in Nat /\ vec \in Seq(LineTexts)
    BY <1>0 DEF TypeOK
  <2>2. n <= Len(vec)
    <3>1. Len(sent.values) = n
      BY <1>1
    <3>. QED BY <2>1, <3>1, NothingLost
  <2>3. Len(vec) <= n
    <3>1. CASE vec = <<>>
      BY <3>1
    <3>2. CASE vec # <<>>
      <4>1. PICK p \in 1 .. pos : Names(p, Len(vec) - 1)
        BY <3>2 DEF ReplyDone, Inv, FieldsInPlace
      <4>2. Len(vec) - 1 \in Nat
        BY <2>1, <3>2
      <4>. QED BY <1>4, <2>1, <4>1, <4>2
    <3>. QED BY <3>1, <3>2
  <2>. QED BY <2>1, <2>2, <2>3
<1>7. vec = [i \in DOMAIN sent.values |-> Cut[Flat[sent.values[i]]]]
  <2>1. ASSUME NEW i \in 1 .. n PROVE vec[i] = Cut[Flat[sent.values[i]]]
    <3>1. FieldIs(i - 1, vec[i])
      BY <1>6 DEF ReplyDone, Inv, FieldsInPlace
    <3>2. PICK p \in 1 .. pos : Names(p, i - 1) /\ vec[i] = src[p].text
      BY <1>5, <3>1 DEF FieldIs
    <3>3. i - 1 \in Nat /\ (i - 1) + 1 = i
      BY <1>1
    <3>. QED BY <1>4, <3>2, <3>3
  <2>2. DOMAIN vec = 1 .. n /\ DOMAIN sent.values = 1 .. n
    BY <1>0, <1>1, <1>6 DEF TypeOK
  <2>3. vec = [i \in 1 .. n |-> vec[i]]
    BY <1>0, <2>2 DEF TypeOK
  <2>. QED BY <2>1, <2>2, <2>3
<1>8. scalar = Cut[sent.result]
  <2>1. \E p \in 1 .. pos : src[p] = s[2]
    BY <1>1a
  <2>2. PICK p \in 1 .. pos : src[p].kind = "scalar" /\ scalar = src[p].text
    BY <1>1, <2>1 DEF ReplyDone, ScalarRead
  <2>3. src[p] = s[2]
    BY <1>1, <1>2, <2>2
  <2>. QED BY <1>1, <2>2, <2>3
<1>9. ASSUME NEW p \in 1 .. pos, NEW k, Sets(p, k)
      PROVE  \/ k = CharsetKey
             \/ k \in DOMAIN sent.opts /\ src[p].text = Cut[sent.opts[k]]
  <2>1. src[p].kind = "option" /\ k = Canon[src[p].key]
    BY <1>9 DEF Sets
  <2>2. src[p] = s[1] \/ \E i \in 1 .. K : src[p] = s[2 + i]
    BY <1>1, <1>2, <2>1
  <2>3. CASE src[p] = s[1]
    BY <1>1, <2>1, <2>3, KeyAssumption
  <2>4. CASE \E i \in 1 .. K : src[p] = s[2 + i]
    <3>1. PICK i \in 1 .. K : src[p] = s[2 + i]
      BY <2>4
    <3>2. keys[i] \in DOMAIN sent.opts /\ src[p].key = keys[i]
          /\ src[p].text = Cut[sent.opts[keys[i]]]
      BY <1>1, <3>1
    <3>. QED BY <1>3, <2>1, <3>2
  <2>. QED BY <2>2, <2>3, <2>4
<1>12. DOMAIN opt = DOMAIN sent.opts \cup {CharsetKey}
  <2>1. DOMAIN opt \subseteq DOMAIN sent.opts \cup {CharsetKey}
    BY <1>9 DEF ReplyDone, LastOptionCounts
  <2>. QED BY <2>1, NothingLost
<1>13. \A k \in DOMAIN sent.opts : opt[k] = Cut[sent.opts[k]]
  BY <1>3, <1>9, <1>12 DEF ReplyDone, LastOptionCounts
<1>. QED BY <1>7, <1>8, <1>12, <1>13

\* The status that is read is the one that was sent, but for the two codes
\* toString replaces.
LEMMA StatusBack ==
  ASSUME ReplyDone
  PROVE  \/ status = sent.code
         \/ status = 200 /\ sent.code = 0
         \/ /\ status = 204 /\ sent.code = 200 /\ vec = <<>> /\ scalar = Empty
            /\ DOMAIN opt = {CharsetKey}
<1>1. /\ sent.code \in {0, 200, 204, 400, 500}
      /\ status = IF StatusOf(sent) \in {200, 204, 400} THEN StatusOf(sent) ELSE 500
  BY DEF ReplyDone, ReplyRead, OutputObject, ResultCodes
<1>2. CASE sent.code = 200 /\ Blank(sent)
  <2>1. status = 204
    BY <1>1, <1>2 DEF StatusOf
  <2>2. sent.values = <<>> /\ sent.result = Empty /\ DOMAIN sent.opts = {}
    BY <1>2 DEF Blank
  <2>3. WrittenTexts(sent) = {Empty}
    BY <2>2 DEF WrittenTexts
  <2>4. Behind[Empty] = <<>> /\ Cut[Empty] = Empty
    BY TextAssumption DEF LineTexts
  <2>5. Harmless(sent)
    BY <2>3, <2>4 DEF Harmless
  <2>6. vec = <<>> /\ scalar = Empty /\ DOMAIN opt = {CharsetKey}
    BY <2>2, <2>4, <2>5, ReadBack
  <2>. QED BY <1>2, <2>1, <2>6
<1>3. CASE sent.code # 200 \/ ~Blank(sent)
  BY <1>1, <1>3 DEF StatusOf
<1>. QED BY <1>2, <1>3

\* Both parsers at once: everything that holds while the lines are read.
ParserInv == /\ Inv /\ LastOptionCounts /\ ScalarRead
             /\ dir = "response" => ReplyRead

LEMMA InitParserInv == Init => ParserInv
<1> SUFFICES ASSUME Init PROVE ParserInv
  OBVIOUS
<1>1. Inv
  BY InitInv
<1>2. LastOptionCounts /\ ScalarRead
  BY DEF Init, LastOptionCounts, ScalarRead
<1>3. dir = "response" => ReplyRead
  <2>1. CASE ResponseInit
    <3>1. src = <<>> /\ written = 0 /\ sent \in OutputObject
      BY <2>1 DEF Init, ResponseInit
    <3>2. WireOf(src, sent, written)
      BY <3>1, ReplyLines DEF WireOf
    <3>. QED BY <2>1, <3>2 DEF ResponseInit, ReplyRead
  <2>. QED BY <2>1 DEF Init, RequestInit
<1>. QED BY <1>1, <1>2, <1>3 DEF ParserInv

LEMMA StepParserInv == ParserInv /\ [Next]_vars => ParserInv'
<1> SUFFICES ASSUME ParserInv, [Next]_vars PROVE ParserInv'
  OBVIOUS
<1>1. Inv'
  BY StepInv DEF ParserInv
<1>2. LastOptionCounts'
  BY KeysStep DEF ParserInv
<1>3. ScalarRead'
  BY ScalarStep DEF ParserInv
<1>4. (dir = "response" => ReplyRead)'
  BY ReplyStep DEF ParserInv, Inv
<1>. QED BY <1>1, <1>2, <1>3, <1>4 DEF ParserInv

-----------------------------------------------------------------------------
(***************************************************************************)
(* For every message, every set of texts and keys and every bound: each     *)
(* number the host wrote is at its place in the vector, the last text it    *)
(* gave winning, and the gaps are empty (csaori_base.cpp 78-92).            *)
(***************************************************************************)
THEOREM FieldsAlwaysInPlace == Spec => []FieldsInPlace
<1>1. Inv => FieldsInPlace
  BY DEF Inv
<1>. QED BY <1>1, InitInv, StepInv, PTL DEF Spec

\* The parsers keep their types.
THEOREM MessageTypeCorrect == Spec => []TypeOK
<1>1. Inv => TypeOK
  BY DEF Inv
<1>. QED BY <1>1, InitInv, StepInv, PTL DEF Spec

(***************************************************************************)
(* For every message and every spelling of its keys: of the lines with one  *)
(* key the last one counts, and no key is missed (csaori_base.cpp 93-117).   *)
(***************************************************************************)
THEOREM LastOptionAlwaysCounts == Spec => []LastOptionCounts
<1>1. ParserInv => LastOptionCounts
  BY DEF ParserInv
<1>. QED BY <1>1, InitParserInv, StepParserInv, PTL DEF Spec

(***************************************************************************)
(* Whatever values, keys and texts an implementation puts into a reply, and *)
(* whatever its line breaks make of the lines: no value and no key that     *)
(* CSAORIOutput::toString wrote is lost to CSAORIOutput::parseString, and   *)
(* the status is read back.  Where nothing behind a break reads as a header *)
(* each field is read back up to its first line break                       *)
(* (csaori_base.cpp 142-287).                                               *)
(***************************************************************************)
THEOREM ReplySurvivesTheWire == Spec => []RoundTrip
<1>1. ParserInv => RoundTrip
  <2> SUFFICES ASSUME ParserInv, dir = "response", phase = "done" PROVE RoundTrip
    BY DEF RoundTrip
  <2>1. ReplyDone
    BY DEF ParserInv, ReplyDone
  <2>. QED BY <2>1, NothingLost, ReadBack, StatusBack DEF RoundTrip
<1>. QED BY <1>1, InitParserInv, StepParserInv, PTL DEF Spec
=============================================================================
