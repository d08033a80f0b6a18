----------------------------- MODULE GainerProofs -----------------------------
(***************************************************************************)
(* Proofs about gainer: a reply is the reply to the command that waits, and *)
(* the plugin knows the configuration of the board, for any configurations, *)
(* patterns, and lengths of the line, while no message is lost or strays.   *)
(***************************************************************************)
EXTENDS Gainer, SequenceTheorems, WellFoundedInduction, TLAPS

-----------------------------------------------------------------------------
(* The scripts. *)

Modes == Configs \cup {1}

\* What is left of Open's script, of Exit's and of Search's.
O1 == <<<<"Qn">>, <<"start">>, <<"wait">>, <<"?">>, <<"hwnd">>>>
O2 == <<<<"start">>, <<"wait">>, <<"?">>, <<"hwnd">>>>
O3 == <<<<"wait">>, <<"?">>, <<"hwnd">>>>
O4 == <<<<"?">>, <<"hwnd">>>>
O5 == <<<<"hwnd">>>>
X2 == <<<<"Qn">>, <<"join">>, <<"close">>>>
X3 == <<<<"join">>, <<"close">>>>
X4 == <<<<"close">>>>
G1 == <<<<"getc">>, <<"close">>>>

Opening(s) == s \in {O1, O2, O3, O4, O5}
Leaving(s) == s \in {Exit, X2, X3, X4}

\* A configuration has the command.
Fits(cmd, c) ==
  /\ c # 0 /\ cmd[1] \notin {"Q", "Qn", "K", "?"}
  /\ cmd[1] \in {"R", "r"} => c \in DIN
  /\ cmd[1] \in {"I", "i"} => c \in AIN
  /\ cmd[1] = "D" => c \in DOUT
  /\ cmd[1] \in {"A", "s"} => c \in AOUT
  /\ cmd[1] = "P" => c = 8
  /\ cmd[1] = "a" => c = MATRIX

Simple(s, c) == \A i \in DOMAIN s : s[i] \in Command /\ Fits(s[i], c)

\* The script of a subcommand, at any point, in the configuration c: its
\* commands are those of c, or of the configuration that it sets before.
Work(s, c, w) ==
  \/ Simple(s, c)
  \/ s = <<<<"Q">>>>
  \/ \E m \in Modes : s = <<<<"Q">>, <<"K", m>>>>
  \/ \E m \in Modes : /\ s # <<>> /\ s[1] = <<"K", m>> /\ Simple(Tail(s), m)
                      /\ c = IF w THEN m ELSE 0

LEMMA ScriptTails ==
  /\ Tail(O1) = O2 /\ Tail(O2) = O3 /\ Tail(O3) = O4 /\ Tail(O4) = O5 /\ Tail(O5) = <<>>
  /\ Tail(Exit) = X2 /\ Tail(X2) = X3 /\ Tail(X3) = X4 /\ Tail(X4) = <<>> /\ Tail(G1) = X4
BY DEF O1, O2, O3, O4, O5, Exit, X2, X3, X4, G1

LEMMA ScriptHeads ==
  /\ O1 # <<>> /\ O2 # <<>> /\ O3 # <<>> /\ O4 # <<>> /\ O5 # <<>>
  /\ Exit # <<>> /\ X2 # <<>> /\ X3 # <<>> /\ X4 # <<>> /\ G1 # <<>>
  /\ Head(O1) = <<"Qn">> /\ Head(O2) = <<"start">> /\ Head(O3) = <<"wait">>
  /\ Head(O4) = <<"?">> /\ Head(O5) = <<"hwnd">>
  /\ Head(Exit) = <<"end">> /\ Head(X2) = <<"Qn">> /\ Head(X3) = <<"join">>
  /\ Head(X4) = <<"close">> /\ Head(G1) = <<"getc">>
BY DEF O1, O2, O3, O4, O5, Exit, X2, X3, X4, G1

LEMMA ScriptTypes ==
  /\ O1 \in Seq(Step) /\ O2 \in Seq(Step) /\ O3 \in Seq(Step) /\ O4 \in Seq(Step) /\ O5 \in Seq(Step)
  /\ Exit \in Seq(Step) /\ X2 \in Seq(Step) /\ X3 \in Seq(Step) /\ X4 \in Seq(Step)
  /\ G1 \in Seq(Step)
<1>1. /\ <<"Qn">> \in Step /\ <<"start">> \in Step /\ <<"wait">> \in Step /\ <<"?">> \in Step
      /\ <<"hwnd">> \in Step /\ <<"end">> \in Step /\ <<"join">> \in Step /\ <<"close">> \in Step
      /\ <<"getc">> \in Step
  BY DEF Step, Command, Waited
<1> HIDE DEF Step
<1>2. /\ O1 \in Seq(Step) /\ O2 \in Seq(Step) /\ O3 \in Seq(Step) /\ O4 \in Seq(Step)
      /\ O5 \in Seq(Step)
  BY <1>1 DEF O1, O2, O3, O4, O5
<1>3. /\ Exit \in Seq(Step) /\ X2 \in Seq(Step) /\ X3 \in Seq(Step) /\ X4 \in Seq(Step)
      /\ G1 \in Seq(Step)
  BY <1>1 DEF Exit, X2, X3, X4, G1
<1>. QED BY <1>2, <1>3

\* Commands by their letters.
LEMMA CommandShape ==
  ASSUME NEW cmd \in Command
  PROVE  /\ cmd \in Step /\ cmd[1] \in Waited \cup {"r", "i", "a", "Qn"}
         /\ cmd[1] = "K" => cmd = <<"K", cmd[2]>> /\ cmd[2] \in Modes
         /\ cmd[1] = "a" => cmd = <<"a", cmd[2], cmd[3]>> /\ cmd[2] \in Rows /\ cmd[3] \in Patterns
         /\ cmd[1] \notin {"K", "a"} => cmd = <<cmd[1]>>
<1>1. CASE cmd \in {<<c>> : c \in (Waited \ {"K"}) \cup {"r", "i", "Qn"}}
  BY <1>1 DEF Step, Waited
<1>2. CASE cmd \in {<<"K", m>> : m \in Configs \cup {1}}
  BY <1>2 DEF Step, Waited, Modes
<1>3. CASE cmd \in {<<"a", r, p>> : r \in Rows, p \in Patterns}
  BY <1>3 DEF Step, Waited
<1>. QED BY <1>1, <1>2, <1>3 DEF Command

LEMMA StepShape ==
  ASSUME NEW x \in Step
  PROVE  x \in Command \/ \E w \in {"getc", "start", "wait", "hwnd", "end", "join", "close"} : x = <<w>>
BY DEF Step

LEMMA FitsLetters ==
  ASSUME NEW cmd \in Command, NEW c, Fits(cmd, c)
  PROVE  c # 0 /\ cmd[1] \in {"h", "R", "I", "E", "D", "A", "s", "P", "r", "i", "a"}
BY CommandShape DEF Fits, Waited

-----------------------------------------------------------------------------
(* Letters on their way to the host. *)

Quiet == {"r", "i", "N", "F"}

\* Does processEvent queue e in the configuration c?
Loud(e, c) == e \notin Quiet /\ ~(c = MATRIX /\ e = "a")

Silent(s, c) == \A i \in DOMAIN s : ~Loud(s[i], c)
Still(s)     == \A i \in DOMAIN s : s[i] \in Quiet

\* A letter of L, none that is queued before it, and only reports after it.
Once(s, L, c) ==
  \E k \in DOMAIN s : /\ s[k] \in L
                      /\ \A j \in DOMAIN s : j < k => ~Loud(s[j], c)
                      /\ \A j \in DOMAIN s : j > k => s[j] \in Quiet

LEMMA QueuesLoud == \A e : Queues(e) <=> Loud(e, m_config)
BY DEF Queues, Loud, Quiet

LEMMA EmptyStill == Still(<<>>)
BY DEF Still

LEMMA StillSilent == ASSUME NEW s, NEW c, Still(s) PROVE Silent(s, c)
BY DEF Still, Silent, Loud

LEMMA AppendLetter ==
  ASSUME NEW s \in Seq(Letter), NEW e \in Letter, NEW c, NEW L
  PROVE  /\ Still(s) /\ e \in Quiet => Still(Append(s, e))
         /\ Silent(s, c) /\ ~Loud(e, c) => Silent(Append(s, e), c)
         /\ Silent(s, c) /\ e \in L => Once(Append(s, e), L, c)
         /\ Once(s, L, c) /\ e \in Quiet => Once(Append(s, e), L, c)
<1> DEFINE t == Append(s, e)
<1>1. /\ DOMAIN s = 1 .. Len(s) /\ Len(s) \in Nat /\ DOMAIN t = 1 .. Len(s) + 1
      /\ t[Len(s) + 1] = e /\ \A i \in DOMAIN s : t[i] = s[i]
  BY AppendProperties, LenProperties
<1> HIDE DEF t
<1>2. Still(s) /\ e \in Quiet => Still(t)
  BY <1>1 DEF Still
<1>3. Silent(s, c) /\ ~Loud(e, c) => Silent(t, c)
  BY <1>1 DEF Silent
<1>4. Silent(s, c) /\ e \in L => Once(t, L, c)
  <2> SUFFICES ASSUME Silent(s, c), e \in L PROVE Once(t, L, c)
    OBVIOUS
  <2>1. Len(s) + 1 \in DOMAIN t /\ t[Len(s) + 1] \in L
    BY <1>1
  <2>2. \A j \in DOMAIN t : j < Len(s) + 1 => ~Loud(t[j], c)
    BY <1>1 DEF Silent
  <2>3. \A j \in DOMAIN t : ~(j > Len(s) + 1)
    BY <1>1
  <2>. QED BY <2>1, <2>2, <2>3 DEF Once
<1>5. ASSUME Once(s, L, c), e \in Quiet PROVE Once(t, L, c)
  <2>1. PICK k \in DOMAIN s : /\ s[k] \in L
                              /\ \A j \in DOMAIN s : j < k => ~Loud(s[j], c)
                              /\ \A j \in DOMAIN s : j > k => s[j] \in Quiet
    BY <1>5 DEF Once
  <2>2. k \in DOMAIN t /\ t[k] \in L
    BY <1>1, <2>1
  <2>3. \A j \in DOMAIN t : j < k => ~Loud(t[j], c)
    BY <1>1, <2>1
  <2>4. \A j \in DOMAIN t : j > k => t[j] \in Quiet
    BY <1>1, <1>5, <2>1
  <2>. QED BY <2>2, <2>3, <2>4 DEF Once
<1>. QED BY <1>2, <1>3, <1>4, <1>5 DEF t

LEMMA TailLetters ==
  ASSUME NEW s \in Seq(Letter), s # <<>>, NEW c, NEW L
  PROVE  /\ Head(s) \in Letter /\ Tail(s) \in Seq(Letter)
         /\ Still(s) => Head(s) \in Quiet /\ Still(Tail(s))
         /\ Silent(s, c) => ~Loud(Head(s), c) /\ Silent(Tail(s), c)
         /\ Once(s, L, c) => \/ Head(s) \in L /\ Still(Tail(s))
                             \/ ~Loud(Head(s), c) /\ Once(Tail(s), L, c)
<1> DEFINE t == Tail(s)
<1>1. /\ DOMAIN s = 1 .. Len(s) /\ Len(s) \in Nat \ {0} /\ DOMAIN t = 1 .. Len(s) - 1
      /\ Head(s) = s[1] /\ \A i \in DOMAIN t : t[i] = s[i + 1]
      /\ Head(s) \in Letter /\ t \in Seq(Letter)
  BY HeadTailProperties, LenProperties, EmptySeq
<1> HIDE DEF t
<1>2. Still(s) => Head(s) \in Quiet /\ Still(t)
  BY <1>1 DEF Still
<1>3. Silent(s, c) => ~Loud(Head(s), c) /\ Silent(t, c)
  BY <1>1 DEF Silent
<1>4. ASSUME Once(s, L, c)
      PROVE  (Head(s) \in L /\ Still(t)) \/ (~Loud(Head(s), c) /\ Once(t, L, c))
  <2>1. PICK k \in DOMAIN s : /\ s[k] \in L
                              /\ \A j \in DOMAIN s : j < k => ~Loud(s[j], c)
                              /\ \A j \in DOMAIN s : j > k => s[j] \in Quiet
    BY <1>4 DEF Once
  <2>2. CASE k = 1
    <3>1. \A j \in DOMAIN t : j + 1 \in DOMAIN s /\ j + 1 > k
      BY <1>1, <2>2
    <3>2. ASSUME NEW j \in DOMAIN t PROVE t[j] \in Quiet
      <4>1. j + 1 \in DOMAIN s /\ j + 1 > k /\ t[j] = s[j + 1]
        BY <1>1, <3>1
      <4>. QED BY <2>1, <4>1
    <3>3. Still(t)
      BY <3>2 DEF Still
    <3>4. Head(s) \in L
      BY <1>1, <2>1, <2>2
    <3>. QED BY <3>3, <3>4
  <2>3. CASE k # 1
    <3>1. k - 1 \in DOMAIN t /\ t[k - 1] \in L /\ ~Loud(Head(s), c)
      BY <1>1, <2>1, <2>3
    <3>2. \A j \in DOMAIN t : j < k - 1 => ~Loud(t[j], c)
      BY <1>1, <2>1
    <3>3. \A j \in DOMAIN t : j > k - 1 => t[j] \in Quiet
      BY <1>1, <2>1
    <3>. QED BY <3>1, <3>2, <3>3 DEF Once
  <2>. QED BY <2>2, <2>3
<1>. QED BY <1>1, <1>2, <1>3, <1>4 DEF t

LEMMA SplitLetters ==
  ASSUME NEW s \in Seq(Letter), NEW n \in 1 .. Len(s), NEW c, NEW L
  PROVE  LET whole == SubSeq(s, 1, n)
             rest  == SubSeq(s, n + 1, Len(s))
         IN  /\ whole \in Seq(Letter) /\ rest \in Seq(Letter) /\ Len(rest) = Len(s) - n
             /\ Still(s) => Still(whole) /\ Still(rest)
             /\ Silent(s, c) => Silent(whole, c) /\ Silent(rest, c)
             /\ Once(s, L, c) => \/ Once(whole, L, c) /\ Still(rest)
                                 \/ Silent(whole, c) /\ Once(rest, L, c)
<1> DEFINE w == SubSeq(s, 1, n)
           r == SubSeq(s, n + 1, Len(s))
<1>1. /\ DOMAIN s = 1 .. Len(s) /\ Len(s) \in Nat /\ \A i \in DOMAIN s : s[i] \in Letter
  BY LenProperties, ElementOfSeq
<1>2. /\ w \in Seq(Letter) /\ Len(w) = n /\ \A i \in 1 .. n : w[i] = s[i]
  BY <1>1, SubSeqProperties
<1>3. /\ r \in Seq(Letter) /\ Len(r) = Len(s) - n
      /\ \A i \in 1 .. Len(s) - n : n + i \in DOMAIN s /\ r[i] = s[n + i]
  <2>1. n + 1 \in Int /\ Len(s) \in Int /\ \A i \in n + 1 .. Len(s) : s[i] \in Letter
    BY <1>1
  <2>2. /\ r \in Seq(Letter) /\ Len(r) = IF n + 1 <= Len(s) THEN Len(s) - (n + 1) + 1 ELSE 0
        /\ \A i \in 1 .. Len(s) - (n + 1) + 1 : r[i] = s[(n + 1) + i - 1]
    BY <2>1, SubSeqProperties
  <2>3. Len(s) - (n + 1) + 1 = Len(s) - n /\ \A i \in 1 .. Len(s) - n : (n + 1) + i - 1 = n + i
    BY <1>1
  <2>4. \A i \in 1 .. Len(s) - n : n + i \in DOMAIN s
    BY <1>1
  <2>5. Len(r) = Len(s) - n
    <3>1. Len(r) = IF n + 1 <= Len(s) THEN Len(s) - (n + 1) + 1 ELSE 0
      BY <2>2
    <3>2. Len(s) \in Nat /\ n \in 1 .. Len(s)
      BY <1>1
    <3>3. CASE n + 1 <= Len(s)
      BY <3>1, <3>2, <3>3
    <3>4. CASE ~(n + 1 <= Len(s))
      <4>1. n = Len(s)
        BY <3>2, <3>4
      <4>. QED BY <3>1, <3>2, <3>4, <4>1
    <3>. QED BY <3>3, <3>4
  <2>6. ASSUME NEW i \in 1 .. Len(s) - n PROVE r[i] = s[n + i]
    <3>1. i \in 1 .. Len(s) - (n + 1) + 1 /\ (n + 1) + i - 1 = n + i
      BY <2>3
    <3>. QED BY <2>2, <3>1
  <2>. QED BY <2>2, <2>4, <2>5, <2>6
<1>4. /\ DOMAIN w = 1 .. n /\ DOMAIN r = 1 .. Len(s) - n
      /\ \A i \in DOMAIN w : i \in DOMAIN s /\ w[i] = s[i]
      /\ \A i \in DOMAIN r : n + i \in DOMAIN s /\ r[i] = s[n + i]
  <2>1. DOMAIN w = 1 .. n
    BY <1>2, LenProperties
  <2>2. DOMAIN r = 1 .. Len(s) - n
    BY <1>3, LenProperties
  <2>3. \A i \in 1 .. n : i \in DOMAIN s
    BY <1>1
  <2>. QED BY <1>2, <1>3, <2>1, <2>2, <2>3
<1> HIDE DEF w, r
<1>5. Still(s) => Still(w) /\ Still(r)
  BY <1>4 DEF Still
<1>6. Silent(s, c) => Silent(w, c) /\ Silent(r, c)
  BY <1>4 DEF Silent
<1>7. ASSUME Once(s, L, c)
      PROVE  (Once(w, L, c) /\ Still(r)) \/ (Silent(w, c) /\ Once(r, L, c))
  <2>1. PICK k \in DOMAIN s : /\ s[k] \in L
                              /\ \A j \in DOMAIN s : j < k => ~Loud(s[j], c)
                              /\ \A j \in DOMAIN s : j > k => s[j] \in Quiet
    BY <1>7 DEF Once
  <2>2. CASE k <= n
    <3>1. k \in DOMAIN w /\ w[k] \in L
      BY <1>1, <1>2, <1>4, <2>1, <2>2
    <3>2. \A j \in DOMAIN w : /\ j < k => ~Loud(w[j], c)
                              /\ j > k => w[j] \in Quiet
      BY <1>1, <1>2, <1>4, <2>1
    <3>3. Still(r)
      <4>1. ASSUME NEW j \in DOMAIN r PROVE r[j] \in Quiet
        <5>1. n + j \in DOMAIN s /\ r[j] = s[n + j] /\ n + j > k
          BY <1>1, <1>4, <2>2
        <5>. QED BY <2>1, <5>1
      <4>. QED BY <4>1 DEF Still
    <3>4. Once(w, L, c)
      BY <3>1, <3>2 DEF Once
    <3>. QED BY <3>3, <3>4
  <2>3. CASE k > n
    <3>1. k - n \in DOMAIN r /\ r[k - n] \in L
      BY <1>1, <1>3, <1>4, <2>1, <2>3
    <3>2. \A j \in DOMAIN r : /\ j < k - n => ~Loud(r[j], c)
                              /\ j > k - n => r[j] \in Quiet
      <4>1. ASSUME NEW j \in DOMAIN r
            PROVE  /\ n + j \in DOMAIN s /\ r[j] = s[n + j]
                   /\ j < k - n => n + j < k
                   /\ j > k - n => n + j > k
        BY <1>1, <1>4
      <4>. QED BY <2>1, <4>1
    <3>3. Silent(w, c)
      BY <1>1, <1>2, <1>4, <2>1, <2>3 DEF Silent
    <3>4. Once(r, L, c)
      BY <3>1, <3>2 DEF Once
    <3>. QED BY <3>3, <3>4
  <2>. QED BY <1>1, <2>1, <2>2, <2>3
<1>. QED BY <1>2, <1>3, <1>5, <1>6, <1>7 DEF w, r

-----------------------------------------------------------------------------
(* Induction, with sets in the place of predicates. *)

NatLess == {p \in Nat \X Nat : p[1] < p[2]}

LEMMA NatWellFounded == IsWellFoundedOn(NatLess, Nat)
BY NatLessThanWellFounded DEF OpToRel, NatLess

\* A set of numbers that is not empty has a least one.
LEMMA LeastNumber ==
  ASSUME NEW T \in SUBSET Nat, T # {}
  PROVE  \E x \in T : \A y \in T : x <= y
<1>1. PICK x \in T : \A y \in T : <<y, x>> \notin NatLess
  BY NatWellFounded, WFMin
<1>2. \A y \in T : ~(y < x)
  <2>1. ASSUME NEW y \in T, y < x PROVE FALSE
    <3>1. <<y, x>> \in Nat \X Nat /\ <<y, x>>[1] = y /\ <<y, x>>[2] = x
      OBVIOUS
    <3>2. <<y, x>> \in NatLess
      BY <2>1, <3>1 DEF NatLess
    <3>. QED BY <1>1, <3>2
  <2>. QED BY <2>1
<1>. QED BY <1>2

LEMMA NatSetInduction ==
  ASSUME NEW T, 0 \in T, \A n \in Nat : n \in T => n + 1 \in T
  PROVE  Nat \subseteq T
<1>1. ASSUME Nat \ T # {} PROVE FALSE
  <2>1. PICK x \in Nat \ T : \A y \in Nat \ T : x <= y
    BY <1>1, LeastNumber
  <2>2. x # 0 /\ x - 1 \in Nat /\ (x - 1) + 1 = x
    BY <2>1
  <2>3. x - 1 \in T
    BY <2>1, <2>2
  <2>. QED BY <2>2, <2>3
<1>. QED BY <1>1

\* A recursion along a sequence defines a function.
LEMMA WithoutSteps ==
  ASSUME NEW X, NEW s \in Seq(X), NEW S
  PROVE  \E left : /\ DOMAIN left = 0 .. Len(s) /\ left[0] = <<>>
                   /\ \A n \in 1 .. Len(s) :
                        left[n] = IF s[n] \in S THEN left[n - 1] ELSE Append(left[n - 1], s[n])
                   /\ Without(s, S) = left[Len(s)]
<1> DEFINE Next1(q, n) == IF n = 0 THEN <<>>
                          ELSE IF s[n] \in S THEN q[n - 1] ELSE Append(q[n - 1], s[n])
           Rec(k, q) == DOMAIN q = 0 .. k /\ q = [n \in DOMAIN q |-> Next1(q, n)]
           T == {k \in Nat : \E q : Rec(k, q)}
<1>1. 0 \in T
  <2> DEFINE q == [n \in 0 .. 0 |-> <<>>]
  <2>1. DOMAIN q = 0 .. 0 /\ \A n \in 0 .. 0 : q[n] = Next1(q, n)
    OBVIOUS
  <2>2. q = [n \in DOMAIN q |-> Next1(q, n)]
    BY <2>1
  <2>. QED BY <2>1, <2>2
<1>2. ASSUME NEW k \in Nat, k \in T PROVE k + 1 \in T
  <2>1. PICK p : Rec(k, p)
    BY <1>2
  <2> DEFINE q == [n \in 0 .. k + 1 |-> IF n = k + 1 THEN Next1(p, n) ELSE p[n]]
  <2>2. ASSUME NEW n \in 0 .. k + 1 PROVE q[n] = Next1(q, n)
    <3>1. CASE n = k + 1
      <4>1. n # 0 /\ n - 1 = k /\ q[n - 1] = p[k] /\ q[n] = Next1(p, n)
        BY <3>1
      <4>. QED BY <4>1
    <3>2. CASE n # k + 1
      <4>1. n \in 0 .. k /\ q[n] = p[n]
        BY <3>2
      <4>2. n # 0 => n - 1 \in 0 .. k /\ q[n - 1] = p[n - 1]
        BY <3>2
      <4>3. p[n] = Next1(p, n)
        BY <2>1, <4>1
      <4> HIDE DEF q
      <4>. QED BY <4>1, <4>2, <4>3
    <3>. QED BY <3>1, <3>2
  <2>3. DOMAIN q = 0 .. k + 1 /\ q = [n \in DOMAIN q |-> q[n]]
    OBVIOUS
  <2> HIDE DEF q, Next1
  <2>4. q = [n \in DOMAIN q |-> Next1(q, n)]
    BY <2>2, <2>3
  <2>. QED BY <2>3, <2>4
<1>3. Len(s) \in T
  <2> HIDE DEF T
  <2>1. Nat \subseteq T
    BY <1>1, <1>2, NatSetInduction
  <2>. QED BY <2>1, LenProperties
<1>4. PICK p : Rec(Len(s), p)
  BY <1>3
<1> DEFINE left == CHOOSE q : q = [n \in 0 .. Len(s) |-> Next1(q, n)]
<1>5. p = [n \in 0 .. Len(s) |-> Next1(p, n)]
  BY <1>4
<1>6. left = [n \in 0 .. Len(s) |-> Next1(left, n)]
  <2> HIDE DEF Next1
  <2>. QED BY <1>5
<1>7. Without(s, S) = left[Len(s)]
  BY DEF Without
<1> HIDE DEF left
<1>8. DOMAIN left = 0 .. Len(s) /\ \A n \in 0 .. Len(s) : left[n] = Next1(left, n)
  <2> HIDE DEF Next1
  <2>. QED BY <1>6
<1>9. 0 \in 0 .. Len(s) /\ \A n \in 1 .. Len(s) : n \in 0 .. Len(s) /\ n # 0
  BY LenProperties
<1>. QED BY <1>7, <1>8, <1>9

\* Without keeps what is not in S, in order: f says from where.
Kept(s, t, n, S, f) ==
  /\ f \in [DOMAIN t -> 1 .. n]
  /\ \A i \in DOMAIN t : t[i] = s[f[i]] /\ t[i] \notin S
  /\ \A i, j \in DOMAIN t : i < j => f[i] < f[j]
  /\ \A k \in 1 .. n : s[k] \notin S => \E i \in DOMAIN t : f[i] = k

LEMMA WithoutKeeps ==
  ASSUME NEW X, NEW s \in Seq(X), NEW S
  PROVE  /\ Without(s, S) \in Seq(X)
         /\ \E f : Kept(s, Without(s, S), Len(s), S, f)
<1>1. PICK left : /\ DOMAIN left = 0 .. Len(s) /\ left[0] = <<>>
                  /\ \A n \in 1 .. Len(s) :
                       left[n] = IF s[n] \in S THEN left[n - 1] ELSE Append(left[n - 1], s[n])
                  /\ Without(s, S) = left[Len(s)]
  BY WithoutSteps
<1>2. Len(s) \in Nat /\ \A n \in 1 .. Len(s) : s[n] \in X
  BY LenProperties, ElementOfSeq
<1> DEFINE T == {n \in Nat : n <= Len(s) => left[n] \in Seq(X) /\ \E f : Kept(s, left[n], n, S, f)}
<1>3. 0 \in T
  <2> DEFINE f == [i \in {} |-> 0]
             t == <<>>
  <2>1. DOMAIN t = {} /\ 1 .. 0 = {} /\ f \in [{} -> {}] /\ t \in Seq(X)
    OBVIOUS
  <2> HIDE DEF f, t
  <2>2. Kept(s, t, 0, S, f)
    BY <2>1 DEF Kept
  <2>3. left[0] = t
    BY <1>1 DEF t
  <2>. QED BY <2>1, <2>2, <2>3
<1>4. ASSUME NEW n \in Nat, n \in T PROVE n + 1 \in T
  <2> SUFFICES ASSUME n + 1 <= Len(s)
               PROVE  left[n + 1] \in Seq(X) /\ \E f : Kept(s, left[n + 1], n + 1, S, f)
    OBVIOUS
  <2> DEFINE t == left[n]
             u == left[n + 1]
  <2>1. t \in Seq(X)
    BY <1>2, <1>4
  <2>2. PICK f : Kept(s, t, n, S, f)
    BY <1>2, <1>4
  <2>3. n + 1 \in 1 .. Len(s) /\ (n + 1) - 1 = n
    BY <1>2
  <2>4. u = IF s[n + 1] \in S THEN t ELSE Append(t, s[n + 1])
    BY <1>1, <2>3
  <2> HIDE DEF t, u, T
  <2>5. CASE s[n + 1] \in S
    <3>1. Kept(s, u, n + 1, S, f)
      <4>1. u = t /\ 1 .. n \subseteq 1 .. n + 1 /\ \A k \in 1 .. n + 1 : k \in 1 .. n \/ k = n + 1
        BY <2>4, <2>5
      <4>. QED BY <2>2, <2>5, <4>1 DEF Kept
    <3>. QED BY <2>1, <2>4, <2>5, <3>1 DEF u
  <2>6. CASE s[n + 1] \notin S
    <3>1. u = Append(t, s[n + 1]) /\ s[n + 1] \in X
      BY <1>2, <2>3, <2>4, <2>6
    <3>2. /\ u \in Seq(X) /\ Len(t) \in Nat /\ DOMAIN t = 1 .. Len(t) /\ DOMAIN u = 1 .. Len(t) + 1
          /\ u[Len(t) + 1] = s[n + 1] /\ \A i \in DOMAIN t : u[i] = t[i]
      BY <2>1, <3>1, AppendProperties, LenProperties
    <3> DEFINE g == [i \in DOMAIN u |-> IF i = Len(t) + 1 THEN n + 1 ELSE f[i]]
    <3>3. \A i \in DOMAIN u : i = Len(t) + 1 \/ i \in DOMAIN t
      BY <3>2
    <3>4. /\ f \in [DOMAIN t -> 1 .. n]
          /\ \A i \in DOMAIN t : t[i] = s[f[i]] /\ t[i] \notin S
          /\ \A i, j \in DOMAIN t : i < j => f[i] < f[j]
          /\ \A k \in 1 .. n : s[k] \notin S => \E i \in DOMAIN t : f[i] = k
      BY <2>2 DEF Kept
    <3>5. \A i \in DOMAIN t : f[i] \in 1 .. n /\ i \in DOMAIN u /\ i # Len(t) + 1
      BY <3>2, <3>4
    <3>6. /\ g[Len(t) + 1] = n + 1 /\ Len(t) + 1 \in DOMAIN u
          /\ \A i \in DOMAIN t : g[i] = f[i]
      BY <3>2, <3>5
    <3>7. g \in [DOMAIN u -> 1 .. n + 1]
      BY <3>3, <3>5
    <3> HIDE DEF g
    <3>8. \A i \in DOMAIN u : u[i] = s[g[i]] /\ u[i] \notin S
      BY <2>6, <3>2, <3>3, <3>4, <3>6
    <3>9. \A i, j \in DOMAIN u : i < j => g[i] < g[j]
      BY <3>2, <3>3, <3>4, <3>5, <3>6
    <3>10. ASSUME NEW k \in 1 .. n + 1, s[k] \notin S PROVE \E i \in DOMAIN u : g[i] = k
      <4>1. CASE k = n + 1
        BY <3>6, <4>1
      <4>2. CASE k # n + 1
        <5>1. k \in 1 .. n
          BY <4>2
        <5>2. PICK i \in DOMAIN t : f[i] = k
          BY <3>4, <3>10, <5>1
        <5>. QED BY <3>5, <3>6, <5>2
      <4>. QED BY <4>1, <4>2
    <3>11. Kept(s, u, n + 1, S, g)
      BY <3>7, <3>8, <3>9, <3>10 DEF Kept
    <3>. QED BY <3>2, <3>11 DEF u
  <2>. QED BY <2>5, <2>6
<1>5. Nat \subseteq T
  <2> HIDE DEF T
  <2>. QED BY <1>3, <1>4, NatSetInduction
<1>6. left[Len(s)] \in Seq(X) /\ \E f : Kept(s, left[Len(s)], Len(s), S, f)
  BY <1>2, <1>5
<1>. QED BY <1>1, <1>6


LEMMA OthersLetters ==
  ASSUME NEW s \in Seq(Letter), NEW c, NEW L, L \cap Reports = {}
  PROVE  /\ Others(s) \in Seq(Letter)
         /\ Still(s) => Still(Others(s))
         /\ Silent(s, c) => Silent(Others(s), c)
         /\ Once(s, L, c) => Once(Others(s), L, c)
<1> DEFINE t == Others(s)
<1>1. t \in Seq(Letter) /\ \E f : Kept(s, t, Len(s), Reports, f)
  BY WithoutKeeps DEF Others
<1> HIDE DEF t
<1>2. PICK f : Kept(s, t, Len(s), Reports, f)
  BY <1>1
<1>3. /\ DOMAIN s = 1 .. Len(s) /\ Len(s) \in Nat /\ DOMAIN t = 1 .. Len(t) /\ Len(t) \in Nat
      /\ f \in [DOMAIN t -> DOMAIN s]
      /\ \A i \in DOMAIN t : t[i] = s[f[i]] /\ t[i] \notin Reports
      /\ \A i, j \in DOMAIN t : i < j => f[i] < f[j]
      /\ \A k \in DOMAIN s : s[k] \notin Reports => \E i \in DOMAIN t : f[i] = k
  BY <1>1, <1>2, LenProperties DEF Kept
<1>4. Still(s) => Still(t)
  BY <1>3 DEF Still
<1>5. Silent(s, c) => Silent(t, c)
  BY <1>3 DEF Silent
<1>6. ASSUME Once(s, L, c) PROVE Once(t, L, c)
  <2>1. PICK k \in DOMAIN s : /\ s[k] \in L
                              /\ \A j \in DOMAIN s : j < k => ~Loud(s[j], c)
                              /\ \A j \in DOMAIN s : j > k => s[j] \in Quiet
    BY <1>6 DEF Once
  <2>2. PICK i \in DOMAIN t : f[i] = k
    BY <1>3, <2>1
  <2>3. t[i] \in L
    BY <1>3, <2>1, <2>2
  <2>4. \A j \in DOMAIN t : j < i => ~Loud(t[j], c)
    BY <1>3, <2>1, <2>2
  <2>5. \A j \in DOMAIN t : j > i => t[j] \in Quiet
    <3>1. ASSUME NEW j \in DOMAIN t, j > i PROVE t[j] \in Quiet
      <4>1. f[i] < f[j] /\ f[j] \in DOMAIN s /\ f[j] > k
        BY <1>3, <2>2, <3>1
      <4>. QED BY <1>3, <2>1, <4>1
    <3>. QED BY <3>1
  <2>. QED BY <2>3, <2>4, <2>5 DEF Once
<1>. QED BY <1>1, <1>4, <1>5, <1>6 DEF t

\* What command_recv makes of the messages it takes.
Batch(s) == Others(s) \o When(Has(s, "r"), <<"r">>) \o When(Has(s, "i"), <<"i">>)

LEMMA MaybeAppended ==
  ASSUME NEW s \in Seq(Letter), NEW e \in Reports, NEW b, NEW c, NEW L
  PROVE  LET t == s \o When(b, <<e>>)
         IN  /\ t \in Seq(Letter)
             /\ Still(s) => Still(t)
             /\ Silent(s, c) => Silent(t, c)
             /\ Once(s, L, c) => Once(t, L, c)
<1>1. e \in Letter /\ e \in Quiet /\ ~Loud(e, c)
  BY DEF Reports, Letter, Quiet, Loud
<1>2. CASE b
  <2>1. s \o When(b, <<e>>) = Append(s, e)
    BY <1>1, <1>2, AppendIsConcat DEF When
  <2>2. Append(s, e) \in Seq(Letter)
    BY <1>1, AppendProperties
  <2>. QED BY <1>1, <2>1, <2>2, AppendLetter
<1>3. CASE ~b
  <2>1. s \o When(b, <<e>>) = s
    BY <1>3, ConcatEmptySeq DEF When
  <2>. QED BY <2>1
<1>. QED BY <1>2, <1>3

LEMMA BatchLetters ==
  ASSUME NEW s \in Seq(Letter), NEW c, NEW L, L \cap Reports = {}
  PROVE  /\ Batch(s) \in Seq(Letter)
         /\ Still(s) => Still(Batch(s))
         /\ Silent(s, c) => Silent(Batch(s), c)
         /\ Once(s, L, c) => Once(Batch(s), L, c)
<1> DEFINE t == Others(s) \o When(Has(s, "r"), <<"r">>)
<1>1. "r" \in Reports /\ "i" \in Reports
  BY DEF Reports
<1>2. /\ t \in Seq(Letter)
      /\ Still(s) => Still(t)
      /\ Silent(s, c) => Silent(t, c)
      /\ Once(s, L, c) => Once(t, L, c)
  BY <1>1, OthersLetters, MaybeAppended
<1>3. Batch(s) = t \o When(Has(s, "i"), <<"i">>)
  BY DEF Batch
<1> HIDE DEF t
<1>. QED BY <1>1, <1>2, <1>3, MaybeAppended

-----------------------------------------------------------------------------
(* The reply on its way to the host: q is the receiver's queue, b what it  *)
(* has read, f what is on the line.                                        *)

\* Nothing of it will be queued.
Hushed(q, b, f, c) == q = <<>> /\ Silent(b, c) /\ Silent(f, c)

\* A letter of L is on its way, and nothing else that will be queued.
Answering(q, b, f, L, c) ==
  \/ q = <<>> /\ Silent(b, c) /\ Once(f, L, c)
  \/ q = <<>> /\ Once(b, L, c) /\ Still(f)
  \/ (\E x \in L : q = <<x>>) /\ Still(b) /\ Still(f)

LEMMA OnItsWay ==
  ASSUME NEW q, NEW b \in Seq(Letter), NEW f \in Seq(Letter), NEW e \in Letter, NEW c, NEW L
  PROVE  /\ Hushed(q, b, f, c) /\ ~Loud(e, c) => Hushed(q, b, Append(f, e), c)
         /\ Hushed(q, b, f, c) /\ e \in L => Answering(q, b, Append(f, e), L, c)
         /\ Answering(q, b, f, L, c) /\ e \in Quiet => Answering(q, b, Append(f, e), L, c)
BY AppendLetter DEF Hushed, Answering

LEMMA Taken ==
  ASSUME NEW q, NEW f \in Seq(Letter), NEW n \in 1 .. Len(f), NEW c, NEW L, L \cap Reports = {}
  PROVE  LET b == Batch(SubSeq(f, 1, n))
             r == SubSeq(f, n + 1, Len(f))
         IN  /\ b \in Seq(Letter) /\ r \in Seq(Letter)
             /\ Hushed(q, <<>>, f, c) => Hushed(q, b, r, c)
             /\ Answering(q, <<>>, f, L, c) => Answering(q, b, r, L, c)
<1> DEFINE w == SubSeq(f, 1, n)
           r == SubSeq(f, n + 1, Len(f))
<1>1. /\ w \in Seq(Letter) /\ r \in Seq(Letter)
      /\ Still(f) => Still(w) /\ Still(r)
      /\ Silent(f, c) => Silent(w, c) /\ Silent(r, c)
      /\ Once(f, L, c) => \/ Once(w, L, c) /\ Still(r)
                          \/ Silent(w, c) /\ Once(r, L, c)
  BY SplitLetters
<1> HIDE DEF w, r
<1>2. /\ Batch(w) \in Seq(Letter)
      /\ Still(w) => Still(Batch(w))
      /\ Silent(w, c) => Silent(Batch(w), c)
      /\ Once(w, L, c) => Once(Batch(w), L, c)
  BY <1>1, BatchLetters
<1>3. ~Once(<<>>, L, c)
  BY DEF Once
<1>4. Hushed(q, <<>>, f, c) => Hushed(q, Batch(w), r, c)
  BY <1>1, <1>2 DEF Hushed
<1>5. Answering(q, <<>>, f, L, c) => Answering(q, Batch(w), r, L, c)
  BY <1>1, <1>2, <1>3 DEF Answering
<1>. QED BY <1>1, <1>2, <1>4, <1>5 DEF w, r

LEMMA Processed ==
  ASSUME NEW q, NEW b \in Seq(Letter), b # <<>>, NEW f \in Seq(Letter), NEW c, NEW L
  PROVE  LET u == IF Loud(Head(b), c) THEN Append(q, Head(b)) ELSE q
         IN  /\ Hushed(q, b, f, c) => Hushed(u, Tail(b), f, c)
             /\ Answering(q, b, f, L, c) => Hushed(u, Tail(b), f, c) \/ Answering(u, Tail(b), f, L, c)
<1> DEFINE u == IF Loud(Head(b), c) THEN Append(q, Head(b)) ELSE q
<1>1. /\ Still(b) => ~Loud(Head(b), c) /\ Still(Tail(b))
      /\ Silent(b, c) => ~Loud(Head(b), c) /\ Silent(Tail(b), c)
      /\ Once(b, L, c) => \/ Head(b) \in L /\ Still(Tail(b))
                          \/ ~Loud(Head(b), c) /\ Once(Tail(b), L, c)
  BY TailLetters DEF Loud
<1>2. Hushed(q, b, f, c) => Hushed(u, Tail(b), f, c)
  BY <1>1 DEF Hushed
<1>3. ASSUME Answering(q, b, f, L, c)
      PROVE  Hushed(u, Tail(b), f, c) \/ Answering(u, Tail(b), f, L, c)
  <2>1. CASE q = <<>> /\ Silent(b, c) /\ Once(f, L, c)
    BY <1>1, <2>1 DEF Answering
  <2>2. CASE (\E x \in L : q = <<x>>) /\ Still(b) /\ Still(f)
    BY <1>1, <2>2 DEF Answering
  <2>3. CASE q = <<>> /\ Once(b, L, c) /\ Still(f)
    <3>1. CASE ~Loud(Head(b), c) /\ Once(Tail(b), L, c)
      BY <2>3, <3>1 DEF Answering
    <3>2. CASE Head(b) \in L /\ Still(Tail(b))
      <4>1. Silent(Tail(b), c) /\ Silent(f, c)
        BY <2>3, <3>2, StillSilent
      <4>2. CASE Loud(Head(b), c)
        <5>1. u = <<Head(b)>>
          BY <2>3, <4>2
        <5>. QED BY <2>3, <3>2, <5>1 DEF Answering
      <4>3. CASE ~Loud(Head(b), c)
        BY <2>3, <4>1, <4>3 DEF Hushed
      <4>. QED BY <4>2, <4>3
    <3>. QED BY <1>1, <2>3, <3>1, <3>2
  <2>. QED BY <1>3, <2>1, <2>2, <2>3 DEF Answering
<1>. QED BY <1>2, <1>3

\* While there is no configuration only reports are silent, and they always are.
LEMMA HushedAnew ==
  ASSUME NEW q, NEW b, NEW f, NEW c, Hushed(q, b, f, 0)
  PROVE  Hushed(q, b, f, c)
BY DEF Hushed, Silent, Loud, MATRIX


-----------------------------------------------------------------------------
(* What exec has to do for a subcommand. *)

LEMMA WorkHead ==
  ASSUME NEW s \in Seq(Step), s # <<>>, NEW c, NEW w, Work(s, c, w)
  PROVE  /\ Head(s) \in Command /\ Tail(s) \in Seq(Step)
         /\ \/ /\ Head(s)[1] \in {"h", "R", "I", "E", "D", "A", "s", "P", "r", "i", "a"}
               /\ Fits(Head(s), c) /\ Simple(Tail(s), c)
            \/ /\ Head(s) = <<"Q">>
               /\ Tail(s) = <<>> \/ \E m \in Modes : Tail(s) = <<<<"K", m>>>>
            \/ \E m \in Modes : /\ Head(s) = <<"K", m>> /\ Simple(Tail(s), m)
                                /\ c = IF w THEN m ELSE 0
<1>1. /\ DOMAIN s = 1 .. Len(s) /\ Len(s) \in Nat \ {0} /\ DOMAIN Tail(s) = 1 .. Len(s) - 1
      /\ Head(s) = s[1] /\ \A i \in DOMAIN Tail(s) : Tail(s)[i] = s[i + 1]
      /\ Tail(s) \in Seq(Step)
  BY HeadTailProperties, LenProperties, EmptySeq
<1>2. CASE Simple(s, c)
  <2>1. 1 \in DOMAIN s
    BY <1>1
  <2>2. Head(s) \in Command /\ Fits(Head(s), c)
    BY <1>1, <1>2, <2>1 DEF Simple
  <2>3. Simple(Tail(s), c)
    <3>1. \A i \in DOMAIN Tail(s) : i + 1 \in DOMAIN s
      BY <1>1
    <3>. QED BY <1>1, <1>2, <3>1 DEF Simple
  <2>. QED BY <1>1, <2>2, <2>3, FitsLetters
<1>3. <<"Q">> \in Command
  BY DEF Command, Waited
<1>4. CASE s = <<<<"Q">>>>
  <2>1. Head(s) = <<"Q">> /\ Tail(s) = <<>>
    BY <1>4
  <2>. QED BY <1>1, <1>3, <2>1
<1>5. ASSUME NEW m \in Modes, s = <<<<"Q">>, <<"K", m>>>>
      PROVE  Head(s) = <<"Q">> /\ Tail(s) = <<<<"K", m>>>>
  BY <1>5
<1>6. ASSUME NEW m \in Modes PROVE <<"K", m>> \in Command
  BY DEF Command, Modes
<1>. QED BY <1>1, <1>2, <1>3, <1>4, <1>5, <1>6 DEF Work

LEMMA WorkOfOne ==
  ASSUME NEW c, NEW cmd \in Command, Fits(cmd, c)
  PROVE  Simple(<<cmd>>, c)
BY DEF Simple

LEMMA NoWork == \A c : Simple(<<>>, c)
BY DEF Simple

\* A part of a subcommand that sets the configuration.
LEMMA SettingWorks ==
  ASSUME GainerAssumption, NEW mode \in Modes, m_config \in Modes \cup {0}
  PROVE  /\ SetConfiguration(mode) \in Seq(Step)
         /\ Work(SetConfiguration(mode), m_config, FALSE)
         /\ m_config = 0 => SetConfiguration(mode) = <<<<"K", mode>>>>
<1>1. mode # 0
  BY DEF GainerAssumption, Modes
<1>2. <<"K", mode>> \in Step /\ <<"Q">> \in Step
  BY DEF Step, Command, Modes, Waited
<1>3. CASE mode = m_config
  <2>1. SetConfiguration(mode) = <<>>
    BY <1>3 DEF SetConfiguration, When
  <2>. QED BY <1>1, <1>3, <2>1, NoWork DEF Work
<1>4. CASE mode # m_config /\ m_config = 0
  <2> DEFINE k == <<<<"K", mode>>>>
  <2>1. k \in Seq(Step) /\ k # <<>> /\ k[1] = <<"K", mode>> /\ Tail(k) = <<>>
    BY <1>2
  <2> HIDE DEF k
  <2>2. SetConfiguration(mode) = k
    <3>1. SetConfiguration(mode) = <<>> \o k
      BY <1>4 DEF SetConfiguration, When, k
    <3>. QED BY <2>1, <3>1, ConcatEmptySeq
  <2>3. Work(k, 0, FALSE)
    BY <2>1, NoWork DEF Work
  <2>. QED BY <1>4, <2>1, <2>2, <2>3 DEF k
<1>5. CASE mode # m_config /\ m_config # 0
  <2> DEFINE q == <<<<"Q">>>>
             k == <<<<"K", mode>>>>
             t == <<<<"Q">>, <<"K", mode>>>>
  <2>1. /\ q \in Seq(Step) /\ Len(q) = 1 /\ q[1] = <<"Q">>
        /\ k \in Seq(Step) /\ Len(k) = 1 /\ k[1] = <<"K", mode>>
        /\ t \in Seq(Step) /\ Len(t) = 2 /\ t[1] = <<"Q">> /\ t[2] = <<"K", mode>>
    BY <1>2
  <2>2. SetConfiguration(mode) = q \o k
    BY <1>5 DEF SetConfiguration, When
  <2>3. q \o k = t
    <3> HIDE DEF q, k, t
    <3>0. /\ q \o k \in Seq(Step) /\ Len(q \o k) = Len(q) + Len(k)
          /\ \A i \in 1 .. Len(q) + Len(k) :
               (q \o k)[i] = IF i <= Len(q) THEN q[i] ELSE k[i - Len(q)]
      BY <2>1, ConcatProperties
    <3>1. /\ q \o k \in Seq(Step) /\ Len(q \o k) = 2
          /\ (q \o k)[1] = <<"Q">> /\ (q \o k)[2] = <<"K", mode>>
      <4>1. /\ Len(q) + Len(k) = 2 /\ 1 \in 1 .. 2 /\ 2 \in 1 .. 2
            /\ 1 <= Len(q) /\ ~(2 <= Len(q)) /\ 2 - Len(q) = 1
        BY <2>1
      <4>2. Len(q \o k) = 2 /\ (q \o k)[1] = q[1] /\ (q \o k)[2] = k[2 - Len(q)]
        BY <3>0, <4>1
      <4>. QED BY <2>1, <3>0, <4>1, <4>2
    <3>. QED BY <2>1, <3>1, SeqEqual
  <2>4. Work(t, m_config, FALSE)
    BY DEF Work
  <2>. QED BY <1>5, <2>1, <2>2, <2>3, <2>4
<1>. QED BY <1>3, <1>4, <1>5

\* A subcommand that sets the first configuration when there is none, and then does s, of which
\* each command is one of the configuration there is.
LEMMA CheckedWorks ==
  ASSUME GainerAssumption, m_config \in Modes \cup {0},
         NEW s \in Seq(Command), Simple(s, Checked)
  PROVE  /\ check_config \o s \in Seq(Step)
         /\ Work(check_config \o s, m_config, FALSE)
<1>1. s \in Seq(Step) /\ Command \subseteq Step
  <2>1. Command \subseteq Step
    BY DEF Step
  <2>. QED BY <2>1
<1>2. CASE m_config # 0
  <2>1. check_config \o s = s
    BY <1>1, <1>2, ConcatEmptySeq DEF check_config, When
  <2>. QED BY <1>1, <1>2, <2>1 DEF Work, Checked
<1>3. CASE m_config = 0
  <2> DEFINE k == <<<<"K", 1>>>>
  <2>1. k \in Seq(Step) /\ Len(k) = 1 /\ k[1] = <<"K", 1>> /\ 1 \in Modes
    BY DEF Step, Command, Modes
  <2>2. check_config = k
    BY <1>3, <2>1, SettingWorks DEF check_config, When
  <2> DEFINE t == k \o s
  <2>3. /\ t \in Seq(Step) /\ Len(t) = 1 + Len(s) /\ t[1] = <<"K", 1>> /\ Len(s) \in Nat
        /\ \A i \in 1 .. Len(s) : t[i + 1] = s[i]
    <3> HIDE DEF k
    <3>1. /\ t \in Seq(Step) /\ Len(t) = Len(k) + Len(s) /\ Len(s) \in Nat
          /\ \A i \in 1 .. Len(k) + Len(s) :
               t[i] = IF i <= Len(k) THEN k[i] ELSE s[i - Len(k)]
      BY <1>1, <2>1, ConcatProperties, LenProperties
    <3>2. ASSUME NEW i \in 1 .. Len(s) PROVE t[i + 1] = s[i]
      <4>1. i + 1 \in 1 .. Len(k) + Len(s) /\ ~(i + 1 <= Len(k)) /\ i + 1 - Len(k) = i
        BY <2>1, <3>1
      <4>. QED BY <3>1, <4>1
    <3>3. t[1] = k[1]
      <4>1. 1 \in 1 .. Len(k) + Len(s) /\ 1 <= Len(k)
        BY <2>1, <3>1
      <4>. QED BY <3>1, <4>1
    <3>. QED BY <2>1, <3>1, <3>2, <3>3
  <2> HIDE DEF t, k
  <2>4. t # <<>> /\ Tail(t) \in Seq(Step) /\ Len(Tail(t)) = Len(s)
        /\ \A i \in 1 .. Len(s) : Tail(t)[i] = t[i + 1]
    <3>1. t # <<>>
      BY <2>3, EmptySeq
    <3>2. /\ Tail(t) \in Seq(Step) /\ Len(Tail(t)) = Len(t) - 1
          /\ \A i \in 1 .. Len(Tail(t)) : Tail(t)[i] = t[i + 1]
      BY <2>3, <3>1, HeadTailProperties
    <3>. QED BY <2>3, <3>1, <3>2
  <2>5. Simple(Tail(t), 1)
    <3>1. Checked = 1 /\ DOMAIN s = 1 .. Len(s) /\ DOMAIN Tail(t) = 1 .. Len(s)
      BY <1>1, <1>3, <2>4, LenProperties DEF Checked
    <3>. QED BY <2>3, <2>4, <3>1 DEF Simple
  <2>6. Work(t, m_config, FALSE)
    BY <1>3, <2>1, <2>3, <2>4, <2>5 DEF Work
  <2>. QED BY <2>2, <2>3, <2>6 DEF t
<1>. QED BY <1>2, <1>3

LEMMA LinesAreRows ==
  ASSUME GainerAssumption, NEW ls \in Lines \cup Matrices
  PROVE  ls \in Seq(Rows \X Patterns)
<1>1. CASE ls \in Lines
  BY <1>1 DEF Lines
<1>2. CASE ls \in Matrices
  <2>1. PICK m \in [Rows -> Patterns] :
           ls = [i \in 1 .. GAINER_LED_MATRIX |-> <<i - 1, m[i - 1]>>]
    BY <1>2 DEF Matrices
  <2>2. \A i \in 1 .. GAINER_LED_MATRIX : i - 1 \in Rows
    BY DEF Rows, GainerAssumption
  <2>3. \A i \in 1 .. GAINER_LED_MATRIX : <<i - 1, m[i - 1]>> \in Rows \X Patterns
    BY <2>1, <2>2
  <2>4. GAINER_LED_MATRIX \in Nat
    BY DEF GainerAssumption
  <2>. QED BY <2>1, <2>3, <2>4
<1>. QED BY <1>1, <1>2


LEMMA ScanIsLines ==
  ASSUME NEW o \in Operation, o.op = "scan"
  PROVE  o.lines \in Lines \cup Matrices
BY DEF Operation, Operations

LEMMA ConfigIsMode ==
  ASSUME NEW o \in Operation, o.op = "config"
  PROVE  o.mode \in Modes
BY DEF Operation, Operations, Modes

LEMMA SubcommandNames ==
  ASSUME NEW o \in Operation
  PROVE  o.op \in {"reboot", "led", "end", "digitalOutput", "analogOutput", "analogOutputSingle",
                   "servoOutput", "disconnect", "config", "peek", "begin", "scan"}
BY DEF Operation, Operations

LEMMA AnsweredRows ==
  ASSUME GainerAssumption, NEW o \in Operation
  PROVE  Answered(o) \subseteq Rows \X Patterns
<1>1. CASE o.op = "scan" /\ Checked = MATRIX
  <2>1. o.lines \in Seq(Rows \X Patterns)
    BY <1>1, ScanIsLines, LinesAreRows
  <2>2. \A i \in DOMAIN o.lines : o.lines[i] \in Rows \X Patterns
    BY <2>1, ElementOfSeq, LenProperties
  <2>. QED BY <1>1, <2>2 DEF Answered
<1>2. CASE ~(o.op = "scan" /\ Checked = MATRIX)
  BY <1>2 DEF Answered
<1>. QED BY <1>1, <1>2

\* The commands of a scan are those of the LED matrix.
LEMMA FreshCommands ==
  ASSUME NEW ls \in Seq(Rows \X Patterns)
  PROVE  LET s == [i \in DOMAIN Fresh(ls) |-> <<"a", Fresh(ls)[i][1], Fresh(ls)[i][2]>>]
         IN  s \in Seq(Command) /\ Simple(s, MATRIX)
<1> DEFINE t == Fresh(ls)
           s == [i \in DOMAIN t |-> <<"a", t[i][1], t[i][2]>>]
<1>1. t \in Seq(Rows \X Patterns)
  BY WithoutKeeps DEF Fresh
<1> HIDE DEF t
<1>2. DOMAIN t = 1 .. Len(t) /\ Len(t) \in Nat /\ \A i \in DOMAIN t : t[i] \in Rows \X Patterns
  BY <1>1, ElementOfSeq, LenProperties
<1>3. ASSUME NEW i \in DOMAIN t PROVE s[i] \in Command /\ Fits(s[i], MATRIX)
  <2>1. t[i][1] \in Rows /\ t[i][2] \in Patterns /\ s[i] = <<"a", t[i][1], t[i][2]>>
    BY <1>2
  <2> HIDE DEF s
  <2>2. s[i] \in Command
    BY <2>1 DEF Command
  <2>3. s[i][1] = "a"
    BY <2>1
  <2>4. Fits(s[i], MATRIX)
    BY <2>3 DEF Fits, MATRIX, AOUT
  <2>. QED BY <2>2, <2>4
<1>4. s \in Seq(Command) /\ DOMAIN s = DOMAIN t
  BY <1>2, <1>3
<1>. QED BY <1>3, <1>4 DEF Simple, t

LEMMA WhenOne ==
  ASSUME NEW b, NEW cmd \in Command, b => Fits(cmd, Checked)
  PROVE  When(b, <<cmd>>) \in Seq(Command) /\ Simple(When(b, <<cmd>>), Checked)
<1>1. CASE b
  BY <1>1, WorkOfOne DEF When
<1>2. CASE ~b
  BY <1>2, NoWork DEF When
<1>. QED BY <1>1, <1>2

\* Without a configuration none of these is one of it.
LEMMA WhenOneNow ==
  ASSUME NEW b, NEW cmd \in Command, b => Fits(cmd, m_config)
  PROVE  When(b, <<cmd>>) \in Seq(Step) /\ Work(When(b, <<cmd>>), m_config, FALSE)
<1>1. CASE b
  <2>1. cmd \in Step
    BY DEF Step
  <2>. QED BY <1>1, <2>1, WorkOfOne DEF When, Work
<1>2. CASE ~b
  BY <1>2, NoWork DEF When, Work
<1>. QED BY <1>1, <1>2

LEMMA ScriptWorks ==
  ASSUME GainerAssumption, m_config \in Modes \cup {0}, NEW o \in Operation
  PROVE  /\ Script(o) \in Seq(Step)
         /\ Script(o) = Exit \/ Work(Script(o), m_config, FALSE)
<1> DEFINE Good(s) == s \in Seq(Step) /\ (s = Exit \/ Work(s, m_config, FALSE))
<1>0. \A x \in {"Q", "h", "R", "I", "r", "i", "E", "D", "A", "s", "P"} : <<x>> \in Command
  BY DEF Command, Waited
<1>1. CASE o.op = "reboot"
  <2>1. Script(o) = <<<<"Q">>>>
    BY <1>1 DEF Script
  <2>2. <<"Q">> \in Step
    BY <1>0 DEF Step
  <2>. QED BY <2>1, <2>2 DEF Work
<1>2. CASE o.op = "config"
  <2>1. Script(o) = SetConfiguration(o.mode)
    BY <1>2 DEF Script
  <2>. QED BY <1>2, <2>1, ConfigIsMode, SettingWorks
<1>3. CASE o.op = "led"
  <2> DEFINE s == <<<<"h">>>>
  <2>1. Script(o) = check_config \o s
    BY <1>3 DEF Script
  <2>2. Checked # 0
    BY DEF Checked
  <2>3. s \in Seq(Command) /\ Simple(s, Checked)
    BY <1>0, <2>2, WorkOfOne DEF Fits
  <2> HIDE DEF s
  <2>. QED BY <2>1, <2>3, CheckedWorks
<1>4. CASE o.op = "peek"
  <2> DEFINE cmd == IF o.digital THEN <<"R">> ELSE <<"I">>
             s == When(Checked \in Inputs(o.digital), <<cmd>>)
  <2>1. Script(o) = check_config \o s
    BY <1>4 DEF Script
  <2>2. cmd \in Command /\ (Checked \in Inputs(o.digital) => Fits(cmd, Checked))
    BY <1>0 DEF Fits, Inputs, DIN, AIN
  <2>3. s \in Seq(Command) /\ Simple(s, Checked)
    <3> HIDE DEF cmd
    <3>. QED BY <2>2, WhenOne
  <2> HIDE DEF s
  <2>. QED BY <2>1, <2>3, CheckedWorks
<1>5. CASE o.op = "begin"
  <2> DEFINE cmd == IF o.digital THEN <<"r">> ELSE <<"i">>
             s == When(Checked \in Inputs(o.digital), <<cmd>>)
  <2>1. Script(o) = check_config \o s
    BY <1>5 DEF Script
  <2>2. cmd \in Command /\ (Checked \in Inputs(o.digital) => Fits(cmd, Checked))
    BY <1>0 DEF Fits, Inputs, DIN, AIN
  <2>3. s \in Seq(Command) /\ Simple(s, Checked)
    <3> HIDE DEF cmd
    <3>. QED BY <2>2, WhenOne
  <2> HIDE DEF s
  <2>. QED BY <2>1, <2>3, CheckedWorks
<1>6. CASE o.op = "end"
  <2> DEFINE s == <<<<"E">>>>
  <2>1. Script(o) = check_config \o s
    BY <1>6 DEF Script
  <2>2. Checked # 0
    BY DEF Checked
  <2>3. s \in Seq(Command) /\ Simple(s, Checked)
    BY <1>0, <2>2, WorkOfOne DEF Fits
  <2> HIDE DEF s
  <2>. QED BY <2>1, <2>3, CheckedWorks
<1>7. CASE o.op = "digitalOutput"
  <2>1. Script(o) = When(m_config \in DOUT, <<<<"D">>>>)
    BY <1>7 DEF Script
  <2>2. m_config \in DOUT => Fits(<<"D">>, m_config)
    BY DEF Fits, DOUT
  <2>. QED BY <1>0, <2>1, <2>2, WhenOneNow
<1>8. CASE o.op = "analogOutput"
  <2>1. Script(o) = When(m_config \in AOUT, <<<<"A">>>>)
    BY <1>8 DEF Script
  <2>2. m_config \in AOUT => Fits(<<"A">>, m_config)
    BY DEF Fits, AOUT
  <2>. QED BY <1>0, <2>1, <2>2, WhenOneNow
<1>9. CASE o.op = "analogOutputSingle"
  <2>1. Script(o) = When(m_config \in AOUT, <<<<"s">>>>)
    BY <1>9 DEF Script
  <2>2. m_config \in AOUT => Fits(<<"s">>, m_config)
    BY DEF Fits, AOUT
  <2>. QED BY <1>0, <2>1, <2>2, WhenOneNow
<1>10. CASE o.op = "servoOutput"
  <2> DEFINE s == When(Checked = 8, <<<<"P">>>>)
  <2>1. Script(o) = check_config \o s
    BY <1>10 DEF Script
  <2>2. Checked = 8 => Fits(<<"P">>, Checked)
    BY DEF Fits
  <2>3. s \in Seq(Command) /\ Simple(s, Checked)
    BY <1>0, <2>2, WhenOne
  <2> HIDE DEF s
  <2>. QED BY <2>1, <2>3, CheckedWorks
<1>11. CASE o.op = "scan"
  <2> DEFINE t == [i \in DOMAIN Fresh(o.lines) |->
                     <<"a", Fresh(o.lines)[i][1], Fresh(o.lines)[i][2]>>]
             s == When(Checked = MATRIX, t)
  <2>1. Script(o) = check_config \o s
    BY <1>11 DEF Script
  <2>2. o.lines \in Seq(Rows \X Patterns)
    BY <1>11, ScanIsLines, LinesAreRows
  <2>3. t \in Seq(Command) /\ Simple(t, MATRIX)
    BY <2>2, FreshCommands
  <2> HIDE DEF t
  <2>4. s \in Seq(Command) /\ Simple(s, Checked)
    <3>1. CASE Checked = MATRIX
      BY <2>3, <3>1 DEF When
    <3>2. CASE Checked # MATRIX
      BY <3>2, NoWork DEF When
    <3>. QED BY <3>1, <3>2
  <2> HIDE DEF s
  <2>. QED BY <2>1, <2>4, CheckedWorks
<1>12. CASE o.op = "disconnect"
  <2>1. Script(o) = Exit
    BY <1>12 DEF Script
  <2>. QED BY <2>1, ScriptTypes
<1>. QED BY <1>1, <1>2, <1>3, <1>4, <1>5, <1>6, <1>7, <1>8, <1>9, <1>10, <1>11, <1>12,
            SubcommandNames

-----------------------------------------------------------------------------
(* Types, and where the host and the receiver thread are in their work. *)

\* What goes over the line: Reboot without waiting is Reboot to the board.
Wire == {cmd \in Command : cmd[1] # "Qn"}

HostTypes ==
  /\ host \in {"none", "search", "ready", "leaked"} /\ script \in Seq(Step)
  /\ calls \in 0 .. MaxCalls /\ waiting \in BOOLEAN
  /\ m_config \in Modes \cup {0} /\ m_LEDMatrixOutputs \in [Rows -> Patterns]
  /\ m_endFlag \in BOOLEAN /\ g_hwnd \in BOOLEAN /\ m_hwnd_sstp \in BOOLEAN

ReceiverTypes ==
  /\ receiver \in {"none", "reading", "sending", "ended"}
  /\ batch \in Seq(Letter) /\ m_receive_queue \in Seq(Letter)

BoardTypes ==
  /\ toBoard \in Seq(Wire) /\ fromBoard \in Seq(Letter)
  /\ Len(toBoard) <= MaxLine /\ Len(fromBoard) <= MaxLine
  /\ config \in Modes \cup {0} /\ streams \subseteq Reports /\ matrix \in [Rows -> Patterns]

HistoryTypes ==
  /\ answered \in (Waited \cup {"wait", "none"}) \X (Letter \cup {"none"})
  /\ scanned \subseteq Rows \X Patterns
  /\ strayed \in BOOLEAN /\ refused \in BOOLEAN /\ lost \in BOOLEAN

Types == HostTypes /\ ReceiverTypes /\ BoardTypes /\ HistoryTypes

\* There is no receiver thread, and nothing that one left.
Unheard == receiver = "none" /\ batch = <<>> /\ m_receive_queue = <<>>

Listening == receiver \in {"reading", "sending"}

OfNone    == script = <<>> /\ Unheard /\ fromBoard = <<>>
OfSearch  == script \in {G1, X4} /\ Unheard
OfOpening == /\ Opening(script) /\ ~m_endFlag /\ m_config = 0
             /\ IF script \in {O1, O2} THEN Unheard ELSE Listening
OfWork    == Work(script, m_config, waiting) /\ ~m_endFlag /\ Listening
OfLeaving == Leaving(script) /\ (m_endFlag <=> script # Exit) /\ receiver # "none"

Control ==
  /\ waiting => script # <<>> /\ Head(script)[1] \in Waited
  /\ receiver = "ended" => m_endFlag
  /\ host = "none" => OfNone
  /\ host = "search" => OfSearch
  /\ host = "leaked" => script = <<>>
  /\ host = "ready" => OfOpening \/ OfWork \/ OfLeaving

\* The step that the host is at says where it is in its work.
LEMMA WhereItIs ==
  ASSUME Types, Control, script # <<>>, NEW x, x = Head(script)[1]
  PROVE  /\ host \in {"search", "ready"}
         /\ x = "getc" => host = "search" /\ script = G1
         /\ x = "close" => script = X4 /\ (host = "search" \/ (host = "ready" /\ OfLeaving))
         /\ x = "start" => host = "ready" /\ script = O2 /\ OfOpening
         /\ x = "wait" => host = "ready" /\ script = O3 /\ OfOpening
         /\ x = "?" => host = "ready" /\ script = O4 /\ OfOpening
         /\ x = "hwnd" => host = "ready" /\ script = O5 /\ OfOpening
         /\ x = "end" => host = "ready" /\ script = Exit /\ OfLeaving
         /\ x = "join" => host = "ready" /\ script = X3 /\ OfLeaving
         /\ x = "Qn" => /\ host = "ready"
                        /\ (script = O1 /\ OfOpening) \/ (script = X2 /\ OfLeaving)
         /\ x \in {"Q", "K", "h", "R", "I", "E", "D", "A", "s", "P", "r", "i", "a"}
              => host = "ready" /\ OfWork
<1>1. host \in {"search", "ready"}
  BY DEF Types, HostTypes, Control, OfNone
<1>2. CASE host = "search"
  <2>1. x \in {"getc", "close"} /\ (x = "getc" => script = G1) /\ (x = "close" => script = X4)
    BY <1>2, ScriptHeads DEF Control, OfSearch
  <2>. QED BY <1>2, <2>1
<1>3. CASE host = "ready" /\ OfOpening
  <2>1. script \in {O1, O2, O3, O4, O5}
    BY <1>3 DEF OfOpening, Opening
  <2>2. /\ x \in {"Qn", "start", "wait", "?", "hwnd"}
        /\ x = "Qn" => script = O1
        /\ x = "start" => script = O2
        /\ x = "wait" => script = O3
        /\ x = "?" => script = O4
        /\ x = "hwnd" => script = O5
    BY <2>1, ScriptHeads
  <2>. QED BY <1>3, <2>2
<1>4. CASE host = "ready" /\ OfWork
  <2>1. x \in {"Q", "K", "h", "R", "I", "E", "D", "A", "s", "P", "r", "i", "a"}
    BY <1>4, WorkHead DEF OfWork, Types, HostTypes
  <2>. QED BY <1>4, <2>1
<1>5. CASE host = "ready" /\ OfLeaving
  <2>1. script \in {Exit, X2, X3, X4}
    BY <1>5 DEF OfLeaving, Leaving
  <2>2. /\ x \in {"end", "Qn", "join", "close"}
        /\ x = "end" => script = Exit
        /\ x = "Qn" => script = X2
        /\ x = "join" => script = X3
        /\ x = "close" => script = X4
    BY <2>1, ScriptHeads
  <2>. QED BY <1>5, <2>2
<1>. QED BY <1>1, <1>2, <1>3, <1>4, <1>5 DEF Control

\* What may be left of a script when a step of it is done.
LEMMA WorkAgain ==
  ASSUME NEW c, NEW w, NEW m \in Modes
  PROVE  /\ Work(<<>>, c, w)
         /\ Work(<<<<"K", m>>>>, 0, FALSE)
         /\ \A s : Simple(s, c) => Work(s, c, w)
<1>1. Work(<<>>, c, w)
  BY NoWork DEF Work
<1>2. Work(<<<<"K", m>>>>, 0, FALSE)
  <2> DEFINE k == <<<<"K", m>>>>
  <2>1. k # <<>> /\ k[1] = <<"K", m>> /\ Tail(k) = <<>>
    OBVIOUS
  <2> HIDE DEF k
  <2>2. Work(k, 0, FALSE)
    BY <2>1, NoWork DEF Work
  <2>. QED BY <2>2 DEF k
<1>3. \A s : Simple(s, c) => Work(s, c, w)
  BY DEF Work
<1>. QED BY <1>1, <1>2, <1>3

LEMMA InitiallyControlled ==
  ASSUME GainerAssumption, Init
  PROVE  Types /\ Control
<1>1. DarkMatrix \in [Rows -> Patterns] /\ 0 \in 0 .. MaxCalls /\ 0 <= MaxLine
  BY DEF DarkMatrix, GainerAssumption
<1>2. NoReply \in (Waited \cup {"wait", "none"}) \X (Letter \cup {"none"})
  BY DEF NoReply
<1>3. Types
  <2>1. HostTypes
    <3>1. host \in {"none", "search", "ready", "leaked"} /\ script \in Seq(Step)
      BY DEF Init
    <3>2. calls \in 0 .. MaxCalls /\ m_config \in Modes \cup {0}
      BY <1>1 DEF Init
    <3>3. m_LEDMatrixOutputs \in [Rows -> Patterns]
      BY <1>1 DEF Init
    <3>4. /\ waiting \in BOOLEAN /\ m_endFlag \in BOOLEAN
          /\ g_hwnd \in BOOLEAN /\ m_hwnd_sstp \in BOOLEAN
      BY DEF Init
    <3>. QED BY <3>1, <3>2, <3>3, <3>4 DEF HostTypes
  <2>2. ReceiverTypes
    BY DEF Init, ReceiverTypes
  <2>3. BoardTypes
    BY <1>1 DEF Init, BoardTypes
  <2>4. HistoryTypes
    BY <1>2 DEF Init, HistoryTypes
  <2>. QED BY <2>1, <2>2, <2>3, <2>4 DEF Types
<1>4. Control
  BY DEF Init, Control, OfNone, Unheard
<1>. QED BY <1>3, <1>4

LEMMA ControlledTypeOK ==
  ASSUME Types, Control
  PROVE  TypeOK
<1>1. toBoard \in Seq(Command)
  BY DEF Types, BoardTypes, Wire
<1>2. Configs \cup {0, 1} = Modes \cup {0}
  BY DEF Modes
<1>3. host = "ready" /\ script = <<>> => receiver # "none"
  BY ScriptHeads DEF Control, OfOpening, Opening, OfWork, OfLeaving, Leaving, Listening
<1>4. host = "none" => receiver = "none"
  BY DEF Control, OfNone, Unheard
<1>. QED BY <1>1, <1>2, <1>3, <1>4 DEF TypeOK, Types, HostTypes, ReceiverTypes, BoardTypes, HistoryTypes

\* The calls.
LEMMA OpenControlled ==
  ASSUME GainerAssumption, Types, Control, Open
  PROVE  Types' /\ Control'
<1>1. script' = O1 /\ O1 \in Seq(Step) /\ O1 # <<>> /\ Head(O1)[1] = "Qn"
  BY ScriptTypes, ScriptHeads DEF Open, O1
<1>2. DarkMatrix \in [Rows -> Patterns] /\ calls' \in 0 .. MaxCalls
  BY DEF DarkMatrix, GainerAssumption, Open, Called, Types, HostTypes
<1>3. Types'
  BY <1>1, <1>2 DEF Open, Types, HostTypes, ReceiverTypes, BoardTypes, HistoryTypes, reading, line, board
<1>4. script = <<>> /\ ~waiting /\ Unheard
  BY DEF Open, Called, Control, OfNone, Types, HostTypes
<1>5. OfOpening'
  BY <1>1, <1>4 DEF Open, OfOpening, Opening, Unheard, reading
<1>6. waiting' = waiting /\ receiver' = receiver /\ host' = "ready"
  BY DEF Open, reading
<1>7. Control'
  BY <1>4, <1>5, <1>6 DEF Control, Unheard
<1>. QED BY <1>3, <1>7

LEMMA SearchControlled ==
  ASSUME GainerAssumption, Types, Control, Search
  PROVE  Types' /\ Control'
<1>1. script' = G1 /\ G1 \in Seq(Step)
  BY ScriptTypes DEF Search, G1
<1>2. <<"?">> \in Wire
  BY DEF Wire, Command, Waited
<1>3. toBoard' \in Seq(Wire) /\ Len(toBoard') <= MaxLine
  <2>1. toBoard' = Append(toBoard, <<"?">>) /\ Len(toBoard) < MaxLine /\ toBoard \in Seq(Wire)
    BY DEF Search, Types, BoardTypes
  <2>2. toBoard' \in Seq(Wire) /\ Len(toBoard') = Len(toBoard) + 1
    BY <1>2, <2>1, AppendProperties
  <2>. QED BY <2>1, <2>2, LenProperties DEF GainerAssumption
<1>4. calls' \in 0 .. MaxCalls
  BY DEF GainerAssumption, Search, Called, Types, HostTypes
<1>5. Types'
  BY <1>1, <1>3, <1>4 DEF Search, Types, HostTypes, ReceiverTypes, BoardTypes, HistoryTypes,
     windows, reading, board, history
<1>6. script = <<>> /\ ~waiting /\ Unheard
  BY DEF Search, Called, Control, OfNone, Types, HostTypes
<1>7. waiting' = waiting /\ host' = "search" /\ Unheard'
  BY <1>6 DEF Search, reading, Unheard
<1>8. Control'
  BY <1>1, <1>6, <1>7 DEF Control, Unheard, OfSearch
<1>. QED BY <1>5, <1>8

LEMMA ExecControlled ==
  ASSUME GainerAssumption, Types, Control, NEW o \in Operation, exec(o)
  PROVE  Types' /\ Control'
<1>1. /\ Script(o) \in Seq(Step)
      /\ Script(o) = Exit \/ Work(Script(o), m_config, FALSE)
  BY ScriptWorks DEF Types, HostTypes
<1>2. calls' \in 0 .. MaxCalls /\ Answered(o) \subseteq Rows \X Patterns
  BY AnsweredRows DEF GainerAssumption, exec, Called, Types, HostTypes
<1>3. Types'
  BY <1>1, <1>2 DEF exec, Types, HostTypes, ReceiverTypes, BoardTypes, HistoryTypes,
     windows, reading, line, board
<1>4. script = <<>> /\ host = "ready" /\ ~waiting /\ ~m_endFlag /\ Listening
  <2>1. script = <<>> /\ host = "ready"
    BY DEF exec, Called
  <2>2. ~OfOpening /\ ~OfLeaving
    BY <2>1, ScriptHeads DEF OfOpening, OfLeaving, Opening, Leaving
  <2>. QED BY <2>1, <2>2 DEF Control, OfWork
<1>5. /\ script' = Script(o) /\ host' = "ready" /\ waiting' = FALSE /\ m_config' = m_config
      /\ m_endFlag' = m_endFlag /\ Listening' /\ receiver' = receiver
  BY <1>4 DEF exec, reading, Listening, Types, HostTypes
<1>6. OfWork' \/ OfLeaving'
  BY <1>1, <1>4, <1>5 DEF OfWork, OfLeaving, Leaving, Listening
<1>7. Control'
  BY <1>4, <1>5, <1>6 DEF Control, Listening
<1>. QED BY <1>3, <1>7

LEMMA HwndControlled ==
  ASSUME GainerAssumption, Types, Control, hwnd
  PROVE  Types' /\ Control'
<1>1. calls' \in 0 .. MaxCalls
  BY DEF GainerAssumption, hwnd, Called, Types, HostTypes
<1>2. Types'
  BY <1>1 DEF hwnd, Types, HostTypes, ReceiverTypes, BoardTypes, HistoryTypes, reading, line, board, history
<1>3. Control'
  BY DEF hwnd, Control, OfNone, OfSearch, OfOpening, OfWork, OfLeaving, Unheard, Listening,
     reading, line
<1>. QED BY <1>2, <1>3

\* The steps of the host.
LEMMA GetcControlled ==
  ASSUME GainerAssumption, Types, Control, Getc
  PROVE  Types' /\ Control'
<1>1. host = "search" /\ script = G1 /\ script' = X4 /\ X4 \in Seq(Step) /\ ~waiting
  BY WhereItIs, ScriptTails, ScriptTypes DEF Getc, Doing, Done
<1>2. fromBoard' \in Seq(Letter) /\ Len(fromBoard') <= MaxLine
  <2>1. fromBoard \in Seq(Letter) /\ Len(fromBoard) <= MaxLine
    BY DEF Types, BoardTypes
  <2>2. CASE fromBoard' = fromBoard
    BY <2>1, <2>2
  <2>3. CASE fromBoard # <<>> /\ fromBoard' = Tail(fromBoard)
    <3>1. fromBoard' \in Seq(Letter) /\ Len(fromBoard') = Len(fromBoard) - 1
      BY <2>1, <2>3, HeadTailProperties
    <3>. QED BY <2>1, <3>1, LenProperties DEF GainerAssumption
  <2>. QED BY <2>2, <2>3 DEF Getc
<1>3. Types'
  BY <1>1, <1>2 DEF Getc, Types, HostTypes, ReceiverTypes, BoardTypes, HistoryTypes,
     windows, reading, board, history
<1>4. Control'
  BY <1>1 DEF Getc, Control, OfSearch, Unheard, reading
<1>. QED BY <1>3, <1>4

LEMMA Waits ==
  ASSUME NEW s \in Seq(Step), s # <<>>, NEW c, Work(s, c, FALSE)
  PROVE  Work(s, IF Head(s)[1] = "K" THEN Head(s)[2] ELSE c, TRUE)
<1>1. s[1] = Head(s) /\ 1 \in DOMAIN s
  BY HeadTailProperties, LenProperties, EmptySeq
<1>2. CASE Simple(s, c)
  <2>1. Head(s)[1] # "K"
    BY <1>1, <1>2 DEF Simple, Fits
  <2>. QED BY <1>2, <2>1 DEF Work
<1>3. CASE s = <<<<"Q">>>>
  <2>1. Head(s)[1] # "K"
    BY <1>3
  <2>. QED BY <1>3, <2>1 DEF Work
<1>4. ASSUME NEW m \in Modes, s = <<<<"Q">>, <<"K", m>>>>
      PROVE  Work(s, IF Head(s)[1] = "K" THEN Head(s)[2] ELSE c, TRUE)
  <2>1. Head(s)[1] # "K"
    BY <1>4
  <2>. QED BY <1>4, <2>1 DEF Work
<1>5. ASSUME NEW m \in Modes, s[1] = <<"K", m>>, Simple(Tail(s), m)
      PROVE  Work(s, IF Head(s)[1] = "K" THEN Head(s)[2] ELSE c, TRUE)
  <2>1. Head(s)[1] = "K" /\ Head(s)[2] = m
    BY <1>1, <1>5
  <2>. QED BY <1>5, <2>1 DEF Work
<1>. QED BY <1>2, <1>3, <1>4, <1>5 DEF Work

LEMMA SentTypes ==
  ASSUME GainerAssumption, Types, script # <<>>, NEW cmd, cmd = Head(script),
         cmd[1] \in NoWait \cup Waited
  PROVE  /\ cmd \in Command /\ OnLine(cmd) \in Wire /\ Tail(script) \in Seq(Step)
         /\ cmd[1] = "K" => cmd[2] \in Modes
         /\ cmd[1] = "a" => cmd[2] \in Rows /\ cmd[3] \in Patterns
<1>1. cmd \in Step /\ Tail(script) \in Seq(Step)
  BY HeadTailProperties DEF Types, HostTypes
<1>2. cmd \in Command
  BY <1>1, StepShape DEF NoWait, Waited
<1>3. <<"Q">> \in Wire
  BY DEF Wire, Command, Waited
<1>4. OnLine(cmd) \in Wire
  <2>1. CASE cmd = <<"Qn">>
    BY <1>3, <2>1 DEF OnLine
  <2>2. CASE cmd # <<"Qn">>
    <3>1. cmd[1] # "Qn"
      BY <1>2, <2>2, CommandShape
    <3>. QED BY <1>2, <2>2, <3>1 DEF OnLine, Wire
  <2>. QED BY <2>1, <2>2
<1>. QED BY <1>1, <1>2, <1>4, CommandShape

LEMMA SendControlled ==
  ASSUME GainerAssumption, Types, Control, Send
  PROVE  Types' /\ Control'
<1> DEFINE cmd == Head(script)
<1>0. /\ script # <<>> /\ ~waiting /\ Len(toBoard) < MaxLine /\ cmd[1] \in NoWait \cup Waited
      /\ toBoard' = Append(toBoard, OnLine(cmd))
      /\ waiting' = (cmd[1] \in Waited)
      /\ script' = IF cmd[1] \in Waited THEN script ELSE Tail(script)
      /\ m_config' = CASE cmd[1] = "K" -> cmd[2] [] cmd[1] = "Qn" -> 0 [] OTHER -> m_config
      /\ m_LEDMatrixOutputs' = IF cmd[1] = "a" THEN [m_LEDMatrixOutputs EXCEPT ![cmd[2]] = cmd[3]]
                               ELSE m_LEDMatrixOutputs
      /\ UNCHANGED <<host, calls, m_endFlag, windows, reading, fromBoard, board, history>>
  BY DEF Send
<1> HIDE DEF cmd
<1>1. /\ cmd \in Command /\ OnLine(cmd) \in Wire /\ Tail(script) \in Seq(Step)
      /\ cmd[1] = "K" => cmd[2] \in Modes
      /\ cmd[1] = "a" => cmd[2] \in Rows /\ cmd[3] \in Patterns
  BY <1>0, SentTypes DEF cmd
<1>2. toBoard' \in Seq(Wire) /\ Len(toBoard') <= MaxLine
  <2>1. toBoard \in Seq(Wire) /\ Len(toBoard) \in Nat
    BY LenProperties DEF Types, BoardTypes
  <2>2. toBoard' \in Seq(Wire) /\ Len(toBoard') = Len(toBoard) + 1
    BY <1>0, <1>1, <2>1, AppendProperties
  <2>. QED BY <1>0, <2>1, <2>2 DEF GainerAssumption
<1>3. m_config' \in Modes \cup {0}
  BY <1>0, <1>1 DEF Types, HostTypes
<1>4. m_LEDMatrixOutputs' \in [Rows -> Patterns]
  BY <1>0, <1>1 DEF Types, HostTypes
<1>5. script' \in Seq(Step) /\ waiting' \in BOOLEAN
  BY <1>0, <1>1 DEF Types, HostTypes
<1>6. Types'
  BY <1>0, <1>2, <1>3, <1>4, <1>5 DEF Types, HostTypes, ReceiverTypes, BoardTypes, HistoryTypes,
     windows, reading, board, history
<1>7. waiting' => script' # <<>> /\ Head(script')[1] \in Waited
  BY <1>0 DEF cmd
<1>11. /\ host' = host /\ m_endFlag' = m_endFlag /\ receiver' = receiver
       /\ batch' = batch /\ m_receive_queue' = m_receive_queue
       /\ Unheard' = Unheard /\ Listening' = Listening
  BY <1>0 DEF reading, Unheard, Listening
<1>12. ASSUME host = "ready", OfOpening' \/ OfWork' \/ OfLeaving' PROVE Control'
  BY <1>7, <1>11, <1>12 DEF Control
<1>8. CASE cmd[1] = "Qn"
  <2>1. host = "ready" /\ ((script = O1 /\ OfOpening) \/ (script = X2 /\ OfLeaving))
    BY <1>0, <1>8, WhereItIs DEF cmd
  <2>2. script' = Tail(script) /\ m_config' = 0 /\ ~waiting'
    BY <1>0, <1>8 DEF Waited
  <2>3. CASE script = O1 /\ OfOpening
    <3>1. OfOpening'
      BY <1>11, <2>2, <2>3, ScriptTails DEF OfOpening, Opening
    <3>. QED BY <1>6, <1>12, <2>1, <3>1
  <2>4. CASE script = X2 /\ OfLeaving
    <3>1. X2 # Exit /\ X3 # Exit
      BY ScriptHeads
    <3>2. OfLeaving'
      BY <1>11, <2>2, <2>4, <3>1, ScriptTails DEF OfLeaving, Leaving
    <3>. QED BY <1>6, <1>12, <2>1, <3>2
  <2>. QED BY <2>1, <2>3, <2>4
<1>9. CASE cmd[1] = "?"
  <2>1. host = "ready" /\ script = O4 /\ OfOpening
    BY <1>0, <1>9, WhereItIs DEF cmd
  <2>2. script' = script /\ m_config' = m_config
    BY <1>0, <1>9 DEF Waited
  <2>3. OfOpening'
    BY <1>11, <2>1, <2>2 DEF OfOpening, Opening
  <2>. QED BY <1>6, <1>12, <2>1, <2>3
<1>10. CASE cmd[1] \notin {"Qn", "?"}
  <2>1. host = "ready" /\ OfWork
    BY <1>0, <1>10, WhereItIs DEF cmd, NoWait, Waited
  <2>2. script \in Seq(Step) /\ waiting = FALSE
    BY <1>0 DEF Types, HostTypes
  <2>3. Work(script, m_config, FALSE)
    BY <2>1, <2>2 DEF OfWork
  <2>4. CASE cmd[1] \in Waited
    <3>1. Work(script, IF cmd[1] = "K" THEN cmd[2] ELSE m_config, TRUE)
      BY <1>0, <2>2, <2>3, Waits DEF cmd
    <3>2. script' = script /\ waiting' = TRUE /\ m_config' = IF cmd[1] = "K" THEN cmd[2] ELSE m_config
      BY <1>0, <1>10, <2>4
    <3>3. Work(script', m_config', waiting')
      BY <3>1, <3>2
    <3>4. OfWork'
      BY <1>11, <2>1, <3>3 DEF OfWork
    <3>. QED BY <1>6, <1>12, <2>1, <3>4
  <2>5. CASE cmd[1] \notin Waited
    <3>0. cmd[1] \in {"r", "i", "a"}
      BY <1>0, <1>10, <2>5 DEF NoWait
    <3>1. m_config' = m_config /\ script' = Tail(script) /\ waiting' = FALSE
      <4>1. m_config' = m_config
        BY <1>0, <3>0
      <4>2. script' = Tail(script) /\ ~waiting'
        BY <1>0, <2>5
      <4>. QED BY <1>5, <4>1, <4>2
    <3>2. Simple(Tail(script), m_config)
      <4>1. /\ ~(cmd[1] \in {"Q", "K"})
            /\ cmd # <<"Q">> /\ \A m \in Modes : cmd # <<"K", m>>
        BY <3>0
      <4>. QED BY <1>0, <2>2, <2>3, <4>1, WorkHead DEF cmd
    <3>3. Work(script', m_config', waiting')
      BY <3>1, <3>2 DEF Work
    <3>4. OfWork'
      BY <1>11, <2>1, <3>3 DEF OfWork
    <3>. QED BY <1>6, <1>12, <2>1, <3>4
  <2>. QED BY <2>4, <2>5
<1>. QED BY <1>6, <1>8, <1>9, <1>10

LEMMA ReceiveControlled ==
  ASSUME GainerAssumption, Types, Control, Receive
  PROVE  Types' /\ Control'
<1> DEFINE x == Head(script)[1]
<1>0. /\ script # <<>> /\ x \in Waited \cup {"wait"}
      /\ m_receive_queue # <<>> /\ m_receive_queue' = Tail(m_receive_queue)
      /\ waiting' = FALSE
      /\ answered' = <<x, Head(m_receive_queue)>>
      /\ m_config' = IF x = "Q" THEN 0 ELSE m_config
      /\ \/ script' = Tail(script) /\ host' = host
         \/ x = "?" /\ host' = "leaked" /\ script' = <<>>
      /\ UNCHANGED <<calls, m_LEDMatrixOutputs, m_endFlag, windows, receiver, batch, line, board,
                     scanned, strayed, refused, lost>>
  BY DEF Receive, Doing, Done, Control
<1> HIDE DEF x
<1>1. Head(m_receive_queue) \in Letter /\ Tail(m_receive_queue) \in Seq(Letter)
  BY <1>0, HeadTailProperties DEF Types, ReceiverTypes
<1>2. script' \in Seq(Step)
  <2>1. script \in Seq(Step)
    BY DEF Types, HostTypes
  <2>2. Tail(script) \in Seq(Step) /\ <<>> \in Seq(Step)
    BY <1>0, <2>1, HeadTailProperties
  <2>. QED BY <1>0, <2>2
<1>3. Types'
  <2>1. HostTypes'
    BY <1>0, <1>2 DEF Types, HostTypes, windows
  <2>2. ReceiverTypes' /\ BoardTypes'
    BY <1>0, <1>1 DEF Types, ReceiverTypes, BoardTypes, line, board
  <2>3. HistoryTypes'
    BY <1>0, <1>1 DEF Types, HistoryTypes
  <2>. QED BY <2>1, <2>2, <2>3 DEF Types
<1>4. m_endFlag' = m_endFlag /\ receiver' = receiver /\ Listening' = Listening /\ ~waiting'
  BY <1>0 DEF Listening
<1>5. CASE x = "?" /\ host' = "leaked" /\ script' = <<>>
  BY <1>3, <1>4, <1>5 DEF Control
<1>6. CASE script' = Tail(script) /\ host' = host
  <2>1. ASSUME host = "ready", OfOpening' \/ OfWork' \/ OfLeaving' PROVE Control'
    BY <1>4, <1>6, <2>1 DEF Control
  <2>2. CASE x \in {"wait", "?"}
    <3>1. host = "ready" /\ OfOpening /\ script \in {O3, O4} /\ m_config' = m_config
      BY <1>0, <2>2, WhereItIs DEF x
    <3>2. Tail(script) \in {O4, O5} /\ O3 \notin {O1, O2} /\ O4 \notin {O1, O2} /\ O5 \notin {O1, O2}
      BY <3>1, ScriptTails, ScriptHeads
    <3>3. OfOpening'
      BY <1>4, <1>6, <3>1, <3>2 DEF OfOpening, Opening
    <3>. QED BY <1>3, <2>1, <3>1, <3>3
  <2>3. CASE x \notin {"wait", "?"}
    <3>1. host = "ready" /\ OfWork
      BY <1>0, <2>3, WhereItIs DEF x, Waited
    <3>2. Work(script', m_config', waiting')
      <4> DEFINE c == m_config
                 s == script
      <4>1. s \in Seq(Step) /\ s # <<>> /\ Work(s, c, waiting)
        BY <1>0, <3>1 DEF OfWork, Types, HostTypes
      <4>2. \/ x \in {"h", "R", "I", "E", "D", "A", "s", "P", "r", "i", "a"} /\ Simple(Tail(s), c)
            \/ /\ Head(s) = <<"Q">>
               /\ Tail(s) = <<>> \/ \E m \in Modes : Tail(s) = <<<<"K", m>>>>
            \/ \E m \in Modes : Head(s) = <<"K", m>> /\ Simple(Tail(s), m) /\ c = IF waiting THEN m ELSE 0
        BY <4>1, WorkHead DEF x
      <4>3. CASE x \in {"h", "R", "I", "E", "D", "A", "s", "P", "r", "i", "a"} /\ Simple(Tail(s), c)
        BY <1>0, <1>6, <4>3 DEF Work
      <4>4. CASE /\ Head(s) = <<"Q">>
                 /\ Tail(s) = <<>> \/ \E m \in Modes : Tail(s) = <<<<"K", m>>>>
        <5>1. m_config' = 0 /\ waiting' = FALSE
          BY <1>0, <4>4 DEF x
        <5>2. CASE Tail(s) = <<>>
          BY <1>6, <5>2, NoWork DEF Work
        <5>3. CASE \E m \in Modes : Tail(s) = <<<<"K", m>>>>
          <6>1. PICK m \in Modes : Tail(s) = <<<<"K", m>>>>
            BY <5>3
          <6>2. Work(<<<<"K", m>>>>, 0, FALSE)
            BY WorkAgain
          <6>. QED BY <1>6, <5>1, <6>1, <6>2
        <5>. QED BY <4>4, <5>2, <5>3
      <4>5. ASSUME NEW m \in Modes, Head(s) = <<"K", m>>, Simple(Tail(s), m),
                   c = IF waiting THEN m ELSE 0
            PROVE  Work(script', m_config', waiting')
        <5>1. x = "K" /\ m_config' = m_config
          BY <1>0, <4>5 DEF x
        <5>2. waiting
          BY <5>1 DEF Receive, Doing, x
        <5>3. Simple(script', m_config')
          BY <1>6, <4>5, <5>1, <5>2
        <5>. QED BY <5>3 DEF Work
      <4>. QED BY <4>2, <4>3, <4>4, <4>5
    <3>3. OfWork'
      BY <1>4, <3>1, <3>2 DEF OfWork
    <3>. QED BY <1>3, <2>1, <3>1, <3>3
  <2>. QED BY <2>2, <2>3
<1>. QED BY <1>0, <1>5, <1>6

LEMMA SmallStepsControlled ==
  ASSUME GainerAssumption, Types, Control, SetHWND \/ StartThread \/ EndThread \/ Join
  PROVE  Types' /\ Control'
<1>1. ~waiting /\ ~waiting' /\ host' = host
  BY DEF SetHWND, StartThread, EndThread, Join, Doing
<1>2. ASSUME host = "ready", receiver' = "ended" => m_endFlag', OfOpening' \/ OfWork' \/ OfLeaving'
      PROVE  Control'
  BY <1>1, <1>2 DEF Control
<1>3. script' \in Seq(Step)
  BY HeadTailProperties DEF SetHWND, StartThread, EndThread, Join, Doing, Done, Types, HostTypes
<1>4. CASE SetHWND
  <2>1. Types'
    BY <1>3, <1>4 DEF SetHWND, Types, HostTypes, ReceiverTypes, BoardTypes, HistoryTypes,
       reading, line, board, history
  <2>2. host = "ready" /\ script = O5 /\ OfOpening
    BY <1>4, WhereItIs DEF SetHWND, Doing
  <2>3. script' = <<>> /\ ~m_endFlag' /\ receiver' = receiver /\ Listening'
    <3>1. O5 \notin {O1, O2}
      BY ScriptHeads
    <3>2. script' = <<>> /\ ~m_endFlag' /\ receiver' = receiver
      BY <1>4, <2>2, ScriptTails DEF SetHWND, Done, OfOpening, reading
    <3>. QED BY <2>2, <3>1, <3>2 DEF OfOpening, Listening
  <2>4. OfWork'
    BY <2>3, NoWork DEF OfWork, Work
  <2>. QED BY <1>2, <2>1, <2>2, <2>3, <2>4 DEF Listening
<1>5. CASE StartThread
  <2>1. Types'
    BY <1>3, <1>5 DEF StartThread, Types, HostTypes, ReceiverTypes, BoardTypes, HistoryTypes,
       windows, line, board, history
  <2>2. host = "ready" /\ script = O2 /\ OfOpening
    BY <1>5, WhereItIs DEF StartThread, Doing
  <2>3. script' = O3 /\ m_endFlag' = m_endFlag /\ m_config' = m_config /\ receiver' = "reading"
    BY <1>5, <2>2, ScriptTails DEF StartThread, Done
  <2>4. OfOpening'
    <3>1. O3 \notin {O1, O2}
      BY ScriptHeads
    <3>. QED BY <2>2, <2>3, <3>1 DEF OfOpening, Opening, Listening
  <2>. QED BY <1>2, <2>1, <2>2, <2>3, <2>4
<1>6. CASE EndThread
  <2>1. Types'
    BY <1>3, <1>6 DEF EndThread, Types, HostTypes, ReceiverTypes, BoardTypes, HistoryTypes,
       windows, reading, line, board, history
  <2>2. host = "ready" /\ script = Exit /\ OfLeaving
    BY <1>6, WhereItIs DEF EndThread, Doing
  <2>3. script' = X2 /\ m_endFlag' /\ receiver' = receiver
    BY <1>6, <2>2, ScriptTails DEF EndThread, Done, reading
  <2>4. OfLeaving'
    <3>1. X2 # Exit
      BY ScriptHeads
    <3>. QED BY <2>2, <2>3, <3>1 DEF OfLeaving, Leaving
  <2>. QED BY <1>2, <2>1, <2>2, <2>3, <2>4
<1>7. CASE Join
  <2>1. Types'
    BY <1>3, <1>7 DEF Join, Types, HostTypes, ReceiverTypes, BoardTypes, HistoryTypes,
       windows, reading, line, board, history
  <2>2. host = "ready" /\ script = X3 /\ OfLeaving
    BY <1>7, WhereItIs DEF Join, Doing
  <2>3. script' = X4 /\ m_endFlag' = m_endFlag /\ receiver' = receiver
    BY <1>7, <2>2, ScriptTails DEF Join, Done, reading
  <2>4. OfLeaving'
    <3>1. X3 # Exit /\ X4 # Exit
      BY ScriptHeads
    <3>. QED BY <2>2, <2>3, <3>1 DEF OfLeaving, Leaving
  <2>5. receiver' = "ended" => m_endFlag'
    BY <2>3 DEF Control
  <2>. QED BY <1>2, <2>1, <2>2, <2>4, <2>5
<1>. QED BY <1>4, <1>5, <1>6, <1>7

LEMMA CloseControlled ==
  ASSUME GainerAssumption, Types, Control, Close
  PROVE  Types' /\ Control'
<1>1. script = X4 /\ script' = <<>> /\ ~waiting'
  BY WhereItIs, ScriptTails DEF Close, Doing, Done
<1>2. toBoard' \in Seq(Wire) /\ Len(toBoard') <= MaxLine /\ Len(fromBoard') <= MaxLine
  <2>1. toBoard \in Seq(Wire) /\ Len(toBoard) <= MaxLine /\ 0 <= MaxLine
    BY DEF Types, BoardTypes, GainerAssumption
  <2>2. <<>> \in Seq(Wire) /\ Len(<<>>) = 0
    OBVIOUS
  <2>3. fromBoard' = <<>> /\ (toBoard' = toBoard \/ toBoard' = <<>>)
    BY DEF Close
  <2>. QED BY <2>1, <2>2, <2>3
<1>3. Types'
  BY <1>1, <1>2 DEF Close, Types, HostTypes, ReceiverTypes, BoardTypes, HistoryTypes,
     windows, board, history
<1>4. Control'
  BY <1>1 DEF Close, Control, OfNone, Unheard
<1>. QED BY <1>3, <1>4

\* The receiver thread.
LEMMA ReceiverControlled ==
  ASSUME Control, UNCHANGED hosting, Listening,
         Listening' \/ (receiver' = "ended" /\ m_endFlag)
  PROVE  Control'
<1>1. /\ host' = host /\ script' = script /\ waiting' = waiting /\ m_config' = m_config
      /\ m_endFlag' = m_endFlag
  BY DEF hosting
<1>2. host \notin {"none", "search"}
  BY DEF Control, OfNone, OfSearch, Unheard, Listening
<1>3. ASSUME OfOpening PROVE OfOpening'
  <2>1. script \notin {O1, O2} /\ ~m_endFlag
    BY <1>3 DEF OfOpening, Unheard, Listening
  <2>. QED BY <1>1, <1>3, <2>1 DEF OfOpening
<1>4. ASSUME OfWork PROVE OfWork'
  BY <1>1, <1>4 DEF OfWork
<1>5. ASSUME OfLeaving PROVE OfLeaving'
  BY <1>1, <1>5 DEF OfLeaving, Listening
<1>6. receiver' = "ended" => m_endFlag'
  BY <1>1 DEF Listening
<1>. QED BY <1>1, <1>2, <1>3, <1>4, <1>5, <1>6 DEF Control

LEMMA ReceivedTypes ==
  ASSUME Types, NEW n \in 1 .. Len(fromBoard)
  PROVE  LET rest == SubSeq(fromBoard, n + 1, Len(fromBoard))
         IN  /\ Batch(SubSeq(fromBoard, 1, n)) \in Seq(Letter)
             /\ rest \in Seq(Letter) /\ Len(rest) <= MaxLine
             /\ \A e \in Letter : rest # <<>> => /\ <<e>> \o Tail(rest) \in Seq(Letter)
                                                 /\ Len(<<e>> \o Tail(rest)) <= MaxLine
<1> DEFINE rest == SubSeq(fromBoard, n + 1, Len(fromBoard))
<1>1. fromBoard \in Seq(Letter) /\ Len(fromBoard) <= MaxLine /\ Len(fromBoard) \in Nat
  BY LenProperties DEF Types, BoardTypes
<1>2. /\ SubSeq(fromBoard, 1, n) \in Seq(Letter) /\ rest \in Seq(Letter)
      /\ Len(rest) = Len(fromBoard) - n
  BY <1>1, SplitLetters
<1> HIDE DEF rest
<1>3. Batch(SubSeq(fromBoard, 1, n)) \in Seq(Letter)
  <2>1. {} \cap Reports = {}
    OBVIOUS
  <2>. QED BY <1>2, <2>1, BatchLetters
<1>4. Len(rest) <= MaxLine
  <2>1. MaxLine \in Nat
    BY GainerAssumption DEF GainerAssumption
  <2>. QED BY <1>1, <1>2, <2>1
<1>5. ASSUME NEW e \in Letter, rest # <<>>
      PROVE  <<e>> \o Tail(rest) \in Seq(Letter) /\ Len(<<e>> \o Tail(rest)) <= MaxLine
  <2> DEFINE a == <<e>>
             t == Tail(rest)
  <2>1. a \in Seq(Letter) /\ Len(a) = 1
    OBVIOUS
  <2>2. t \in Seq(Letter) /\ Len(t) = Len(rest) - 1 /\ Len(rest) \in Nat
    BY <1>2, <1>5, HeadTailProperties, LenProperties
  <2> HIDE DEF a, t
  <2>3. a \o t \in Seq(Letter) /\ Len(a \o t) = Len(a) + Len(t)
    BY <2>1, <2>2, ConcatProperties
  <2>4. Len(a \o t) <= MaxLine
    <3>1. Len(a \o t) = Len(rest)
      BY <2>1, <2>2, <2>3
    <3>. QED BY <1>4, <3>1
  <2>. QED BY <2>3, <2>4 DEF a, t
<1>. QED BY <1>2, <1>3, <1>4, <1>5 DEF rest

LEMMA RecvTaken ==
  ASSUME Recv
  PROVE  /\ receiver = "reading" /\ receiver' = "reading" /\ batch = <<>> /\ ~m_endFlag
         /\ UNCHANGED <<hosting, m_receive_queue, toBoard, board, answered, scanned, refused>>
         /\ \E n \in 1 .. Len(fromBoard) :
              LET rest == SubSeq(fromBoard, n + 1, Len(fromBoard))
              IN  /\ batch' = Batch(SubSeq(fromBoard, 1, n))
                  /\ \/ fromBoard' = rest /\ strayed' = strayed /\ lost' = lost
                     \/ /\ rest # <<>> /\ fromBoard' = <<"tail">> \o Tail(rest)
                        /\ strayed' = TRUE /\ lost' = lost
                     \/ /\ rest # <<>> /\ fromBoard' = <<"F">> \o Tail(rest)
                        /\ lost' = TRUE /\ strayed' = strayed
BY DEF Recv, Batch

LEMMA RecvControlled ==
  ASSUME GainerAssumption, Types, Control, Recv
  PROVE  Types' /\ Control'
<1>1. Control'
  BY RecvTaken, ReceiverControlled DEF Listening
<1>2. PICK n \in 1 .. Len(fromBoard) :
        LET rest == SubSeq(fromBoard, n + 1, Len(fromBoard))
        IN  /\ batch' = Batch(SubSeq(fromBoard, 1, n))
            /\ \/ fromBoard' = rest /\ strayed' = strayed /\ lost' = lost
               \/ /\ rest # <<>> /\ fromBoard' = <<"tail">> \o Tail(rest)
                  /\ strayed' = TRUE /\ lost' = lost
               \/ /\ rest # <<>> /\ fromBoard' = <<"F">> \o Tail(rest)
                  /\ lost' = TRUE /\ strayed' = strayed
  BY RecvTaken
<1> DEFINE rest == SubSeq(fromBoard, n + 1, Len(fromBoard))
<1>3. /\ Batch(SubSeq(fromBoard, 1, n)) \in Seq(Letter)
      /\ rest \in Seq(Letter) /\ Len(rest) <= MaxLine
      /\ \A e \in Letter : rest # <<>> => /\ <<e>> \o Tail(rest) \in Seq(Letter)
                                          /\ Len(<<e>> \o Tail(rest)) <= MaxLine
  BY ReceivedTypes
<1>4. "tail" \in Letter /\ "F" \in Letter
  BY DEF Letter
<1> HIDE DEF rest
<1>5. fromBoard' \in Seq(Letter) /\ Len(fromBoard') <= MaxLine /\ batch' \in Seq(Letter)
  BY <1>2, <1>3, <1>4 DEF rest
<1>6. strayed' \in BOOLEAN /\ lost' \in BOOLEAN
  BY <1>2 DEF Types, HistoryTypes
<1>7. Types'
  BY <1>5, <1>6, RecvTaken DEF Types, HostTypes, ReceiverTypes, BoardTypes, HistoryTypes,
     hosting, windows, board
<1>. QED BY <1>1, <1>7

LEMMA EventControlled ==
  ASSUME GainerAssumption, Types, Control, processEvent
  PROVE  Types' /\ Control'
<1>1. receiver = "reading" /\ receiver' \in {"reading", "sending"} /\ UNCHANGED hosting
  BY DEF processEvent
<1>2. Control'
  BY <1>1, ReceiverControlled DEF Listening
<1>3. Head(batch) \in Letter /\ batch' \in Seq(Letter)
  BY HeadTailProperties DEF processEvent, Types, ReceiverTypes
<1>4. m_receive_queue' \in Seq(Letter)
  BY <1>3, AppendProperties DEF processEvent, Types, ReceiverTypes
<1>5. Types'
  BY <1>1, <1>3, <1>4 DEF processEvent, Types, HostTypes, ReceiverTypes, BoardTypes, HistoryTypes,
     hosting, windows, line, board, history
<1>. QED BY <1>2, <1>5

LEMMA SentControlled ==
  ASSUME GainerAssumption, Types, Control, Sent \/ EndReceiver
  PROVE  Types' /\ Control'
<1>1. /\ Listening /\ UNCHANGED <<hosting, batch, m_receive_queue, line, board, history>>
      /\ Listening' \/ (receiver' = "ended" /\ m_endFlag)
  BY DEF Sent, EndReceiver, Listening
<1>2. Control'
  BY <1>1, ReceiverControlled
<1>3. Types'
  BY <1>1 DEF Types, HostTypes, ReceiverTypes, BoardTypes, HistoryTypes, Listening,
     hosting, windows, line, board, history
<1>. QED BY <1>2, <1>3

\* The board and the line.
LEMMA LineControlled ==
  ASSUME Control, UNCHANGED <<hosting, reading>>, host # "none" \/ fromBoard' = fromBoard \/ fromBoard' = <<>>
  PROVE  Control'
<1>1. /\ host' = host /\ script' = script /\ waiting' = waiting /\ m_config' = m_config
      /\ m_endFlag' = m_endFlag
      /\ receiver' = receiver /\ batch' = batch /\ m_receive_queue' = m_receive_queue
  BY DEF hosting, reading
<1>2. Unheard' = Unheard /\ Listening' = Listening
  BY <1>1 DEF Unheard, Listening
<1>3. OfNone /\ host = "none" => OfNone'
  BY <1>1, <1>2 DEF OfNone
<1>4. /\ OfSearch => OfSearch'
      /\ OfOpening => OfOpening'
      /\ OfWork => OfWork'
      /\ OfLeaving => OfLeaving'
  BY <1>1, <1>2 DEF OfSearch, OfOpening, OfWork, OfLeaving
<1>5. /\ waiting' => script' # <<>> /\ Head(script')[1] \in Waited
      /\ receiver' = "ended" => m_endFlag'
      /\ host' = "leaked" => script' = <<>>
  BY <1>1 DEF Control
<1>6. host' = "none" => OfNone'
  BY <1>1, <1>3 DEF Control
<1>7. host' = "search" => OfSearch'
  BY <1>1, <1>4 DEF Control
<1>8. host' = "ready" => OfOpening' \/ OfWork' \/ OfLeaving'
  BY <1>1, <1>4 DEF Control
<1>. QED BY <1>5, <1>6, <1>7, <1>8 DEF Control

LEMMA WireLetters ==
  ASSUME NEW cmd \in Wire
  PROVE  /\ cmd[1] \in Waited \cup {"r", "i", "a"}
         /\ Reply(cmd) \subseteq Letter
         /\ cmd[1] = "K" => cmd[2] \in Modes
         /\ cmd[1] = "a" => cmd[2] \in Rows /\ cmd[3] \in Patterns
<1>1. /\ cmd[1] \in Waited \cup {"r", "i", "a"}
      /\ cmd[1] = "K" => cmd[2] \in Modes
      /\ cmd[1] = "a" => cmd[2] \in Rows /\ cmd[3] \in Patterns
  BY CommandShape DEF Wire
<1>2. Reply(cmd) \subseteq {"!", "a", cmd[1]}
  BY DEF Reply
<1>3. {"!", "a", cmd[1]} \subseteq Letter
  BY <1>1 DEF Letter
<1>. QED BY <1>1, <1>2, <1>3

LEMMA ObeyControlled ==
  ASSUME GainerAssumption, Types, Control, Obey
  PROVE  Types' /\ Control'
<1> DEFINE cmd == Head(toBoard)
<1>0. /\ toBoard # <<>> /\ Len(fromBoard) < MaxLine /\ toBoard' = Tail(toBoard)
      /\ IF Closed \/ (cmd[1] \in Reports /\ ~Refuses(cmd)) THEN fromBoard' = fromBoard
         ELSE \E r \in Reply(cmd) : fromBoard' = Append(fromBoard, r)
      /\ refused' = (refused \/ Refuses(cmd))
      /\ config' = CASE cmd[1] = "Q" -> 0
                     [] cmd[1] = "K" /\ config = 0 -> cmd[2]
                     [] OTHER -> config
      /\ streams' = CASE cmd[1] \in {"Q", "E"} -> {}
                      [] cmd[1] \in Reports /\ ~Refuses(cmd) -> streams \cup {cmd[1]}
                      [] OTHER -> streams
      /\ matrix' = CASE cmd[1] = "Q" -> DarkMatrix
                     [] cmd[1] = "a" /\ ~Refuses(cmd) -> [matrix EXCEPT ![cmd[2]] = cmd[3]]
                     [] OTHER -> matrix
      /\ UNCHANGED <<hosting, reading, answered, scanned, strayed, lost>>
  BY DEF Obey
<1>1. cmd \in Wire /\ toBoard' \in Seq(Wire) /\ Len(toBoard') <= MaxLine
  <2>1. toBoard \in Seq(Wire) /\ Len(toBoard) <= MaxLine /\ MaxLine \in Nat
    BY DEF Types, BoardTypes, GainerAssumption
  <2>2. cmd \in Wire /\ toBoard' \in Seq(Wire) /\ Len(toBoard') = Len(toBoard) - 1
    BY <1>0, <2>1, HeadTailProperties
  <2>. QED BY <2>1, <2>2, LenProperties
<1> HIDE DEF cmd
<1>2. /\ Reply(cmd) \subseteq Letter
      /\ cmd[1] = "K" => cmd[2] \in Modes
      /\ cmd[1] = "a" => cmd[2] \in Rows /\ cmd[3] \in Patterns
  BY <1>1, WireLetters
<1>3. fromBoard' \in Seq(Letter) /\ Len(fromBoard') <= MaxLine
  <2>1. fromBoard \in Seq(Letter) /\ Len(fromBoard) \in Nat /\ Len(fromBoard) < MaxLine /\ MaxLine \in Nat
    BY <1>0, LenProperties DEF Types, BoardTypes, GainerAssumption
  <2>2. CASE fromBoard' = fromBoard
    BY <2>1, <2>2
  <2>3. ASSUME NEW r \in Reply(cmd), fromBoard' = Append(fromBoard, r)
        PROVE  fromBoard' \in Seq(Letter) /\ Len(fromBoard') <= MaxLine
    <3>1. r \in Letter
      BY <1>2
    <3>2. fromBoard' \in Seq(Letter) /\ Len(fromBoard') = Len(fromBoard) + 1
      BY <2>1, <2>3, <3>1, AppendProperties
    <3>. QED BY <2>1, <3>2
  <2>. QED BY <1>0, <2>2, <2>3
<1>4. config' \in Modes \cup {0}
  BY <1>0, <1>2 DEF Types, BoardTypes
<1>5. streams' \subseteq Reports
  BY <1>0 DEF Types, BoardTypes
<1>6. matrix' \in [Rows -> Patterns]
  <2>1. DarkMatrix \in [Rows -> Patterns] /\ matrix \in [Rows -> Patterns]
    BY DEF DarkMatrix, GainerAssumption, Types, BoardTypes
  <2>. QED BY <1>0, <1>2, <2>1
<1>7. refused' \in BOOLEAN
  BY <1>0
<1>8. Types'
  <2>1. HostTypes' /\ ReceiverTypes'
    BY <1>0 DEF Types, HostTypes, ReceiverTypes, hosting, windows, reading
  <2>2. BoardTypes'
    BY <1>1, <1>3, <1>4, <1>5, <1>6 DEF BoardTypes
  <2>3. HistoryTypes'
    BY <1>0, <1>7 DEF Types, HistoryTypes
  <2>. QED BY <2>1, <2>2, <2>3 DEF Types
<1>9. Control'
  BY <1>0, LineControlled DEF Closed
<1>. QED BY <1>8, <1>9

LEMMA TellControlled ==
  ASSUME GainerAssumption, Types, Control, Tell
  PROVE  Types' /\ Control'
<1>1. PICK e \in {"N", "F"} \cup streams : fromBoard' = Append(fromBoard, e)
  BY DEF Tell
<1>2. e \in Letter
  BY DEF Types, BoardTypes, Reports, Letter
<1>3. /\ fromBoard \in Seq(Letter) /\ Len(fromBoard) \in Nat /\ Len(fromBoard) < MaxLine - 1
      /\ MaxLine \in Nat
  BY LenProperties DEF Tell, Types, BoardTypes, GainerAssumption
<1>4. fromBoard' \in Seq(Letter) /\ Len(fromBoard') = Len(fromBoard) + 1
  BY <1>1, <1>2, <1>3, AppendProperties
<1>5. Types'
  BY <1>3, <1>4 DEF Tell, Types, HostTypes, ReceiverTypes, BoardTypes, HistoryTypes,
     hosting, windows, reading, board, history
<1>6. Control'
  BY LineControlled DEF Tell, Closed
<1>. QED BY <1>5, <1>6

LEMMA LoseControlled ==
  ASSUME GainerAssumption, Types, Control, Lose
  PROVE  Types' /\ Control'
<1>1. /\ fromBoard \in Seq(Letter) /\ Len(fromBoard) \in Nat /\ Len(fromBoard) <= MaxLine
      /\ MaxLine \in Nat /\ fromBoard # <<>> /\ fromBoard' = Tail(fromBoard)
  BY LenProperties DEF Lose, Types, BoardTypes, GainerAssumption
<1>2. fromBoard' \in Seq(Letter) /\ Len(fromBoard') = Len(fromBoard) - 1
  BY <1>1, HeadTailProperties
<1>3. Types'
  BY <1>1, <1>2 DEF Lose, Types, HostTypes, ReceiverTypes, BoardTypes, HistoryTypes,
     hosting, windows, reading, board
<1>4. host # "none"
  BY <1>1 DEF Control, OfNone
<1>5. Control'
  BY <1>4, LineControlled DEF Lose
<1>. QED BY <1>3, <1>5

LEMMA StutterControlled ==
  ASSUME Types, Control, UNCHANGED vars
  PROVE  Types' /\ Control'
<1>1. Types'
  BY DEF Types, HostTypes, ReceiverTypes, BoardTypes, HistoryTypes, vars, hosting, windows, reading,
     line, board, history
<1>2. Control'
  BY LineControlled DEF vars, line
<1>. QED BY <1>1, <1>2

-----------------------------------------------------------------------------
(* The types, for every behaviour. *)

LEMMA StepControlled ==
  ASSUME GainerAssumption, Types, Control, [Next]_vars
  PROVE  Types' /\ Control'
<1>1. CASE Open
  BY <1>1, OpenControlled
<1>2. CASE Search
  BY <1>2, SearchControlled
<1>3. CASE \E o \in Operation : exec(o)
  BY <1>3, ExecControlled
<1>4. CASE hwnd
  BY <1>4, HwndControlled
<1>5. CASE HostStep
  BY <1>5, GetcControlled, SendControlled, ReceiveControlled, SmallStepsControlled, CloseControlled
     DEF HostStep
<1>6. CASE ReceiverStep
  BY <1>6, RecvControlled, EventControlled, SentControlled DEF ReceiverStep
<1>7. CASE Obey
  BY <1>7, ObeyControlled
<1>8. CASE Tell
  BY <1>8, TellControlled
<1>9. CASE Lose
  BY <1>9, LoseControlled
<1>10. CASE UNCHANGED vars
  BY <1>10, StutterControlled
<1>. QED BY <1>1, <1>2, <1>3, <1>4, <1>5, <1>6, <1>7, <1>8, <1>9, <1>10 DEF Next

\* Every variable stays in its type, and the receiver thread is there while its port is open,
\* whatever is called, lost or told.
THEOREM TypeCorrect == Spec => []TypeOK
<1>. USE GainerAssumption
<1>1. Init => Types /\ Control
  BY InitiallyControlled
<1>2. Types /\ Control /\ [Next]_vars => Types' /\ Control'
  BY StepControlled
<1>3. Types /\ Control => TypeOK
  BY ControlledTypeOK
<1>. QED BY <1>1, <1>2, <1>3, PTL DEF Spec

-----------------------------------------------------------------------------
(* The commands on their way to the board. *)

Streamers == {"r", "i", "a"}

\* Commands that are not replied to, or whose reply is not queued.
Streaming(s) == \A i \in DOMAIN s : s[i][1] \in Streamers

\* Those, and cmd after them.
EndsWith(s, cmd) ==
  s # <<>> /\ s[Len(s)] = cmd /\ \A i \in DOMAIN s : i # Len(s) => s[i][1] \in Streamers

\* The board, in the configuration c, has each of the commands when it comes to it.
Legal(s, c) ==
  \A i \in DOMAIN s :
    \/ s[i][1] \in {"Q", "?"}
    \/ s[i][1] = "K" /\ i = 1 /\ c = 0
    \/ Fits(s[i], c) /\ \A j \in DOMAIN s : j < i => s[j][1] # "Q"

\* What a command makes of the configuration.
After(cmd, c) == IF cmd[1] = "Q" THEN 0 ELSE IF cmd[1] = "K" /\ c = 0 THEN cmd[2] ELSE c

LEMMA NothingToObey == \A c : Streaming(<<>>) /\ Legal(<<>>, c)
BY DEF Streaming, Legal

LEMMA AppendCommand ==
  ASSUME NEW s \in Seq(Wire), NEW e \in Wire, NEW c
  PROVE  /\ Streaming(s) /\ e[1] \in Streamers => Streaming(Append(s, e))
         /\ Streaming(s) => EndsWith(Append(s, e), e)
         /\ Legal(s, c) /\ e[1] \in {"Q", "?"} => Legal(Append(s, e), c)
         /\ s = <<>> /\ e[1] = "K" /\ c = 0 => Legal(Append(s, e), c)
         /\ Legal(s, c) /\ Streaming(s) /\ Fits(e, c) => Legal(Append(s, e), c)
<1> DEFINE t == Append(s, e)
<1>1. /\ DOMAIN s = 1 .. Len(s) /\ Len(s) \in Nat /\ DOMAIN t = 1 .. Len(s) + 1
      /\ t[Len(s) + 1] = e /\ \A i \in DOMAIN s : t[i] = s[i]
      /\ Len(t) = Len(s) + 1 /\ t \in Seq(Wire)
  BY AppendProperties, LenProperties
<1>2. t # <<>> /\ (s = <<>> => Len(s) = 0)
  BY <1>1, EmptySeq
<1> HIDE DEF t
<1>3. Streaming(s) /\ e[1] \in Streamers => Streaming(t)
  BY <1>1 DEF Streaming
<1>4. Streaming(s) => EndsWith(t, e)
  BY <1>1, <1>2 DEF Streaming, EndsWith
<1>5. \A i, j \in DOMAIN t : j < i => j \in DOMAIN s
  BY <1>1
<1>6. ASSUME Legal(s, c), NEW i \in DOMAIN s
      PROVE  \/ t[i][1] \in {"Q", "?"}
             \/ t[i][1] = "K" /\ i = 1 /\ c = 0
             \/ Fits(t[i], c) /\ \A j \in DOMAIN t : j < i => t[j][1] # "Q"
  <2>1. t[i] = s[i] /\ \A j \in DOMAIN t : j < i => j \in DOMAIN s /\ t[j] = s[j]
    BY <1>1
  <2>. QED BY <1>6, <2>1 DEF Legal
<1>7. \A i \in DOMAIN t : i \in DOMAIN s \/ i = Len(s) + 1
  BY <1>1
<1>8. Legal(s, c) /\ e[1] \in {"Q", "?"} => Legal(t, c)
  BY <1>1, <1>6, <1>7 DEF Legal
<1>9. ASSUME s = <<>>, e[1] = "K", c = 0 PROVE Legal(t, c)
  <2>1. \A i \in DOMAIN t : i = 1 /\ t[i] = e
    BY <1>1, <1>2, <1>9
  <2>. QED BY <1>9, <2>1 DEF Legal
<1>10. ASSUME Legal(s, c), Streaming(s), Fits(e, c) PROVE Legal(t, c)
  <2>1. \A j \in DOMAIN t : j < Len(s) + 1 => t[j][1] # "Q"
    BY <1>1, <1>10 DEF Streaming, Streamers
  <2>. QED BY <1>1, <1>6, <1>7, <1>10, <2>1 DEF Legal
<1>. QED BY <1>3, <1>4, <1>8, <1>9, <1>10 DEF t

LEMMA TailCommands ==
  ASSUME NEW s \in Seq(Wire), s # <<>>, NEW c, NEW cmd
  PROVE  /\ Head(s) \in Wire
         /\ Streaming(s) => Head(s)[1] \in Streamers /\ Streaming(Tail(s))
         /\ EndsWith(s, cmd) => \/ Head(s) = cmd /\ Tail(s) = <<>>
                                \/ Head(s)[1] \in Streamers /\ EndsWith(Tail(s), cmd)
         /\ Legal(s, c) => /\ \/ Head(s)[1] \in {"Q", "?"}
                              \/ Head(s)[1] = "K" /\ c = 0
                              \/ Fits(Head(s), c)
                           /\ Legal(Tail(s), After(Head(s), c))
         /\ Legal(s, 0) => ~Streaming(s)
<1> DEFINE t == Tail(s)
           h == Head(s)
<1>1. /\ DOMAIN s = 1 .. Len(s) /\ Len(s) \in Nat \ {0} /\ DOMAIN t = 1 .. Len(s) - 1
      /\ h = s[1] /\ \A i \in DOMAIN t : t[i] = s[i + 1]
      /\ h \in Wire /\ t \in Seq(Wire) /\ Len(t) = Len(s) - 1
  BY HeadTailProperties, LenProperties, EmptySeq
<1>2. t = <<>> <=> Len(s) = 1
  <2> HIDE DEF t
  <2>1. t = <<>> <=> Len(t) = 0
    BY <1>1, EmptySeq
  <2>2. Len(t) = 0 <=> Len(s) = 1
    BY <1>1
  <2>. QED BY <2>1, <2>2
<1> HIDE DEF t, h
<1>3. Streaming(s) => h[1] \in Streamers /\ Streaming(t)
  BY <1>1 DEF Streaming
<1>4. ASSUME EndsWith(s, cmd)
      PROVE  (h = cmd /\ t = <<>>) \/ (h[1] \in Streamers /\ EndsWith(t, cmd))
  <2>1. CASE Len(s) = 1
    BY <1>1, <1>2, <1>4, <2>1 DEF EndsWith
  <2>2. CASE Len(s) # 1
    <3>1. h[1] \in Streamers
      BY <1>1, <1>4, <2>2 DEF EndsWith
    <3>2. t # <<>> /\ Len(t) \in DOMAIN t /\ Len(t) + 1 = Len(s)
      BY <1>1, <1>2, <2>2
    <3>3. t[Len(t)] = cmd
      BY <1>1, <1>4, <3>2 DEF EndsWith
    <3>4. \A i \in DOMAIN t : i # Len(t) => t[i][1] \in Streamers
      <4>1. ASSUME NEW i \in DOMAIN t, i # Len(t)
            PROVE  i + 1 \in DOMAIN s /\ i + 1 # Len(s) /\ t[i] = s[i + 1]
        BY <1>1, <4>1
      <4>. QED BY <1>4, <4>1 DEF EndsWith
    <3>. QED BY <3>1, <3>2, <3>3, <3>4 DEF EndsWith
  <2>. QED BY <2>1, <2>2
<1>5. ASSUME Legal(s, c)
      PROVE  /\ h[1] \in {"Q", "?"} \/ (h[1] = "K" /\ c = 0) \/ Fits(h, c)
             /\ Legal(t, After(h, c))
  <2>0. 1 \in DOMAIN s
    BY <1>1
  <2>1. h[1] \in {"Q", "?"} \/ (h[1] = "K" /\ c = 0) \/ Fits(h, c)
    BY <1>1, <1>5, <2>0 DEF Legal
  <2>2. ASSUME NEW i \in DOMAIN t
        PROVE  \/ t[i][1] \in {"Q", "?"}
               \/ Fits(t[i], After(h, c)) /\ \A j \in DOMAIN t : j < i => t[j][1] # "Q"
    <3>1. /\ i + 1 \in DOMAIN s /\ i + 1 # 1 /\ t[i] = s[i + 1] /\ 1 < i + 1
          /\ \A j \in DOMAIN t : j < i => j + 1 \in DOMAIN s /\ j + 1 < i + 1 /\ t[j] = s[j + 1]
      BY <1>1
    <3>2. CASE s[i + 1][1] \in {"Q", "?"}
      BY <3>1, <3>2
    <3>3. CASE Fits(s[i + 1], c) /\ \A j \in DOMAIN s : j < i + 1 => s[j][1] # "Q"
      <4>1. h[1] # "Q" /\ c # 0
        BY <1>1, <2>0, <3>1, <3>3 DEF Fits
      <4>2. After(h, c) = c
        BY <4>1 DEF After
      <4>. QED BY <3>1, <3>3, <4>2
    <3>. QED BY <1>5, <3>1, <3>2, <3>3 DEF Legal
  <2>. QED BY <2>1, <2>2 DEF Legal
<1>6. ASSUME Legal(s, 0), Streaming(s) PROVE FALSE
  <2>1. 1 \in DOMAIN s
    BY <1>1
  <2>. QED BY <1>6, <2>1 DEF Legal, Streaming, Streamers, Fits
<1>. QED BY <1>1, <1>3, <1>4, <1>5, <1>6 DEF t, h

\* The board refuses none of them, and its reply is the command's own.
LEMMA NotRefused ==
  ASSUME NEW cmd \in Wire,
         \/ cmd[1] \in {"Q", "?"}
         \/ cmd[1] = "K" /\ config = 0
         \/ Fits(cmd, config)
  PROVE  /\ ~Refuses(cmd)
         /\ Reply(cmd) = IF cmd[1] = "s" /\ config = MATRIX THEN {"a", "!"}
                         ELSE IF cmd[1] = "s" THEN {"a"} ELSE {cmd[1]}
<1>1. ~Refuses(cmd)
  BY DEF Refuses, Fits
<1>. QED BY <1>1 DEF Reply

-----------------------------------------------------------------------------
(* While nothing is lost and nothing strays: what is on its way both ways.  *)

Calm == ~strayed /\ ~lost

\* The replies that a command that is waited for may have.
Own(x) == CASE x = "wait" -> {"Q"} [] x = "s" -> {"a", "!"} [] OTHER -> {x}

\* What the host waits for, or will when the receiver thread has started.
Awaited ==
  IF waiting THEN Head(script)[1]
  ELSE IF script # <<>> /\ Head(script)[1] \in {"start", "wait"} THEN "wait" ELSE "none"

\* Nothing is asked, and the plugin knows the configuration.
IdleLine == Streaming(toBoard) /\ IF script = O1 THEN toBoard = <<>> ELSE m_config = config

\* The command is on its way to the board.
AskedLine(x) ==
  CASE x = "wait" -> toBoard = <<<<"Q">>>>
    [] x = "K" -> toBoard = <<Head(script)>> /\ config = 0 /\ m_config = Head(script)[2]
    [] OTHER -> EndsWith(toBoard, Head(script)) /\ m_config = config

\* The board has carried it out.
ToldLine(x) == toBoard = <<>> /\ IF x \in {"wait", "Q"} THEN config = 0 ELSE m_config = config

HushedNow == Hushed(m_receive_queue, batch, fromBoard, m_config)
AnsweringNow(x) == Answering(m_receive_queue, batch, fromBoard, Own(x), m_config)

Idle     == IdleLine /\ HushedNow
Asked(x) == AskedLine(x) /\ HushedNow
Told(x)  == ToldLine(x) /\ (HushedNow \/ AnsweringNow(x))

Pipeline ==
  host = "ready" /\ ~m_endFlag =>
    IF Awaited = "none" THEN Idle ELSE Asked(Awaited) \/ Told(Awaited)

Answers == answered = NoReply \/ answered[2] \in Own(answered[1])

InOrder == host # "leaked" /\ Legal(toBoard, config) /\ ~refused /\ Pipeline /\ Answers

CalmInv == Calm => InOrder

LEMMA AwaitedWhat ==
  ASSUME Types, Control
  PROVE  /\ Awaited \in Waited \cup {"wait", "none"}
         /\ Own(Awaited) \cap Reports = {}
         /\ waiting => Awaited # "none" /\ Awaited # "wait"
<1>1. waiting => Head(script)[1] \in Waited
  BY DEF Control
<1>2. Awaited \in Waited \cup {"wait", "none"} /\ (waiting => Awaited \in Waited)
  BY <1>1 DEF Awaited
<1>3. Own(Awaited) \cap Reports = {}
  BY <1>2 DEF Own, Reports, Waited
<1>. QED BY <1>2, <1>3 DEF Waited

\* A step of the receiver thread or of the line keeps the order if it keeps what is on its way.
LEMMA Passing ==
  ASSUME Types, Control, Pipeline, UNCHANGED <<hosting, toBoard, config>>,
         host = "ready" /\ ~m_endFlag /\ HushedNow => HushedNow',
         \A x \in Waited \cup {"wait"} :
           host = "ready" /\ ~m_endFlag /\ AnsweringNow(x) => HushedNow' \/ AnsweringNow(x)'
  PROVE  Pipeline'
<1>1. /\ host' = host /\ script' = script /\ waiting' = waiting /\ m_config' = m_config
      /\ m_endFlag' = m_endFlag /\ toBoard' = toBoard /\ config' = config
  BY DEF hosting
<1>2. Awaited' = Awaited /\ IdleLine' = IdleLine
  BY <1>1 DEF Awaited, IdleLine
<1>3. \A x : AskedLine(x)' = AskedLine(x) /\ ToldLine(x)' = ToldLine(x)
  BY <1>1 DEF AskedLine, ToldLine
<1>. SUFFICES ASSUME host = "ready", ~m_endFlag
              PROVE  IF Awaited' = "none" THEN Idle' ELSE Asked(Awaited)' \/ Told(Awaited)'
  BY <1>1 DEF Pipeline
<1>4. CASE Awaited = "none"
  <2>1. Idle
    BY <1>4 DEF Pipeline
  <2>. QED BY <1>2, <1>4, <2>1 DEF Idle
<1>5. CASE Awaited # "none"
  <2> DEFINE x == Awaited
  <2>1. x \in Waited \cup {"wait"}
    BY <1>5, AwaitedWhat
  <2>2. Asked(x) \/ Told(x)
    BY <1>5 DEF Pipeline
  <2>3. AnsweringNow(x)' = AnsweringNow(Awaited)'
    OBVIOUS
  <2>4. Asked(x) => Asked(Awaited)'
    BY <1>2, <1>3 DEF Asked
  <2>5. Told(x) => Told(Awaited)'
    BY <1>2, <1>3, <2>1 DEF Told
  <2>. QED BY <1>2, <1>5, <2>2, <2>4, <2>5
<1>. QED BY <1>4, <1>5

LEMMA RecvInOrder ==
  ASSUME GainerAssumption, Types, Control, CalmInv, Recv
  PROVE  CalmInv'
<1>. SUFFICES ASSUME Calm' PROVE InOrder'
  BY DEF CalmInv
<1>1. PICK n \in 1 .. Len(fromBoard) :
        /\ batch' = Batch(SubSeq(fromBoard, 1, n))
        /\ fromBoard' = SubSeq(fromBoard, n + 1, Len(fromBoard))
        /\ strayed' = strayed /\ lost' = lost
  BY RecvTaken DEF Calm
<1>2. /\ batch = <<>>
      /\ UNCHANGED <<hosting, m_receive_queue, toBoard, board, answered, scanned, refused>>
  BY RecvTaken
<1>3. InOrder
  BY <1>1 DEF CalmInv, Calm
<1>4. fromBoard \in Seq(Letter) /\ m_config' = m_config
  BY <1>2 DEF Types, BoardTypes, hosting
<1>5. {} \cap Reports = {}
  OBVIOUS
<1>6. HushedNow => HushedNow'
  <2>1. Hushed(m_receive_queue, <<>>, fromBoard, m_config)
          => Hushed(m_receive_queue, batch', fromBoard', m_config)
    BY <1>1, <1>4, <1>5, Taken
  <2>. QED BY <1>2, <1>4, <2>1 DEF HushedNow
<1>7. ASSUME NEW x \in Waited \cup {"wait"}
      PROVE  AnsweringNow(x) => AnsweringNow(x)'
  <2>1. Own(x) \cap Reports = {}
    BY DEF Own, Reports, Waited
  <2>2. Answering(m_receive_queue, <<>>, fromBoard, Own(x), m_config)
          => Answering(m_receive_queue, batch', fromBoard', Own(x), m_config)
    BY <1>1, <1>4, <2>1, Taken
  <2>. QED BY <1>2, <1>4, <2>2 DEF AnsweringNow
<1>8. Pipeline'
  BY <1>2, <1>3, <1>6, <1>7, Passing DEF InOrder, board
<1>9. host' # "leaked" /\ Legal(toBoard', config') /\ ~refused' /\ Answers'
  BY <1>2, <1>3 DEF InOrder, hosting, board, Answers
<1>. QED BY <1>8, <1>9 DEF InOrder

LEMMA EventInOrder ==
  ASSUME GainerAssumption, Types, Control, CalmInv, processEvent
  PROVE  CalmInv'
<1>. SUFFICES ASSUME Calm' PROVE InOrder'
  BY DEF CalmInv
<1>1. /\ batch # <<>> /\ batch' = Tail(batch)
      /\ m_receive_queue' = IF Queues(Head(batch)) THEN Append(m_receive_queue, Head(batch))
                            ELSE m_receive_queue
      /\ UNCHANGED <<hosting, line, board, history>>
  BY DEF processEvent
<1>2. InOrder
  BY <1>1 DEF CalmInv, Calm, history
<1>3. /\ batch \in Seq(Letter) /\ fromBoard \in Seq(Letter)
      /\ m_config' = m_config /\ fromBoard' = fromBoard /\ toBoard' = toBoard /\ config' = config
  BY <1>1 DEF Types, ReceiverTypes, BoardTypes, hosting, line, board
<1>4. m_receive_queue' = IF Loud(Head(batch), m_config) THEN Append(m_receive_queue, Head(batch))
                         ELSE m_receive_queue
  BY <1>1, QueuesLoud
<1>5. HushedNow => HushedNow'
  <2>1. Hushed(m_receive_queue, batch, fromBoard, m_config)
          => Hushed(m_receive_queue', Tail(batch), fromBoard, m_config)
    BY <1>1, <1>3, <1>4, Processed
  <2>. QED BY <1>1, <1>3, <2>1 DEF HushedNow
<1>6. ASSUME NEW x \in Waited \cup {"wait"}
      PROVE  AnsweringNow(x) => HushedNow' \/ AnsweringNow(x)'
  <2>1. Answering(m_receive_queue, batch, fromBoard, Own(x), m_config)
          => \/ Hushed(m_receive_queue', Tail(batch), fromBoard, m_config)
             \/ Answering(m_receive_queue', Tail(batch), fromBoard, Own(x), m_config)
    BY <1>1, <1>3, <1>4, Processed
  <2>. QED BY <1>1, <1>3, <2>1 DEF HushedNow, AnsweringNow
<1>7. Pipeline'
  BY <1>1, <1>2, <1>3, <1>5, <1>6, Passing DEF InOrder
<1>8. host' # "leaked" /\ Legal(toBoard', config') /\ ~refused' /\ Answers'
  BY <1>1, <1>2, <1>3 DEF InOrder, hosting, history, Answers
<1>. QED BY <1>7, <1>8 DEF InOrder

LEMMA TellInOrder ==
  ASSUME GainerAssumption, Types, Control, CalmInv, Tell
  PROVE  CalmInv'
<1>. SUFFICES ASSUME Calm' PROVE InOrder'
  BY DEF CalmInv
<1>1. PICK e \in {"N", "F"} \cup streams : fromBoard' = Append(fromBoard, e)
  BY DEF Tell
<1>2. UNCHANGED <<hosting, reading, toBoard, board, history>>
  BY DEF Tell
<1>3. InOrder
  BY <1>2 DEF CalmInv, Calm, history
<1>4. /\ batch \in Seq(Letter) /\ fromBoard \in Seq(Letter) /\ m_config' = m_config
      /\ batch' = batch /\ m_receive_queue' = m_receive_queue /\ config' = config
  BY <1>2 DEF Types, ReceiverTypes, BoardTypes, hosting, reading, board
<1>5. e \in Letter /\ e \in Quiet /\ ~Loud(e, m_config)
  BY DEF Types, BoardTypes, Reports, Letter, Quiet, Loud
<1>6. HushedNow => HushedNow'
  <2>1. Hushed(m_receive_queue, batch, fromBoard, m_config)
          => Hushed(m_receive_queue, batch, fromBoard', m_config)
    BY <1>1, <1>4, <1>5, OnItsWay
  <2>. QED BY <1>4, <2>1 DEF HushedNow
<1>7. ASSUME NEW x \in Waited \cup {"wait"}
      PROVE  AnsweringNow(x) => AnsweringNow(x)'
  <2>1. Answering(m_receive_queue, batch, fromBoard, Own(x), m_config)
          => Answering(m_receive_queue, batch, fromBoard', Own(x), m_config)
    BY <1>1, <1>4, <1>5, OnItsWay
  <2>. QED BY <1>4, <2>1 DEF AnsweringNow
<1>8. Pipeline'
  BY <1>2, <1>3, <1>4, <1>6, <1>7, Passing DEF InOrder
<1>9. host' # "leaked" /\ Legal(toBoard', config') /\ ~refused' /\ Answers'
  BY <1>2, <1>3, <1>4 DEF InOrder, hosting, history, Answers
<1>. QED BY <1>8, <1>9 DEF InOrder

\* The steps that touch neither the line nor what the receiver thread has read.
LEMMA StillInOrder ==
  ASSUME Types, Control, CalmInv,
         UNCHANGED <<hosting, batch, m_receive_queue, line, board, history>>
  PROVE  CalmInv'
<1>. SUFFICES ASSUME Calm' PROVE InOrder'
  BY DEF CalmInv
<1>1. InOrder
  BY DEF CalmInv, Calm, history
<1>2. HushedNow' = HushedNow /\ \A x : AnsweringNow(x)' = AnsweringNow(x)
  BY DEF HushedNow, AnsweringNow, hosting, line
<1>3. Pipeline'
  BY <1>1, <1>2, Passing DEF InOrder, line, board
<1>4. host' # "leaked" /\ Legal(toBoard', config') /\ ~refused' /\ Answers'
  BY <1>1 DEF InOrder, hosting, line, board, history, Answers
<1>. QED BY <1>3, <1>4 DEF InOrder

LEMMA LoseInOrder ==
  ASSUME Lose
  PROVE  CalmInv'
BY DEF Lose, CalmInv, Calm

\* The board carries out a command in order.
LEMMA ObeyKnown ==
  ASSUME Types, Obey, Legal(toBoard, config), NEW cmd, cmd = Head(toBoard)
  PROVE  /\ toBoard # <<>> /\ toBoard' = Tail(toBoard) /\ cmd \in Wire /\ toBoard \in Seq(Wire)
         /\ cmd[1] \in {"Q", "?"} \/ (cmd[1] = "K" /\ config = 0) \/ Fits(cmd, config)
         /\ ~Refuses(cmd) /\ refused' = refused
         /\ config' = After(cmd, config) /\ Legal(toBoard', config')
         /\ host # "none" =>
              IF cmd[1] \in Reports THEN fromBoard' = fromBoard
              ELSE \E r \in Reply(cmd) : fromBoard' = Append(fromBoard, r)
         /\ UNCHANGED <<hosting, reading, answered, scanned, strayed, lost>>
<1>1. /\ toBoard # <<>> /\ toBoard' = Tail(toBoard)
      /\ UNCHANGED <<hosting, reading, answered, scanned, strayed, lost>>
  BY DEF Obey
<1>2. toBoard \in Seq(Wire) /\ cmd \in Wire
  BY <1>1, TailCommands DEF Types, BoardTypes
<1>3. cmd[1] \in {"Q", "?"} \/ (cmd[1] = "K" /\ config = 0) \/ Fits(cmd, config)
  BY <1>1, <1>2, TailCommands
<1>4. ~Refuses(cmd)
  BY <1>2, <1>3, NotRefused
<1>5. refused' = refused
  BY <1>4 DEF Obey, Types, HistoryTypes
<1>6. config' = After(cmd, config)
  BY DEF Obey, After
<1>7. Legal(toBoard', config')
  BY <1>1, <1>2, <1>6, TailCommands
<1>8. host # "none" =>
        IF cmd[1] \in Reports THEN fromBoard' = fromBoard
        ELSE \E r \in Reply(cmd) : fromBoard' = Append(fromBoard, r)
  BY <1>4 DEF Obey, Closed
<1>. QED BY <1>1, <1>2, <1>3, <1>4, <1>5, <1>6, <1>7, <1>8

LEMMA StreamObeyed ==
  ASSUME Types, Obey, Legal(toBoard, config), host # "none", m_config = config, HushedNow,
         Head(toBoard)[1] \in Streamers
  PROVE  config' = config /\ HushedNow'
<1> DEFINE cmd == Head(toBoard)
<1>1. /\ cmd \in Wire /\ Fits(cmd, config) /\ config' = After(cmd, config)
      /\ IF cmd[1] \in Reports THEN fromBoard' = fromBoard
         ELSE \E r \in Reply(cmd) : fromBoard' = Append(fromBoard, r)
      /\ UNCHANGED <<hosting, reading>>
  BY ObeyKnown DEF Streamers
<1> HIDE DEF cmd
<1>2. cmd[1] \in Streamers
  BY DEF cmd
<1>3. config' = config
  BY <1>1, <1>2 DEF After, Streamers
<1>4. CASE cmd[1] \in Reports
  <2>1. fromBoard' = fromBoard
    BY <1>1, <1>4
  <2>2. m_receive_queue' = m_receive_queue /\ batch' = batch /\ m_config' = m_config
    BY <1>1 DEF hosting, reading
  <2>. QED BY <1>3, <2>1, <2>2 DEF HushedNow
<1>5. CASE cmd[1] \notin Reports
  <2>1. cmd[1] = "a" /\ m_config = MATRIX
    BY <1>1, <1>2, <1>5 DEF Streamers, Reports, Fits
  <2>2. Reply(cmd) = {"a"}
    BY <1>1, <2>1, NotRefused
  <2>3. fromBoard' = Append(fromBoard, "a")
    BY <1>1, <1>5, <2>2
  <2>4. "a" \in Letter /\ ~Loud("a", m_config)
    BY <2>1 DEF Letter, Loud
  <2>5. Hushed(m_receive_queue, batch, fromBoard', m_config)
    BY <2>3, <2>4, OnItsWay DEF HushedNow, Types, ReceiverTypes, BoardTypes
  <2>. QED BY <1>1, <1>3, <2>5 DEF HushedNow, hosting, reading
<1>. QED BY <1>3, <1>4, <1>5

LEMMA ReplyObeyed ==
  ASSUME Types, Obey, Legal(toBoard, config), host # "none", HushedNow,
         NEW x \in Waited \cup {"wait"}, x = Head(toBoard)[1] \/ (x = "wait" /\ Head(toBoard)[1] = "Q")
  PROVE  AnsweringNow(x)'
<1> DEFINE cmd == Head(toBoard)
<1>1. /\ cmd \in Wire
      /\ cmd[1] \in {"Q", "?"} \/ (cmd[1] = "K" /\ config = 0) \/ Fits(cmd, config)
      /\ IF cmd[1] \in Reports THEN fromBoard' = fromBoard
         ELSE \E r \in Reply(cmd) : fromBoard' = Append(fromBoard, r)
      /\ UNCHANGED <<hosting, reading>>
  BY ObeyKnown
<1> HIDE DEF cmd
<1>2. x = cmd[1] \/ (x = "wait" /\ cmd[1] = "Q")
  BY DEF cmd
<1>3. cmd[1] \notin Reports /\ cmd[1] # "wait"
  BY <1>1, <1>2, WireLetters DEF Reports, Waited
<1>4. PICK r \in Reply(cmd) : fromBoard' = Append(fromBoard, r)
  BY <1>1, <1>3
<1>5. r \in Own(x)
  <2>1. Reply(cmd) = IF cmd[1] = "s" /\ config = MATRIX THEN {"a", "!"}
                     ELSE IF cmd[1] = "s" THEN {"a"} ELSE {cmd[1]}
    BY <1>1, NotRefused
  <2>2. CASE cmd[1] = "s"
    BY <1>2, <1>4, <2>1, <2>2 DEF Own
  <2>3. CASE cmd[1] # "s"
    BY <1>2, <1>3, <1>4, <2>1, <2>3 DEF Own
  <2>. QED BY <2>2, <2>3
<1>6. r \in Letter
  BY <1>1, <1>4, WireLetters
<1>7. Answering(m_receive_queue, batch, fromBoard', Own(x), m_config)
  BY <1>4, <1>5, <1>6, OnItsWay DEF HushedNow, Types, ReceiverTypes, BoardTypes
<1>. QED BY <1>1, <1>7 DEF AnsweringNow, hosting, reading

LEMMA ObeyInOrder ==
  ASSUME GainerAssumption, Types, Control, CalmInv, Obey
  PROVE  CalmInv'
<1>. SUFFICES ASSUME Calm' PROVE InOrder'
  BY DEF CalmInv
<1> DEFINE cmd == Head(toBoard)
<1>1. InOrder
  BY DEF CalmInv, Calm, Obey
<1>2. /\ toBoard # <<>> /\ toBoard' = Tail(toBoard) /\ cmd \in Wire /\ toBoard \in Seq(Wire)
      /\ refused' = refused /\ config' = After(cmd, config) /\ Legal(toBoard', config')
      /\ UNCHANGED <<hosting, reading, answered, scanned, strayed, lost>>
  BY <1>1, ObeyKnown DEF InOrder
<1> HIDE DEF cmd
<1>3. /\ host' = host /\ script' = script /\ waiting' = waiting /\ m_config' = m_config
      /\ m_endFlag' = m_endFlag /\ Awaited' = Awaited
  BY <1>2 DEF hosting, Awaited
<1>4. host' # "leaked" /\ ~refused' /\ Answers'
  BY <1>1, <1>2, <1>3 DEF InOrder, Answers
<1>5. ASSUME host = "ready", ~m_endFlag
      PROVE  IF Awaited' = "none" THEN Idle' ELSE Asked(Awaited)' \/ Told(Awaited)'
  <2> DEFINE x == Awaited
  <2>0. x \in Waited \cup {"wait", "none"} /\ (waiting => x = Head(script)[1])
        /\ (x \notin {"wait", "none"} => waiting)
    BY AwaitedWhat DEF Awaited
  <2>1. CASE x = "none"
    <3>1. Streaming(toBoard) /\ HushedNow /\ script # O1 /\ m_config = config
      BY <1>1, <1>2, <1>5, <2>1 DEF InOrder, Pipeline, Idle, IdleLine
    <3>2. cmd[1] \in Streamers /\ Streaming(toBoard')
      BY <1>2, <3>1, TailCommands DEF cmd
    <3>3. config' = config /\ HushedNow'
      BY <1>1, <1>5, <3>1, <3>2, StreamObeyed DEF InOrder, cmd
    <3>4. Idle'
      BY <1>3, <3>1, <3>2, <3>3 DEF Idle, IdleLine
    <3>. QED BY <1>3, <2>1, <3>4
  <2>2. CASE x # "none"
    <3>1. Asked(x)
      BY <1>1, <1>2, <1>5, <2>2 DEF InOrder, Pipeline, Told, ToldLine
    <3>2. HushedNow /\ AskedLine(x) /\ Legal(toBoard, config)
      BY <1>1, <3>1 DEF Asked, InOrder
    <3>3. CASE x = "wait"
      <4>1. toBoard = <<<<"Q">>>>
        BY <3>2, <3>3 DEF AskedLine
      <4>2. cmd[1] = "Q" /\ toBoard' = <<>>
        BY <1>2, <4>1 DEF cmd
      <4>3. AnsweringNow(x)'
        BY <1>5, <3>2, <3>3, <4>2, ReplyObeyed, <1>3 DEF cmd
      <4>4. config' = 0
        BY <1>2, <4>2 DEF After
      <4>5. Told(Awaited)'
        BY <1>3, <3>3, <4>2, <4>3, <4>4 DEF Told, ToldLine
      <4>. QED BY <1>3, <2>2, <4>5
    <3>4. CASE x = "K"
      <4>1. toBoard = <<Head(script)>> /\ config = 0 /\ m_config = Head(script)[2]
        BY <3>2, <3>4 DEF AskedLine
      <4>2. cmd = Head(script) /\ cmd[1] = x /\ toBoard' = <<>>
        BY <1>2, <2>0, <3>4, <4>1 DEF cmd
      <4>3. AnsweringNow(x)'
        BY <1>3, <1>5, <2>0, <3>2, <3>4, <4>2, ReplyObeyed DEF cmd
      <4>4. config' = m_config
        BY <1>2, <3>4, <4>1, <4>2 DEF After
      <4>5. Told(Awaited)'
        BY <1>3, <3>4, <4>2, <4>3, <4>4 DEF Told, ToldLine
      <4>. QED BY <1>3, <2>2, <4>5
    <3>5. CASE x \notin {"wait", "K"}
      <4>1. EndsWith(toBoard, Head(script)) /\ m_config = config /\ Head(script)[1] = x /\ x \in Waited
        BY <2>0, <2>2, <3>2, <3>5 DEF AskedLine
      <4>2. CASE cmd = Head(script) /\ toBoard' = <<>>
        <5>1. AnsweringNow(x)'
          BY <1>3, <1>5, <3>2, <4>1, <4>2, ReplyObeyed DEF cmd
        <5>2. IF x = "Q" THEN config' = 0 ELSE config' = config
          BY <1>2, <3>5, <4>1, <4>2 DEF After
        <5>3. Told(Awaited)'
          BY <1>3, <3>5, <4>1, <4>2, <5>1, <5>2 DEF Told, ToldLine
        <5>. QED BY <1>3, <2>2, <5>3
      <4>3. CASE cmd[1] \in Streamers /\ EndsWith(toBoard', Head(script))
        <5>1. config' = config /\ HushedNow'
          BY <1>5, <3>2, <4>1, <4>3, StreamObeyed DEF cmd
        <5>2. Asked(Awaited)'
          BY <1>3, <3>5, <4>1, <4>3, <5>1 DEF Asked, AskedLine
        <5>. QED BY <1>3, <2>2, <5>2
      <4>. QED BY <1>2, <4>1, <4>2, <4>3, TailCommands DEF cmd
    <3>. QED BY <3>3, <3>4, <3>5
  <2>. QED BY <2>1, <2>2
<1>6. Pipeline'
  BY <1>3, <1>5 DEF Pipeline
<1>. QED BY <1>2, <1>4, <1>6 DEF InOrder

\* The calls.
LEMMA SameInOrder ==
  ASSUME CalmInv, UNCHANGED <<host, script, waiting, m_config, m_endFlag, reading, line, board, history>>
  PROVE  CalmInv'
<1>1. /\ Calm' = Calm /\ Answers' = Answers
      /\ Awaited' = Awaited /\ IdleLine' = IdleLine /\ HushedNow' = HushedNow
  BY DEF Calm, Answers, Awaited, IdleLine, HushedNow, reading, line, board, history
<1>2. \A x : /\ AskedLine(x)' = AskedLine(x) /\ ToldLine(x)' = ToldLine(x)
             /\ AnsweringNow(x)' = AnsweringNow(x)
  BY DEF AskedLine, ToldLine, AnsweringNow, reading, line, board
<1>3. Pipeline' = Pipeline
  <2>1. Idle' = Idle /\ Asked(Awaited)' = Asked(Awaited) /\ Told(Awaited)' = Told(Awaited)
    BY <1>1, <1>2 DEF Idle, Asked, Told
  <2>. QED BY <1>1, <2>1 DEF Pipeline
<1>. QED BY <1>1, <1>3 DEF CalmInv, InOrder, line, board, history

LEMMA OpenInOrder ==
  ASSUME GainerAssumption, Types, Control, CalmInv, Open
  PROVE  CalmInv'
<1>. SUFFICES ASSUME Calm' PROVE InOrder'
  BY DEF CalmInv
<1>1. /\ host' = "ready" /\ script' = O1 /\ toBoard = <<>> /\ ~strayed /\ lost' = lost
      /\ UNCHANGED <<waiting, reading, line, board, answered, refused>>
  BY DEF Open, Calm, O1
<1>2. InOrder /\ OfNone /\ ~waiting
  BY <1>1 DEF CalmInv, Calm, Control, OfNone, Open
<1>3. O1 # <<>> /\ Head(O1)[1] = "Qn"
  BY ScriptHeads
<1>4. Awaited' = "none"
  BY <1>1, <1>2, <1>3 DEF Awaited
<1>5. IdleLine'
  BY <1>1, NothingToObey DEF IdleLine, line
<1>6. HushedNow'
  <2>1. m_receive_queue' = <<>> /\ batch' = <<>> /\ fromBoard' = <<>>
    BY <1>1, <1>2 DEF OfNone, Unheard, reading, line
  <2>2. \A c : Silent(<<>>, c)
    BY EmptyStill, StillSilent
  <2>. QED BY <2>1, <2>2 DEF HushedNow, Hushed
<1>7. Pipeline'
  BY <1>4, <1>5, <1>6 DEF Pipeline, Idle
<1>8. Legal(toBoard', config') /\ ~refused' /\ Answers' /\ host' # "leaked"
  BY <1>1, <1>2 DEF InOrder, Answers, line, board
<1>. QED BY <1>7, <1>8 DEF InOrder

LEMMA SearchInOrder ==
  ASSUME GainerAssumption, Types, Control, CalmInv, Search
  PROVE  CalmInv'
<1>. SUFFICES ASSUME Calm' PROVE InOrder'
  BY DEF CalmInv
<1>1. host' = "search" /\ toBoard' = Append(toBoard, <<"?">>) /\ UNCHANGED <<board, history>>
  BY DEF Search
<1>2. InOrder
  BY <1>1 DEF CalmInv, Calm, history
<1>3. <<"?">> \in Wire /\ <<"?">>[1] \in {"Q", "?"} /\ toBoard \in Seq(Wire)
  BY DEF Wire, Command, Waited, Types, BoardTypes
<1>4. Legal(toBoard', config)
  BY <1>1, <1>2, <1>3, AppendCommand DEF InOrder
<1>5. Pipeline'
  BY <1>1 DEF Pipeline
<1>. QED BY <1>1, <1>2, <1>4, <1>5 DEF InOrder, Answers, board, history

LEMMA WorkAwaits ==
  ASSUME NEW s \in Seq(Step), NEW c, NEW w, Work(s, c, w)
  PROVE  s # O1 /\ (s # <<>> => Head(s)[1] \notin {"start", "wait", "Qn"})
<1>1. CASE s = <<>>
  BY <1>1, ScriptHeads
<1>2. CASE s # <<>>
  <2>1. Head(s)[1] \notin {"start", "wait", "Qn"}
    BY <1>2, WorkHead
  <2>. QED BY <2>1, ScriptHeads
<1>. QED BY <1>1, <1>2

LEMMA ExecInOrder ==
  ASSUME GainerAssumption, Types, Control, CalmInv, NEW o \in Operation, exec(o)
  PROVE  CalmInv'
<1>. SUFFICES ASSUME Calm' PROVE InOrder'
  BY DEF CalmInv
<1>1. /\ script = <<>> /\ host = "ready" /\ script' = Script(o)
      /\ UNCHANGED <<host, waiting, m_config, m_endFlag, reading, line, board, answered, strayed,
                     refused, lost>>
  BY DEF exec, Called
<1>2. InOrder
  BY <1>1 DEF CalmInv, Calm
<1>3. ~waiting
  BY <1>1 DEF Control
<1>4. /\ Script(o) \in Seq(Step)
      /\ Script(o) = Exit \/ Work(Script(o), m_config, FALSE)
  BY ScriptWorks DEF Types, HostTypes
<1>5. Script(o) # O1 /\ (Script(o) # <<>> => Head(Script(o))[1] \notin {"start", "wait"})
  <2>1. CASE Script(o) = Exit
    <3>1. Head(Exit)[1] = "end" /\ Head(O1)[1] = "Qn" /\ Exit # <<>>
      BY ScriptHeads
    <3>2. Exit # O1
      BY <3>1
    <3>. QED BY <2>1, <3>1, <3>2
  <2>2. CASE Work(Script(o), m_config, FALSE)
    <3> DEFINE s == Script(o)
    <3>1. s \in Seq(Step) /\ Work(s, m_config, FALSE)
      BY <1>4, <2>2
    <3> HIDE DEF s
    <3>2. s # O1 /\ (s # <<>> => Head(s)[1] \notin {"start", "wait", "Qn"})
      BY <3>1, WorkAwaits
    <3>. QED BY <3>2 DEF s
  <2>. QED BY <1>4, <2>1, <2>2
<1>6. Awaited = "none" /\ Awaited' = "none"
  BY <1>1, <1>3, <1>5 DEF Awaited
<1>7. Pipeline'
  <2> SUFFICES ASSUME ~m_endFlag PROVE Idle'
    BY <1>1, <1>6 DEF Pipeline
  <2>1. Idle /\ script # O1
    BY <1>1, <1>2, <1>6, ScriptHeads DEF InOrder, Pipeline
  <2>2. IdleLine'
    BY <1>1, <1>5, <2>1 DEF Idle, IdleLine, line, board
  <2>3. HushedNow'
    BY <1>1, <2>1 DEF Idle, HushedNow, reading, line
  <2>. QED BY <2>2, <2>3 DEF Idle
<1>8. host' # "leaked" /\ Legal(toBoard', config') /\ ~refused' /\ Answers'
  BY <1>1, <1>2 DEF InOrder, Answers, line, board
<1>. QED BY <1>7, <1>8 DEF InOrder

LEMMA GetcInOrder ==
  ASSUME GainerAssumption, Types, Control, CalmInv, Getc
  PROVE  CalmInv'
<1>. SUFFICES ASSUME Calm' PROVE InOrder'
  BY DEF CalmInv
<1>1. host = "search" /\ UNCHANGED <<host, toBoard, board, history>>
  BY WhereItIs DEF Getc, Doing
<1>2. InOrder
  BY <1>1 DEF CalmInv, Calm, history
<1>3. Pipeline'
  BY <1>1 DEF Pipeline
<1>. QED BY <1>1, <1>2, <1>3 DEF InOrder, Answers, board, history

LEMMA SmallStepsInOrder ==
  ASSUME GainerAssumption, Types, Control, CalmInv, SetHWND \/ StartThread \/ EndThread \/ Join
  PROVE  CalmInv'
<1>. SUFFICES ASSUME Calm' PROVE InOrder'
  BY DEF CalmInv
<1>1. /\ host' = host /\ waiting' = waiting /\ ~waiting /\ m_config' = m_config
      /\ UNCHANGED <<batch, m_receive_queue, line, board, history>>
  BY DEF SetHWND, StartThread, EndThread, Join, Doing, reading
<1>2. InOrder
  BY <1>1 DEF CalmInv, Calm, history
<1>3. host' # "leaked" /\ Legal(toBoard', config') /\ ~refused' /\ Answers'
  BY <1>1, <1>2 DEF InOrder, Answers, line, board, history
<1>4. HushedNow' = HushedNow /\ \A x : AnsweringNow(x)' = AnsweringNow(x)
  BY <1>1 DEF HushedNow, AnsweringNow, line
<1>5. CASE SetHWND
  <2>1. script = O5 /\ script' = <<>> /\ m_endFlag' = m_endFlag
    BY <1>5, WhereItIs, ScriptTails DEF SetHWND, Doing, Done
  <2>2. Awaited = "none" /\ Awaited' = "none" /\ O5 # O1 /\ O1 # <<>>
    BY <1>1, <2>1, ScriptHeads DEF Awaited
  <2>3. Idle => Idle'
    BY <1>1, <1>4, <2>1, <2>2 DEF Idle, IdleLine, line, board
  <2>4. Pipeline'
    BY <1>1, <1>2, <2>1, <2>2, <2>3 DEF InOrder, Pipeline
  <2>. QED BY <1>3, <2>4 DEF InOrder
<1>6. CASE StartThread
  <2>1. script = O2 /\ script' = O3 /\ m_endFlag' = m_endFlag
    BY <1>6, WhereItIs, ScriptTails DEF StartThread, Doing, Done
  <2>2. Awaited = "wait" /\ Awaited' = "wait"
    BY <1>1, <2>1, ScriptHeads DEF Awaited
  <2>3. Asked("wait") => Asked("wait")'
    BY <1>1, <1>4 DEF Asked, AskedLine, line
  <2>4. Told("wait") => Told("wait")'
    BY <1>1, <1>4 DEF Told, ToldLine, line, board
  <2>5. Pipeline'
    BY <1>1, <1>2, <2>1, <2>2, <2>3, <2>4 DEF InOrder, Pipeline
  <2>. QED BY <1>3, <2>5 DEF InOrder
<1>7. CASE EndThread \/ Join
  <2>1. m_endFlag'
    <3>1. CASE EndThread
      BY <3>1 DEF EndThread
    <3>2. CASE Join
      <4>1. script = X3 /\ OfLeaving /\ X3 # Exit
        BY <3>2, WhereItIs, ScriptHeads DEF Join, Doing
      <4>. QED BY <3>2, <4>1 DEF OfLeaving, Join
    <3>. QED BY <1>7, <3>1, <3>2
  <2>. QED BY <1>3, <2>1 DEF InOrder, Pipeline
<1>. QED BY <1>5, <1>6, <1>7

LEMMA CloseInOrder ==
  ASSUME GainerAssumption, Types, Control, CalmInv, Close
  PROVE  CalmInv'
<1>. SUFFICES ASSUME Calm' PROVE InOrder'
  BY DEF CalmInv
<1>1. host' = "none" /\ (toBoard' = toBoard \/ toBoard' = <<>>) /\ UNCHANGED <<board, history>>
  BY DEF Close
<1>2. InOrder
  BY <1>1 DEF CalmInv, Calm, history
<1>3. Legal(toBoard', config)
  BY <1>1, <1>2, NothingToObey DEF InOrder
<1>4. Pipeline'
  BY <1>1 DEF Pipeline
<1>. QED BY <1>1, <1>2, <1>3, <1>4 DEF InOrder, Answers, board, history

\* A command leaves for the board.
LEMMA SendInOrder ==
  ASSUME GainerAssumption, Types, Control, CalmInv, Send
  PROVE  CalmInv'
<1>. SUFFICES ASSUME Calm' PROVE InOrder'
  BY DEF CalmInv
<1> DEFINE cmd == Head(script)
<1>0. /\ script # <<>> /\ ~waiting /\ cmd[1] \in NoWait \cup Waited
      /\ toBoard' = Append(toBoard, OnLine(cmd))
      /\ waiting' = (cmd[1] \in Waited)
      /\ script' = IF cmd[1] \in Waited THEN script ELSE Tail(script)
      /\ m_config' = CASE cmd[1] = "K" -> cmd[2] [] cmd[1] = "Qn" -> 0 [] OTHER -> m_config
      /\ UNCHANGED <<host, m_endFlag, reading, fromBoard, board, history>>
  BY DEF Send
<1> HIDE DEF cmd
<1>1. InOrder
  BY <1>0 DEF CalmInv, Calm, history
<1>2. cmd \in Command /\ OnLine(cmd) \in Wire /\ toBoard \in Seq(Wire) /\ script \in Seq(Step)
  BY <1>0, SentTypes DEF cmd, Types, HostTypes, BoardTypes
<1>3. /\ host' = host /\ m_endFlag' = m_endFlag /\ config' = config /\ fromBoard' = fromBoard
      /\ batch' = batch /\ m_receive_queue' = m_receive_queue
      /\ refused' = refused /\ answered' = answered
  BY <1>0 DEF reading, board, history
<1>4. host' # "leaked" /\ ~refused' /\ Answers'
  BY <1>1, <1>3 DEF InOrder, Answers
<1>5. cmd # <<"Qn">> => OnLine(cmd) = cmd
  BY DEF OnLine
<1>6. CASE cmd[1] = "Qn"
  <2>1. cmd = <<"Qn">> /\ OnLine(cmd) = <<"Q">> /\ <<"Q">>[1] \in {"Q", "?"}
    BY <1>2, <1>6, CommandShape DEF OnLine
  <2>2. Legal(toBoard', config')
    BY <1>0, <1>1, <1>2, <1>3, <2>1, AppendCommand DEF InOrder
  <2>3. /\ host = "ready" /\ ((script = O1 /\ OfOpening) \/ (script = X2 /\ OfLeaving))
        /\ X2 # Exit /\ O2 # <<>> /\ Head(O2)[1] = "start" /\ Head(O1)[1] = "Qn" /\ O1 # <<>>
    BY <1>0, <1>6, WhereItIs, ScriptHeads DEF cmd
  <2>4. CASE script = X2 /\ OfLeaving
    <3>1. Pipeline'
      BY <1>3, <2>3, <2>4 DEF OfLeaving, Pipeline
    <3>. QED BY <1>4, <2>2, <3>1 DEF InOrder
  <2>5. CASE script = O1 /\ OfOpening
    <3>1. Awaited = "none" /\ ~m_endFlag /\ m_config = 0
      BY <1>0, <2>3, <2>5 DEF Awaited, OfOpening
    <3>2. toBoard = <<>> /\ HushedNow
      BY <1>1, <2>3, <2>5, <3>1 DEF InOrder, Pipeline, Idle, IdleLine
    <3>3. script' = O2 /\ ~waiting' /\ m_config' = 0 /\ toBoard' = <<<<"Q">>>>
      <4>1. "Qn" \notin Waited
        BY DEF Waited
      <4>2. script' = Tail(script) /\ ~waiting'
        BY <1>0, <1>6, <4>1
      <4>3. m_config' = 0
        BY <1>0, <1>6
      <4>4. toBoard' = <<<<"Q">>>>
        BY <1>0, <2>1, <3>2
      <4>. QED BY <2>5, <4>2, <4>3, <4>4, ScriptTails
    <3>4. Awaited' = "wait"
      BY <2>3, <3>3 DEF Awaited
    <3>5. HushedNow'
      BY <1>3, <3>1, <3>2, <3>3 DEF HushedNow
    <3>6. Asked(Awaited)'
      BY <3>3, <3>4, <3>5 DEF Asked, AskedLine
    <3>7. Pipeline'
      BY <3>4, <3>6 DEF Pipeline
    <3>. QED BY <1>4, <2>2, <3>7 DEF InOrder
  <2>. QED BY <2>3, <2>4, <2>5
<1>7. CASE cmd[1] # "Qn"
  <2>1. OnLine(cmd) = cmd /\ cmd \in Wire /\ toBoard' = Append(toBoard, cmd)
    <3>1. cmd # <<"Qn">>
      BY <1>7
    <3>. QED BY <1>0, <1>2, <1>5, <3>1
  <2>2. /\ host = "ready" /\ ~m_endFlag
        /\ (cmd[1] = "?" /\ script = O4) \/ (cmd[1] # "?" /\ Work(script, m_config, waiting))
    <3>1. CASE cmd[1] = "?"
      BY <1>0, <3>1, WhereItIs DEF cmd, OfOpening
    <3>2. CASE cmd[1] # "?"
      BY <1>0, <1>7, <3>2, WhereItIs DEF cmd, OfWork, NoWait, Waited
    <3>. QED BY <3>1, <3>2
  <2>3. script # O1 /\ Awaited = "none"
    <3>1. cmd[1] \notin {"start", "wait"}
      BY <1>0 DEF NoWait, Waited
    <3>2. script # O1
      BY <1>7, ScriptHeads DEF cmd
    <3>. QED BY <1>0, <3>1, <3>2 DEF Awaited, cmd
  <2>4. Streaming(toBoard) /\ m_config = config /\ HushedNow /\ Legal(toBoard, config)
    BY <1>1, <2>2, <2>3 DEF InOrder, Pipeline, Idle, IdleLine
  <2>5. \/ cmd[1] \in {"Q", "?"}
        \/ /\ cmd[1] \in {"h", "R", "I", "E", "D", "A", "s", "P", "r", "i", "a"}
           /\ Fits(cmd, config) /\ Simple(Tail(script), m_config)
        \/ cmd[1] = "K" /\ m_config = 0
    <3>1. CASE cmd[1] = "?"
      BY <3>1
    <3>2. CASE Work(script, m_config, waiting)
      <4>1. \/ /\ cmd[1] \in {"h", "R", "I", "E", "D", "A", "s", "P", "r", "i", "a"}
               /\ Fits(cmd, m_config) /\ Simple(Tail(script), m_config)
            \/ cmd = <<"Q">>
            \/ \E m \in Modes : cmd = <<"K", m>> /\ m_config = IF waiting THEN m ELSE 0
        BY <1>0, <1>2, <3>2, WorkHead DEF cmd
      <4>. QED BY <1>0, <2>4, <4>1
    <3>. QED BY <2>2, <3>1, <3>2
  <2>6. CASE cmd[1] = "K"
    <3>1. config = 0 /\ m_config = 0
      BY <2>4, <2>5, <2>6 DEF Fits
    <3>2. toBoard = <<>>
      BY <1>2, <2>4, <3>1, TailCommands
    <3>3. toBoard' = <<cmd>> /\ Legal(toBoard', config')
      <4>1. toBoard' = <<cmd>>
        BY <2>1, <3>2
      <4>2. Legal(Append(toBoard, cmd), 0)
        BY <1>2, <2>1, <2>6, <3>2, AppendCommand
      <4>. QED BY <1>3, <2>1, <3>1, <4>1, <4>2
    <3>4. cmd[1] \in Waited
      BY <2>6 DEF Waited
    <3>5. waiting' /\ script' = script /\ m_config' = cmd[2]
      BY <1>0, <2>6, <3>4
    <3>6. HushedNow'
      <4>1. Hushed(m_receive_queue, batch, fromBoard, 0)
        BY <2>4, <3>1 DEF HushedNow
      <4>2. Hushed(m_receive_queue, batch, fromBoard, m_config')
        BY <4>1, HushedAnew
      <4>. QED BY <1>3, <4>2 DEF HushedNow
    <3>7. Awaited' = "K"
      BY <2>6, <3>5 DEF Awaited, cmd
    <3>8. Asked(Awaited)'
      BY <1>3, <3>1, <3>3, <3>5, <3>6, <3>7 DEF Asked, AskedLine, cmd
    <3>9. Pipeline'
      BY <3>7, <3>8 DEF Pipeline
    <3>. QED BY <1>4, <3>3, <3>9 DEF InOrder
  <2>7. CASE cmd[1] # "K"
    <3>1. m_config' = m_config
      BY <1>0, <1>7, <2>7
    <3>2. HushedNow'
      BY <1>3, <2>4, <3>1 DEF HushedNow
    <3>3. Legal(toBoard', config')
      BY <1>2, <1>3, <2>1, <2>4, <2>5, <2>7, AppendCommand
    <3>4. CASE cmd[1] \in Waited
      <4>1. waiting' /\ script' = script
        BY <1>0, <3>4
      <4>2. Awaited' = cmd[1] /\ cmd[1] \notin {"wait", "none", "K"}
        BY <1>0, <2>7, <3>4, <4>1 DEF Awaited, cmd, Waited
      <4>3. EndsWith(toBoard', cmd)
        BY <1>2, <2>1, <2>4, AppendCommand
      <4>4. Asked(Awaited)'
        BY <1>3, <2>4, <3>1, <3>2, <4>1, <4>2, <4>3 DEF Asked, AskedLine, cmd
      <4>5. Pipeline'
        BY <4>2, <4>4 DEF Pipeline
      <4>. QED BY <1>4, <3>3, <4>5 DEF InOrder
    <3>5. CASE cmd[1] \notin Waited
      <4>1. cmd[1] \in Streamers
        BY <1>0, <1>7, <3>5 DEF NoWait, Streamers
      <4>2. script' = Tail(script) /\ ~waiting' /\ Simple(Tail(script), m_config)
        BY <1>0, <2>5, <2>7, <3>5, <4>1 DEF Streamers
      <4>3. script' \in Seq(Step) /\ Work(script', m_config, waiting)
        BY <1>0, <1>2, <4>2, HeadTailProperties DEF Work
      <4>4. script' # O1 /\ (script' # <<>> => Head(script')[1] \notin {"start", "wait", "Qn"})
        BY <4>3, WorkAwaits
      <4>5. Awaited' = "none"
        BY <4>2, <4>4 DEF Awaited
      <4>6. Streaming(toBoard')
        BY <1>2, <2>1, <2>4, <4>1, AppendCommand
      <4>7. Idle'
        BY <1>3, <2>4, <3>1, <3>2, <4>4, <4>6 DEF Idle, IdleLine
      <4>8. Pipeline'
        BY <4>5, <4>7 DEF Pipeline
      <4>. QED BY <1>4, <3>3, <4>8 DEF InOrder
    <3>. QED BY <3>4, <3>5
  <2>. QED BY <2>6, <2>7
<1>. QED BY <1>6, <1>7

LEMMA WorkThenAwaits ==
  ASSUME NEW s \in Seq(Step), s # <<>>, NEW c, NEW w, Work(s, c, w)
  PROVE  Tail(s) # O1 /\ (Tail(s) # <<>> => Head(Tail(s))[1] \notin {"start", "wait", "Qn"})
<1> DEFINE t == Tail(s)
<1>1. t \in Seq(Step)
  BY HeadTailProperties
<1>2. \/ Simple(t, c)
      \/ t = <<>> \/ \E m \in Modes : t = <<<<"K", m>>>>
      \/ \E m \in Modes : Simple(t, m)
  BY WorkHead
<1> HIDE DEF t
<1>3. ASSUME NEW m, Simple(t, m)
      PROVE  t # O1 /\ (t # <<>> => Head(t)[1] \notin {"start", "wait", "Qn"})
  <2>1. Work(t, m, w)
    BY <1>3 DEF Work
  <2>. QED BY <1>1, <2>1, WorkAwaits
<1>4. ASSUME NEW m \in Modes, t = <<<<"K", m>>>>
      PROVE  t # O1 /\ (t # <<>> => Head(t)[1] \notin {"start", "wait", "Qn"})
  <2>1. t # <<>> /\ Head(t)[1] = "K"
    BY <1>4
  <2>2. Head(O1)[1] = "Qn"
    BY ScriptHeads
  <2>. QED BY <2>1, <2>2
<1>5. CASE t = <<>>
  BY <1>5, ScriptHeads DEF t
<1>. QED BY <1>2, <1>3, <1>4, <1>5 DEF t

\* The host takes the reply it waits for.
LEMMA ReceiveInOrder ==
  ASSUME GainerAssumption, Types, Control, CalmInv, Receive
  PROVE  CalmInv'
<1>. SUFFICES ASSUME Calm' PROVE InOrder'
  BY DEF CalmInv
<1> DEFINE x == Head(script)[1]
<1>0. /\ script # <<>> /\ x \in Waited \cup {"wait"} /\ (waiting \/ x = "wait")
      /\ m_receive_queue # <<>> /\ m_receive_queue' = Tail(m_receive_queue)
      /\ ~waiting'
      /\ answered' = <<x, Head(m_receive_queue)>>
      /\ m_config' = IF x = "Q" THEN 0 ELSE m_config
      /\ \/ script' = Tail(script) /\ host' = host
         \/ x = "?" /\ Head(m_receive_queue) \in {"!", "tail"}
      /\ UNCHANGED <<m_endFlag, batch, line, board, strayed, refused, lost>>
  BY DEF Receive, Doing, Done, Control
<1> HIDE DEF x
<1>1. InOrder
  BY <1>0 DEF CalmInv, Calm
<1>2. /\ host = "ready" /\ ~m_endFlag
      /\ \/ x = "wait" /\ script = O3 /\ m_config = 0
         \/ x = "?" /\ script = O4 /\ m_config = 0
         \/ x \notin {"wait", "?"} /\ Work(script, m_config, waiting)
  <2>1. CASE x \in {"wait", "?"}
    BY <1>0, <2>1, WhereItIs DEF x, OfOpening
  <2>2. CASE x \notin {"wait", "?"}
    BY <1>0, <2>2, WhereItIs DEF x, OfWork, Waited
  <2>. QED BY <2>1, <2>2
<1>3. Awaited = x /\ x # "none"
  BY <1>0 DEF Awaited, x, Waited
<1>4. ToldLine(x) /\ AnsweringNow(x)
  BY <1>0, <1>1, <1>2, <1>3 DEF InOrder, Pipeline, Asked, Told, HushedNow, Hushed
<1>5. PICK y \in Own(x) : m_receive_queue = <<y>> /\ Still(batch) /\ Still(fromBoard)
  BY <1>0, <1>4 DEF AnsweringNow, Answering
<1>6. Head(m_receive_queue) = y /\ m_receive_queue' = <<>>
  BY <1>0, <1>5
<1>7. script' = Tail(script) /\ host' = "ready"
  <2>1. x = "?" => y = "?"
    BY <1>5 DEF Own
  <2>. QED BY <1>0, <1>2, <1>6, <2>1
<1>8. Answers'
  BY <1>0, <1>5, <1>6 DEF Answers
<1>9. HushedNow'
  BY <1>0, <1>5, <1>6, StillSilent DEF HushedNow, Hushed, line
<1>10. script' # O1 /\ (script' # <<>> => Head(script')[1] \notin {"start", "wait"})
  <2>1. CASE script \in {O3, O4}
    <3>1. script' \in {O4, O5}
      BY <1>7, <2>1, ScriptTails
    <3>2. Head(O4)[1] = "?" /\ Head(O5)[1] = "hwnd" /\ Head(O1)[1] = "Qn"
      BY ScriptHeads
    <3>. QED BY <3>1, <3>2
  <2>2. CASE Work(script, m_config, waiting)
    <3>1. script \in Seq(Step)
      BY DEF Types, HostTypes
    <3>. QED BY <1>0, <1>7, <2>2, <3>1, WorkThenAwaits
  <2>. QED BY <1>2, <2>1, <2>2
<1>11. Awaited' = "none"
  BY <1>0, <1>10 DEF Awaited
<1>12. toBoard' = <<>> /\ config' = config /\ m_config' = config
  <2>1. toBoard' = toBoard /\ config' = config /\ toBoard = <<>>
    BY <1>0, <1>4 DEF line, board, ToldLine
  <2>2. IF x \in {"wait", "Q"} THEN config = 0 ELSE m_config = config
    BY <1>4 DEF ToldLine
  <2>3. m_config' = config
    BY <1>0, <1>2, <2>2
  <2>. QED BY <2>1, <2>3
<1>13. Idle'
  BY <1>9, <1>10, <1>12, NothingToObey DEF Idle, IdleLine
<1>14. Pipeline'
  BY <1>11, <1>13 DEF Pipeline
<1>. QED BY <1>0, <1>1, <1>7, <1>8, <1>12, <1>14, NothingToObey DEF InOrder

-----------------------------------------------------------------------------
(* The replies and the configuration, for every behaviour. *)

LEMMA StepInOrder ==
  ASSUME GainerAssumption, Types, Control, CalmInv, [Next]_vars
  PROVE  CalmInv'
<1>1. CASE Open
  BY <1>1, OpenInOrder
<1>2. CASE Search
  BY <1>2, SearchInOrder
<1>3. CASE \E o \in Operation : exec(o)
  BY <1>3, ExecInOrder
<1>4. CASE hwnd
  BY <1>4, SameInOrder DEF hwnd
<1>5. CASE HostStep
  BY <1>5, GetcInOrder, SendInOrder, ReceiveInOrder, SmallStepsInOrder, CloseInOrder DEF HostStep
<1>6. CASE ReceiverStep
  <2>1. CASE Sent \/ EndReceiver
    BY <2>1, StillInOrder DEF Sent, EndReceiver
  <2>. QED BY <1>6, <2>1, RecvInOrder, EventInOrder DEF ReceiverStep
<1>7. CASE Obey
  BY <1>7, ObeyInOrder
<1>8. CASE Tell
  BY <1>8, TellInOrder
<1>9. CASE Lose
  BY <1>9, LoseInOrder
<1>10. CASE UNCHANGED vars
  BY <1>10, SameInOrder DEF vars, hosting
<1>. QED BY <1>1, <1>2, <1>3, <1>4, <1>5, <1>6, <1>7, <1>8, <1>9, <1>10 DEF Next

LEMMA InitiallyInOrder ==
  ASSUME Init
  PROVE  CalmInv
<1>1. host = "none" /\ toBoard = <<>> /\ ~refused /\ answered = NoReply
  BY DEF Init
<1>. QED BY <1>1, NothingToObey DEF CalmInv, InOrder, Pipeline, Answers

\* Nothing but their order says which reply answers which command: still the reply that ends the wait
\* for a command is the reply to that command, as long as no message is lost or strays.
THEOREM RepliesAreOwn == Spec => []ReplyIsOwn
<1>. USE GainerAssumption
<1>1. Init => Types /\ Control /\ CalmInv
  BY InitiallyControlled, InitiallyInOrder
<1>2. Types /\ Control /\ CalmInv /\ [Next]_vars => Types' /\ Control' /\ CalmInv'
  BY StepControlled, StepInOrder
<1>3. CalmInv => ReplyIsOwn
  BY DEF CalmInv, Calm, InOrder, Answers, Own, ReplyIsOwn
<1>. QED BY <1>1, <1>2, <1>3, PTL DEF Spec

\* Between two calls of exec the plugin knows the configuration of the board, and it gives the board
\* no command that its configuration does not have, as long as no message is lost or strays.
THEOREM ConfigurationIsKnown == Spec => []BoardAgrees
<1>. USE GainerAssumption
<1>1. Init => Types /\ Control /\ CalmInv
  BY InitiallyControlled, InitiallyInOrder
<1>2. Types /\ Control /\ CalmInv /\ [Next]_vars => Types' /\ Control' /\ CalmInv'
  BY StepControlled, StepInOrder
<1>3. Types /\ Control /\ CalmInv => BoardAgrees
  <2> SUFFICES ASSUME Types, Control, Calm, InOrder
               PROVE  ~refused /\ (host = "ready" /\ script = <<>> => m_config = config)
    BY DEF CalmInv, Calm, BoardAgrees
  <2>1. ASSUME host = "ready", script = <<>> PROVE m_config = config
    <3>1. ~OfOpening /\ ~OfLeaving
      BY <2>1, ScriptHeads DEF OfOpening, OfLeaving, Opening, Leaving
    <3>2. ~m_endFlag /\ ~waiting
      BY <2>1, <3>1 DEF Control, OfWork
    <3>3. Awaited = "none" /\ script # O1
      BY <2>1, <3>2, ScriptHeads DEF Awaited
    <3>. QED BY <2>1, <3>2, <3>3 DEF InOrder, Pipeline, Idle, IdleLine
  <2>. QED BY <2>1 DEF InOrder
<1>. QED BY <1>1, <1>2, <1>3, PTL DEF Spec

=============================================================================
