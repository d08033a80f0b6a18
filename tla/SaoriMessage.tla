---------------------------- MODULE SaoriMessage ----------------------------
(***************************************************************************)
(* The wire format of SAORI/1.0 and PLUGIN/2.0, csaori_base.cpp: the loop   *)
(* that CSAORIInput::parseString and CSAORIOutput::parseString share, and   *)
(* CSAORIOutput::toString, which appends one field after the other.         *)
(*                                                                          *)
(* A message is the sequence of its header lines.  A line keeps what the    *)
(* loop tells apart: an indexed field (Argument<n>, Value<n>, Reference<n>) *)
(* with the number _wtoi finds and whether the first character behind the   *)
(* tag is '0'; the scalar field (ID, Result, Script); any other key; a line *)
(* without ": ".  Texts are members of a small set.  A text with a line     *)
(* break in it (CR LF, or a CR or LF alone: getLine stops at each) is more  *)
(* than one line on the wire, and what is behind the break may look like    *)
(* any line.                                                                *)
(***************************************************************************)
EXTENDS Integers, FiniteSets, SequencesExt

CONSTANTS Texts,       \* what an implementation may put into a reply
          Empty,       \* the empty text
          Flat,        \* Flat[t]: t with every CR LF pair replaced by \1
          Cut,         \* Cut[t]: t up to its first line break
          Behind,      \* Behind[t]: the lines t leaves behind that break
          Keys,        \* spellings of the other header keys
          NoKey,       \* the empty key, of a line that begins with ": "
          Canon,       \* Canon[k]: k in the spelling the parsers keep
          CharsetKey,  \* the key toString writes the code page under,
          CharsetText, \* and its name
          MaxOrd,      \* bound: largest number of an indexed field
          MaxLines,    \* bound: header lines of a request
          MaxValues    \* bound: values of a reply

\* The texts without a line break.
LineTexts == {t \in Texts : Cut[t] = t /\ Behind[t] = <<>>}

ASSUME KeyAssumption == /\ IsFiniteSet(Keys)
                        /\ NoKey \notin Keys
                        /\ Canon \in [Keys -> Keys]
                        /\ CharsetKey \in Keys
                        /\ Canon[CharsetKey] = CharsetKey

ASSUME BoundAssumption == MaxOrd \in Nat /\ MaxLines \in Nat /\ MaxValues \in Nat

VARIABLES dir,     \* which parser runs: "request" or "response"
          sent,    \* the object toString writes (response only)
          written, \* how many of its fields toString has appended
          first,   \* the first line: what the parser finds in it
          src,     \* the header lines behind it
          pos,     \* how many of them are consumed
          vec,     \* _arg, values
          argc,    \* argc
          opt,     \* _opt, opts
          scalar,  \* _id, result
          status,  \* result_code (response only)
          phase    \* "write" (response only), "first", "lines", then "done"
                   \* or "rejected"

vars == <<dir, sent, written, first, src, pos, vec, argc, opt, scalar, status, phase>>
message == <<dir, sent, written, first, src>>

-----------------------------------------------------------------------------
(* Lines. *)

IndexedLine == [kind : {"indexed"}, ord : Int, zero : BOOLEAN, text : LineTexts]
ScalarLine  == [kind : {"scalar"}, text : LineTexts]
OptionLine  == [kind : {"option"}, key : Keys \cup {NoKey}, text : LineTexts]
NoiseLine   == [kind : {"noise"}]
Line        == IndexedLine \cup ScalarLine \cup OptionLine \cup NoiseLine

ASSUME TextAssumption == /\ Flat \in [Texts -> Texts]
                         /\ Cut \in [Texts -> LineTexts]
                         /\ Behind \in [Texts -> Seq(Line)]
                         /\ {Empty, CharsetText} \subseteq LineTexts

\* What a host may write, up to the bound on field numbers: _wtoi reads 0 from
\* "0" (zero) and from what is no number (~zero).
WrittenLine ==
  {l \in [kind : {"indexed"}, ord : -1 .. MaxOrd, zero : BOOLEAN, text : LineTexts] :
      l.zero => l.ord = 0}
  \cup ScalarLine \cup OptionLine \cup NoiseLine

\* The number is taken when positive, or 0 and spelled with a digit.
Taken(l) == l.kind = "indexed" /\ (l.ord > 0 \/ (l.ord = 0 /\ l.zero))

-----------------------------------------------------------------------------
(* CSAORIOutput::toString. *)

ResultCodes == {0, 200, 204, 400, 500}      \* SAORIRESULT, FORCE_OK being 0

PluginKeys == {k \in Keys : Canon[k] = k /\ k # CharsetKey}

OutputObject == [code : ResultCodes, result : Texts,
                 values : UNION {[1 .. n -> Texts] : n \in 0 .. MaxValues},
                 opts : UNION {[K -> Texts] : K \in SUBSET PluginKeys}]

Blank(o) == o.result = Empty /\ o.values = <<>> /\ DOMAIN o.opts = {}

\* A bug for a mutant: the values are not looked at.
StatusBlindToValues(o) ==
  IF o.code = 0 \/ (o.code = 200 /\ (o.result # Empty \/ DOMAIN o.opts # {}))
  THEN 200 ELSE IF o.code = 200 THEN 204 ELSE o.code

\* FORCE_OK is written as 200, a blank OK as 204.
StatusOf(o) ==
  CASE o.code = 0 -> 200
    [] o.code = 200 /\ Blank(o) -> 204
    [] OTHER -> o.code

\* A bug for a mutant: CR LF in a value is written as it is.
RawText(t) == t

\* In a value CR LF becomes \1.  The loops for a lone CR and a lone LF begin
\* where the first one ended, at npos, and replace nothing.
FlatText(t) == Flat[t]

\* The fields behind the status line, with the text each is given.
Fields(o) ==
  LET keys == SetToSeq(DOMAIN o.opts)
  IN  <<[kind |-> "option", key |-> CharsetKey, text |-> CharsetText],
        [kind |-> "scalar", text |-> o.result]>>
      \o [i \in DOMAIN keys |->
            [kind |-> "option", key |-> keys[i], text |-> o.opts[keys[i]]]]
      \o [i \in DOMAIN o.values |->
            [kind |-> "indexed", ord |-> i - 1, zero |-> i = 1, text |-> FlatText(o.values[i])]]

\* A field on the wire: its own line, and what its text has behind a break.
FieldLine(f) == [f EXCEPT !.text = Cut[f.text]]
OnWire(f) == <<FieldLine(f)>> \o Behind[f.text]

-----------------------------------------------------------------------------
(* The parsers. *)

\* A bug for a mutant: the gap is filled up to the field, not past it.
StoreShort(v, c, ord, t) ==
  LET filled == IF c <= ord THEN [i \in 1 .. ord |-> IF i <= Len(v) THEN v[i] ELSE Empty] ELSE v
  IN  [i \in DOMAIN filled |-> IF i = ord + 1 THEN t ELSE filled[i]]

\* if (argc <= ord) the gap is filled with empty texts; then _arg[ord] = v.
Store(v, c, ord, t) ==
  LET filled == IF c <= ord /\ Len(v) <= ord
                THEN [i \in 1 .. ord + 1 |-> IF i <= Len(v) THEN v[i] ELSE Empty]
                ELSE v
  IN  [i \in DOMAIN filled |-> IF i = ord + 1 THEN t ELSE filled[i]]

\* A bug for a mutant: the header keys keep the spelling they came in.
SpelledKey(k) == k

\* securitylevel, sender and charset are kept in one spelling each.
StoredKey(k) == Canon[k]

RequestInit ==
  /\ dir = "request" /\ phase = "first"
  /\ sent = <<>>
  /\ first \in {"named", "other"}           \* is s_saori_def() in the line?
  /\ src \in UNION {[1 .. n -> WrittenLine] : n \in 0 .. MaxLines}

ResponseInit ==
  /\ dir = "response" /\ phase = "write"
  /\ sent \in OutputObject
  /\ first = StatusOf(sent)
  /\ src = <<>>

Init ==
  /\ RequestInit \/ ResponseInit
  /\ written = 0 /\ pos = 0 /\ vec = <<>> /\ argc = 0 /\ scalar = Empty
  /\ opt = [k \in {} |-> Empty]
  /\ status = 500

\* dest += ..., for one field.
WriteField ==
  /\ phase = "write" /\ written < Len(Fields(sent))
  /\ src' = src \o OnWire(Fields(sent)[written + 1])
  /\ written' = written + 1
  /\ UNCHANGED <<dir, sent, first, pos, vec, argc, opt, scalar, status, phase>>

Send ==
  /\ phase = "write" /\ written = Len(Fields(sent))
  /\ phase' = "first"
  /\ UNCHANGED <<message, pos, vec, argc, opt, scalar, status>>

\* The first line of a request has the protocol's name in it, or the parser
\* gives up.
ReadRequestLine ==
  /\ phase = "first" /\ dir = "request"
  /\ phase' = IF first = "named" THEN "lines" ELSE "rejected"
  /\ UNCHANGED <<message, pos, vec, argc, opt, scalar, status>>

ReadStatusLine ==
  /\ phase = "first" /\ dir = "response"
  /\ status' = IF first \in {200, 204, 400} THEN first ELSE 500
  /\ phase' = "lines"
  /\ UNCHANGED <<message, pos, vec, argc, opt, scalar>>

\* A bug for a mutant: two breaks are taken for one.
NextLineButOne(kind) ==
  /\ phase = "lines" /\ pos < Len(src) /\ src[pos + 1].kind = kind
  /\ pos' = pos + 2
  /\ UNCHANGED <<message, status, phase>>

NextLine(kind) ==
  /\ phase = "lines" /\ pos < Len(src) /\ src[pos + 1].kind = kind
  /\ pos' = pos + 1
  /\ UNCHANGED <<message, status, phase>>

StoreIndexed ==
  /\ NextLine("indexed") /\ Taken(src[pos + 1])
  /\ vec' = Store(vec, argc, src[pos + 1].ord, src[pos + 1].text)
  /\ argc' = Len(vec')
  /\ UNCHANGED <<opt, scalar>>

DropIndexed ==
  /\ NextLine("indexed") /\ ~Taken(src[pos + 1])
  /\ UNCHANGED <<vec, argc, opt, scalar>>

StoreScalar ==
  /\ NextLine("scalar")
  /\ scalar' = src[pos + 1].text
  /\ UNCHANGED <<vec, argc, opt>>

StoreOption ==
  /\ NextLine("option") /\ src[pos + 1].key # NoKey
  /\ LET key == StoredKey(src[pos + 1].key)
     IN  opt' = [k \in DOMAIN opt \cup {key} |-> IF k = key THEN src[pos + 1].text ELSE opt[k]]
  /\ UNCHANGED <<vec, argc, scalar>>

SkipLine ==
  /\ \/ NextLine("noise")
     \/ NextLine("option") /\ src[pos + 1].key = NoKey
  /\ UNCHANGED <<vec, argc, opt, scalar>>

\* getLine has returned npos: the locals go into the object.
Finish ==
  /\ phase = "lines" /\ pos = Len(src)
  /\ phase' = "done"
  /\ UNCHANGED <<message, pos, vec, argc, opt, scalar, status>>

Next == \/ WriteField \/ Send
        \/ ReadRequestLine \/ ReadStatusLine
        \/ StoreIndexed \/ DropIndexed \/ StoreScalar \/ StoreOption \/ SkipLine
        \/ Finish

Spec == Init /\ [][Next]_vars

-----------------------------------------------------------------------------
(* Properties. *)

TypeOK ==
  /\ dir \in {"request", "response"}
  /\ src \in Seq(Line)
  /\ pos \in 0 .. Len(src)
  /\ vec \in Seq(LineTexts)
  /\ argc \in Nat
  /\ scalar \in LineTexts
  /\ opt \in UNION {[K -> LineTexts] : K \in SUBSET Keys}
  /\ written \in Nat
  /\ phase \in {"write", "first", "lines", "done", "rejected"}

Names(p, n) == Taken(src[p]) /\ src[p].ord = n      \* line p stores field n

FieldIs(n, t) ==
  \/ \E p \in 1 .. pos : /\ Names(p, n) /\ t = src[p].text
                         /\ \A q \in p + 1 .. pos : ~Names(q, n)
  \/ t = Empty /\ \A p \in 1 .. pos : ~Names(p, n)

(***************************************************************************)
(* Whatever order the numbered fields come in, repeated or with gaps, the   *)
(* vector is as long as the largest number asks and each place holds the    *)
(* last text given for it, or is empty: the vector an implementation        *)
(* indexes with args[n] (csaori_base.cpp 78-92, 246-260).                   *)
(***************************************************************************)
FieldsInPlace ==
  /\ \A i \in 1 .. Len(vec) : FieldIs(i - 1, vec[i])
  /\ \A p \in 1 .. pos : Taken(src[p]) => src[p].ord < Len(vec)
  /\ vec # <<>> => \E p \in 1 .. pos : Names(p, Len(vec) - 1)

Sets(p, k) == src[p].kind = "option" /\ src[p].key # NoKey /\ Canon[src[p].key] = k

(***************************************************************************)
(* Of several lines with one key, in any spelling of the keys the           *)
(* dispatcher reads, the last one counts: the SecurityLevel that decides    *)
(* which handler runs is the last the host wrote (99-117, 342).             *)
(***************************************************************************)
LastOptionCounts ==
  /\ \A k \in DOMAIN opt : \E p \in 1 .. pos :
        Sets(p, k) /\ opt[k] = src[p].text /\ \A q \in p + 1 .. pos : ~Sets(q, k)
  /\ \A p \in 1 .. pos : \A k \in Keys : Sets(p, k) => k \in DOMAIN opt

\* The texts toString appends for o.
WrittenTexts(o) == {o.result} \cup {o.opts[k] : k \in DOMAIN o.opts}
                   \cup {Flat[o.values[i]] : i \in DOMAIN o.values}

\* Nothing behind a line break in o reads as a header line.
Harmless(o) ==
  \A t \in WrittenTexts(o) : \A i \in DOMAIN Behind[t] : Behind[t][i].kind = "noise"

(***************************************************************************)
(* What a reply keeps on the wire.  Whatever line breaks an implementation  *)
(* put into it, the status is read back, no value and no key is lost, and a *)
(* reply that is read as 204 where the handler said OK has nothing in it.   *)
(* If what is behind the breaks does not read as header lines, each field   *)
(* is read back as it is up to its first line break: a value with CR LF in  *)
(* it whole, with \1 for the break; a value with a lone CR or LF, and a     *)
(* result or a header with any break, cut.                                  *)
(***************************************************************************)
RoundTrip ==
  (dir = "response" /\ phase = "done") =>
    /\ Len(vec) >= Len(sent.values)
    /\ DOMAIN sent.opts \cup {CharsetKey} \subseteq DOMAIN opt
    /\ status = sent.code
       \/ (status = 200 /\ sent.code = 0)
       \/ (status = 204 /\ sent.code = 200 /\ vec = <<>> /\ scalar = Empty
                        /\ DOMAIN opt = {CharsetKey})
    /\ Harmless(sent) =>
         /\ vec = [i \in DOMAIN sent.values |-> Cut[Flat[sent.values[i]]]]
         /\ scalar = Cut[sent.result]
         /\ DOMAIN opt = DOMAIN sent.opts \cup {CharsetKey}
         /\ \A k \in DOMAIN sent.opts : opt[k] = Cut[sent.opts[k]]

=============================================================================
