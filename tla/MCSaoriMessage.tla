--------------------------- MODULE MCSaoriMessage ---------------------------
(* A small instance of SaoriMessage: two spellings of SecurityLevel, the    *)
(* Charset line, one key of a plugin; texts with a CR LF pair in them, with *)
(* a lone LF, and with a lone LF before what reads as a value or a header.  *)
EXTENDS SaoriMessage

MCTexts  == {"", "a", "b", "a CRLF b", "a SOH b", "a LF b", "a LF Value1: b", "b LF Event: a"}
MCFlat   == [t \in MCTexts |-> IF t = "a CRLF b" THEN "a SOH b" ELSE t]
MCCut    == [t \in MCTexts |->
               CASE t \in {"a CRLF b", "a LF b", "a LF Value1: b"} -> "a"
                 [] t = "b LF Event: a" -> "b"
                 [] OTHER -> t]
MCBehind == [t \in MCTexts |->
               CASE t \in {"a CRLF b", "a LF b"} -> <<[kind |-> "noise"]>>
                 [] t = "a LF Value1: b" ->
                      <<[kind |-> "indexed", ord |-> 1, zero |-> FALSE, text |-> "b"]>>
                 [] t = "b LF Event: a" -> <<[kind |-> "option", key |-> "Event", text |-> "a"]>>
                 [] OTHER -> <<>>]
MCKeys   == {"SecurityLevel", "securitylevel", "Charset", "Event"}
MCCanon  == [k \in MCKeys |-> IF k = "securitylevel" THEN "SecurityLevel" ELSE k]

\* Requests use two texts only, and replies set one option.
MCInit == /\ Init
          /\ dir = "request" =>
               \A p \in DOMAIN src : src[p].kind # "noise" => src[p].text \in {"a", "b"}
          /\ dir = "response" => DOMAIN sent.opts \subseteq {"Event"}
MCSpec == MCInit /\ [][Next]_vars
=============================================================================
