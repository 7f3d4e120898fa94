------------------------------ MODULE PackJson ------------------------------
(***************************************************************************)
(* The manifest reader (src/src/core/pack_json.cpp).  A document is a      *)
(* sequence of tokens [t, v]: a structural character (v is ""), a string, a*)
(* number, a literal, or "cut", what is left of a token the document ends  *)
(* in.  A value is [type, v]; an object's v is a function from keys, an    *)
(* array's a sequence.  A number is in tenths, so that not all are integers*)
(***************************************************************************)
EXTENDS Integers, Sequences, FiniteSets

LOCAL INSTANCE TLC
Seqs == INSTANCE SequencesExt

CONSTANTS
  MaxDepth,      \* kMaxPackManifestDepth
  MaxTokens,     \* kMaxPackManifestBytes
  PriorityRange, \* what an int holds
  StringFields   \* the keys of the required strings

-----------------------------------------------------------------------------
(* The recursive descent, as the automaton it is: `stack` holds the open   *)
(* objects and arrays, `expect` what the innermost call waits for.         *)

Refuse(s) == [s EXCEPT !.ok = FALSE]

\* A finished value goes to the innermost container, where the last of two
\* equal keys wins, or is the document.
Delivered(s, value) ==
  IF s.stack = <<>> THEN [s EXCEPT !.expect = "nothing", !.value = value]
  ELSE LET top == Seqs!Last(s.stack)
           filled == IF top.type = "array" THEN [top EXCEPT !.v = Append(@, value)]
                     ELSE [top EXCEPT !.v = (top.key :> value) @@ @]
       IN  [s EXCEPT !.expect = "separator", !.stack = Append(Seqs!Front(@), filled)]

ClosePending(s) ==
  LET top == Seqs!Last(s.stack)
  IN  Delivered([s EXCEPT !.stack = Seqs!Front(@)], [type |-> top.type, v |-> top.v])

Opened(s, type, empty, expect) ==
  [s EXCEPT !.stack = Append(@, [type |-> type, v |-> empty, key |-> ""]), !.expect = expect]

ParseValue(s, tok) ==
  IF Len(s.stack) > MaxDepth THEN [s EXCEPT !.ok = FALSE, !.too_deep = TRUE]
  ELSE CASE tok.t = "{" -> Opened(s, "object", <<>>, "key or close")
         [] tok.t = "[" -> Opened(s, "array", <<>>, "value or close")
         [] tok.t \in {"string", "number", "literal"} -> Delivered(s, [type |-> tok.t, v |-> tok.v])
         [] OTHER -> Refuse(s)

ParseObject(s, tok) ==
  CASE s.expect = "key or close" /\ tok.t = "}" -> ClosePending(s)
    [] s.expect \in {"key", "key or close"} /\ tok.t = "string" ->
         [s EXCEPT !.expect = "colon", !.stack[Len(s.stack)].key = tok.v]
    [] s.expect = "colon" /\ tok.t = ":" -> [s EXCEPT !.expect = "value"]
    [] s.expect = "separator" /\ tok.t = "," -> [s EXCEPT !.expect = "key"]
    [] s.expect = "separator" /\ tok.t = "}" -> ClosePending(s)
    [] OTHER -> Refuse(s)

ParseArray(s, tok) ==
  CASE s.expect = "value or close" /\ tok.t = "]" -> ClosePending(s)
    [] s.expect = "separator" /\ tok.t = "," -> [s EXCEPT !.expect = "value"]
    [] s.expect = "separator" /\ tok.t = "]" -> ClosePending(s)
    [] OTHER -> Refuse(s)

Step(s, tok) ==
  IF ~s.ok THEN s
  ELSE IF s.expect = "nothing" THEN Refuse(s)
  ELSE IF s.expect = "value" \/ (s.expect = "value or close" /\ tok.t # "]") THEN ParseValue(s, tok)
  ELSE IF Seqs!Last(s.stack).type = "object" THEN ParseObject(s, tok)
  ELSE ParseArray(s, tok)

Start == [ok |-> TRUE, too_deep |-> FALSE, stack |-> <<>>, expect |-> "value",
          value |-> [type |-> "none"]]

\* The document is one value and nothing after it.  A value that it ends before
\* may already be too deep.
Ended(s) ==
  LET nested == s.expect \in {"value", "value or close"} /\ Len(s.stack) > MaxDepth
  IN  [s EXCEPT !.ok = @ /\ s.expect = "nothing", !.too_deep = @ \/ (s.ok /\ nested)]

\* Mutant: the containers left open at the end are closed for the writer.
ParseDocumentLeniently(text) ==
  LET s == Seqs!FoldLeft(Step, Start, text)
  IN  Ended(IF s.ok /\ s.expect = "separator" /\ Len(s.stack) = 1 THEN ClosePending(s) ELSE s)

ParseDocument(text) == Ended(Seqs!FoldLeft(Step, Start, text))

-----------------------------------------------------------------------------
(* The manifest.  Each reader answers "none" or why it refuses; the first  *)
(* refusal in the order of the code is the error.                          *)

Find(object, key) == IF key \in DOMAIN object THEN object[key] ELSE [type |-> "absent"]

ReadTyped(object, key, type) ==
  LET got == Find(object, key).type
  IN  IF got = type THEN "none" ELSE IF got = "absent" THEN "missing-field" ELSE "wrong-type"

ReadString(object, key) == ReadTyped(object, key, "string")
ReadDouble(object, key) == ReadTyped(object, key, "number")

\* A fraction is refused, and so is a number outside the field's range.
ReadIntegral(object, key, range) ==
  LET status == ReadDouble(object, key)
  IN  IF status # "none" THEN status
      ELSE IF object[key].v % 10 = 0 /\ object[key].v \div 10 \in range THEN "none"
      ELSE "out-of-range"

ReadStringArray(object, key) ==
  LET status == ReadTyped(object, key, "array")
  IN  IF status = "none" /\ \E i \in DOMAIN object[key].v : object[key].v[i].type # "string"
      THEN "wrong-type" ELSE status

\* An optional field may be absent, but not of the wrong type.
Optional(status) == IF status = "missing-field" THEN "none" ELSE status

BoundsFields == <<"min_lon", "min_lat", "max_lon", "max_lat">>
Zooms == 0..31

ReadBounds(root) ==
  LET status == ReadTyped(root, "bounds", "object")
  IN  IF status # "none" THEN <<status>>
      ELSE [i \in 1..4 |-> ReadDouble(root["bounds"].v, BoundsFields[i])]

ReadSources(root) ==
  LET status == ReadTyped(root, "sources", "array")
      ids == root["sources"].v
  IN  IF status # "none" THEN <<status>>
      ELSE [i \in DOMAIN ids |-> IF ids[i].type # "object" THEN "wrong-type"
                                 ELSE ReadString(ids[i].v, "provenance_id")]

\* pmtiles_version and size_bytes are read as the zooms are.
ManifestErrors(root) ==
  [i \in DOMAIN StringFields |-> ReadString(root, StringFields[i])]
  \o ReadBounds(root)
  \o <<ReadIntegral(root, "min_zoom", Zooms), ReadIntegral(root, "max_zoom", Zooms),
       Optional(ReadIntegral(root, "priority", PriorityRange))>>
  \o ReadSources(root)
  \o <<Optional(ReadStringArray(root, "required_attribution")),
       Optional(ReadStringArray(root, "attribution_links"))>>

FirstError(errors) ==
  LET refusals == SelectSeq(errors, LAMBDA e : e # "none")
  IN  IF refusals = <<>> THEN "none" ELSE Head(refusals)

ParsePackManifestJson(text) ==
  LET s == ParseDocument(text)
  IN  IF Len(text) > MaxTokens THEN "too-large"
      ELSE IF ~s.ok THEN IF s.too_deep THEN "too-deep" ELSE "malformed"
      ELSE IF s.value.type # "object" THEN "not-an-object"
      ELSE FirstError(ManifestErrors(s.value.v))

-----------------------------------------------------------------------------
\* A manifest that was cut short while it was written, between two tokens or
\* inside one, is refused as malformed whatever it ends in, or as too deep if
\* its next value would be: the reader never offers a pack from half of its
\* manifest ("Every failure path returns false; nothing is guessed or repaired",
\* pack_json.cpp:28).
CutManifestIsRefused(text) ==
  ParsePackManifestJson(text) = "none" =>
    \A n \in 0..Len(text) - 1 :
      /\ ParsePackManifestJson(SubSeq(text, 1, n)) \in {"malformed", "too-deep"}
      /\ ParsePackManifestJson(Append(SubSeq(text, 1, n), [t |-> "cut", v |-> ""]))
           \in {"malformed", "too-deep"}
=============================================================================
