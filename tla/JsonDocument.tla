------------------------------- MODULE JsonDocument -------------------------------
(***************************************************************************)
(* What a JSON text means, as the reference json_parser.c is checked       *)
(* against: a document is a tree, Lexemes writes it as a text, and the     *)
(* rest says what its members and elements are.                            *)
(*                                                                         *)
(*   string      [type |-> "string", text |-> t]                           *)
(*   primitive   [type |-> "primitive", text |-> t]                        *)
(*   array       [type |-> "array", items |-> <<document, ...>>]           *)
(*   object      [type |-> "object", items |-> <<[key, value], ...>>]      *)
(***************************************************************************)
EXTENDS Naturals, Sequences, SequencesExt

StringDoc(text) == [type |-> "string", text |-> text]
PrimitiveDoc(text) == [type |-> "primitive", text |-> text]
ArrayDoc(items) == [type |-> "array", items |-> items]
ObjectDoc(items) == [type |-> "object", items |-> items]
Member(key, value) == [key |-> key, value |-> value]

(* There is nothing of that name, or at that index. *)
Absent == [type |-> "absent"]

Lexeme(kind, text) == [kind |-> kind, text |-> text]
Sign(kind) == Lexeme(kind, kind)

(* The items with a comma between every two of them. *)
Separated(parts) ==
  FoldLeft(LAMBDA text, part : IF text = <<>> THEN part ELSE text \o <<Sign(",")>> \o part,
           <<>>, parts)

RECURSIVE Lexemes(_)
Lexemes(doc) ==
  CASE doc.type \in {"string", "primitive"} -> <<Lexeme(doc.type, doc.text)>>
    [] doc.type = "array" ->
         <<Sign("[")>>
           \o Separated([n \in DOMAIN doc.items |-> Lexemes(doc.items[n])])
           \o <<Sign("]")>>
    [] doc.type = "object" ->
         <<Sign("{")>>
           \o Separated([n \in DOMAIN doc.items |->
                           <<Lexeme("string", doc.items[n].key), Sign(":")>>
                             \o Lexemes(doc.items[n].value)])
           \o <<Sign("}")>>

(* A token for every object, array, key, string and primitive. *)
RECURSIVE Tokens(_)
Tokens(doc) ==
  CASE doc.type \in {"string", "primitive"} -> 1
    [] doc.type = "array" ->
         FoldLeft(LAMBDA sum, item : sum + Tokens(item), 1, doc.items)
    [] doc.type = "object" ->
         FoldLeft(LAMBDA sum, item : sum + 1 + Tokens(item.value), 1, doc.items)

(* The same text with white space around every lexeme. *)
Spaced(text) ==
  FoldLeft(LAMBDA spaced, lexeme : spaced \o <<lexeme, Sign("ws")>>,
           <<Sign("ws")>>, text)

(* The value of the first member of that name. *)
MemberOf(doc, name) ==
  LET named == {n \in DOMAIN doc.items : doc.items[n].key = name}
  IN  IF doc.type # "object" \/ named = {} THEN Absent
      ELSE doc.items[CHOOSE n \in named : \A m \in named : n <= m].value

(* Elements are counted from 0. *)
ElementOf(doc, index) ==
  IF doc.type # "array" \/ index >= Len(doc.items) THEN Absent
  ELSE doc.items[index + 1]
===============================================================================
