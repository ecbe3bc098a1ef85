----------------------------- MODULE MCJsonRequests -----------------------------
(* Instance of JsonRequests for TLC: documents of up to two items at each    *)
(* level, bodies with the names the handlers look for, and every text of up  *)
(* to three lexemes and every one of four that begins an object.             *)
EXTENDS JsonRequests

Fraction == "2.0"
Long == "a string longer than an address"

MCInteger == [text \in {"0", "1", "9", "-3"} |->
                CASE text = "0" -> 0 [] text = "1" -> 1
                  [] text = "9" -> 9 [] text = "-3" -> -3]

Texts == {"true", "false", "0", "1", "9", "-3", Fraction, "A", "B", "C", Long,
          "state", "ip", "netmask", "gateway"}
MCLength == [text \in Texts |->
               CASE text \in {"0", "1", "9", "A", "B", "C"} -> 1
                 [] text = "-3" -> 2 [] text = Fraction -> 3
                 [] text = "true" -> 4 [] text = "false" -> 5
                 [] text \in {"state", "ip", "netmask", "gateway"} -> 6
                 [] text = Long -> 8]
MCFractions == {Fraction}

MCNames == {"state", "ip"}

(* Objects and arrays of up to two items from the given documents. *)
ObjectsOf(values) ==
  {ObjectDoc(items) : items \in
     UNION {[1 .. n -> {Member(k, v) : k \in MCNames, v \in values}] : n \in 0 .. 2}}
ArraysOf(values) ==
  {ArrayDoc(items) : items \in UNION {[1 .. n -> values] : n \in 0 .. 2}}

Leaves == {PrimitiveDoc("-3"), StringDoc("state")}
Inside == ObjectsOf({PrimitiveDoc("9")}) \cup ArraysOf(Leaves)

(* Two levels below the root, of everything; four levels, of some. *)
Nested(doc) ==
  ArrayDoc(<<ObjectDoc(<<Member("ip", doc), Member("state", ArrayDoc(<<doc, doc>>))>>),
             PrimitiveDoc("true")>>)

MCDocuments ==
  ObjectsOf(Inside \cup Leaves) \cup ArraysOf(Inside \cup Leaves)
    \cup {Nested(doc) : doc \in ObjectsOf(Leaves) \cup Inside}
    \cup {ObjectDoc(<<Member("state", StringDoc(Long)), Member("ip", Nested(doc))>>) :
             doc \in Inside}

(* One member per name the handlers look for, in every order, some missing, *)
(* some of a wrong type.                                                    *)
StateBodies ==
  {ObjectDoc(<<Member(first, PrimitiveDoc(a)), Member("state", b)>>) :
     first \in {"state", "ip"}, a \in {"1", "9"},
     b \in {PrimitiveDoc(t) : t \in {"true", "false", "0", "1", "9", Fraction}}
           \cup {StringDoc("A"), ObjectDoc(<<Member("state", PrimitiveDoc("1"))>>)}}

(* The strings tell in which place they stood. *)
IpNames == {"ip", "netmask", "gateway"}
IpValues(place) == {StringDoc(place), StringDoc(Long), PrimitiveDoc("9")}
IpBodies ==
  {ObjectDoc(<<Member(names[1], a), Member(names[2], b), Member(names[3], c)>>) :
     names \in [1 .. 3 -> IpNames],
     a \in IpValues("A"), b \in IpValues("B"), c \in IpValues("C")}

(* One token too many. *)
LongBodies ==
  {ObjectDoc(<<Member("state", PrimitiveDoc("1")), Member("ip", StringDoc("A")),
               Member("netmask", StringDoc("B")), Member("gateway", value)>>) :
     value \in {StringDoc("C"), PrimitiveDoc("9")}}

MCBodies == StateBodies \cup IpBodies \cup LongBodies
              \cup {ObjectDoc(<<>>), ArrayDoc(<<PrimitiveDoc("1")>>)}

AnyLexeme ==
  {Sign(kind) : kind \in {"{", "}", "[", "]", ":", ",", "ws", "openString",
                          "badString", "printable", "control"}}
    \cup {Lexeme("string", "state"), Lexeme("primitive", "1")}

MCOtherTexts ==
  UNION {[1 .. n -> AnyLexeme] : n \in 0 .. 3}
    \cup {<<Sign("{")>> \o text : text \in [1 .. 3 -> AnyLexeme]}
===============================================================================
