---------------------------------- MODULE Jsmn ----------------------------------
(***************************************************************************)
(* managed_components/espressif__jsmn/include/jsmn.h: the tokenizer under  *)
(* the JSON bodies of the web requests, as json_parser.c configures it     *)
(* (JSMN_STRICT and JSMN_PARENT_LINKS).                                    *)
(*                                                                         *)
(* A text is a sequence of lexemes: a bracket, a colon, a comma, white     *)
(* space, a whole string, or the first characters of a primitive.  Four    *)
(* more kinds make texts that are no JSON: a string whose end is missing,  *)
(* one with a wrong escape sequence, a printable character no token begins *)
(* with, and a control character.                                          *)
(* Tokens are numbered from 1, and 0 stands for the code's -1.             *)
(***************************************************************************)
EXTENDS Naturals, Integers, Sequences, SequencesExt

JSMN_ERROR_NOMEM == -1
JSMN_ERROR_INVAL == -2
JSMN_ERROR_PART == -3

NoToken == 0
Unset == 0     \* the -1 of a token's end: the token is still open

(* In strict mode these end a primitive; a colon, for one, does not. *)
EndsPrimitive == {"ws", ",", "]", "}"}

(* The parser's members, the token array, and what jsmn_parse returns: 0    *)
(* while it runs, an error otherwise.  toknext is the length of tokens.     *)
jsmn_init ==
  [pos |-> 1, toksuper |-> NoToken, tokens |-> <<>>, count |-> 0, error |-> 0]

Fail(parser, error) == [parser EXCEPT !.error = error]

Counted(parser) == [parser EXCEPT !.count = @ + 1]

(* What jsmn_alloc_token and jsmn_fill_token make of the next token. *)
NewToken(parser, type, start, end) ==
  [type |-> type, start |-> start, end |-> end, size |-> 0,
   parent |-> parser.toksuper]

(* The token is appended and its superior token counts it. *)
AddToken(parser, token) ==
  LET super == parser.toksuper
      counted == IF super = NoToken THEN parser.tokens
                 ELSE [parser.tokens EXCEPT ![super].size = @ + 1]
  IN  [parser EXCEPT !.tokens = Append(counted, token)]

-------------------------------------------------------------------------------
(* One operator per kind of lexeme: what the loop of jsmn_parse does when   *)
(* it finds one at position i.  `room' is num_tokens, or Counting in the    *)
(* pass that has no tokens and counts only.                                 *)

Counting == -1

HasRoom(parser, room) == Len(parser.tokens) < room

(* '{' and '['.  The superior token of what is inside is the new one. *)
OpenBracket(parser, i, type, room) ==
  LET super == parser.toksuper
      opened == AddToken(Counted(parser), NewToken(parser, type, i, Unset))
  IN  IF room = Counting THEN Counted(parser)
      ELSE IF ~HasRoom(parser, room) THEN Fail(parser, JSMN_ERROR_NOMEM)
      ELSE IF super # NoToken /\ parser.tokens[super].type = "object"
        THEN Fail(parser, JSMN_ERROR_INVAL)
      ELSE [opened EXCEPT !.toksuper = Len(opened.tokens)]

(* The walk over the parent links from the last token: to the innermost one *)
(* that is open, or to an outermost one.                                    *)
Enclosing(tokens) ==
  LET up[k \in DOMAIN tokens] ==
        IF tokens[k].end = Unset \/ tokens[k].parent = NoToken
          THEN k ELSE up[tokens[k].parent]
  IN  up[Len(tokens)]

(* '}' and ']'. *)
CloseBracket(parser, i, type, room) ==
  IF room = Counting THEN parser
  ELSE IF parser.tokens = <<>> THEN Fail(parser, JSMN_ERROR_INVAL)
  ELSE LET k == Enclosing(parser.tokens)
           found == parser.tokens[k]
       IN  IF found.type # type THEN Fail(parser, JSMN_ERROR_INVAL)
           ELSE IF found.end = Unset
             THEN [parser EXCEPT !.tokens[k].end = i + 1,
                                 !.toksuper = found.parent]
           ELSE IF parser.toksuper = NoToken
             THEN Fail(parser, JSMN_ERROR_INVAL)
           ELSE parser

(* jsmn_parse_string: the whole string is one lexeme. *)
jsmn_parse_string(parser, i, room) ==
  IF room = Counting THEN Counted(parser)
  ELSE IF ~HasRoom(parser, room) THEN Fail(parser, JSMN_ERROR_NOMEM)
  ELSE AddToken(Counted(parser), NewToken(parser, "string", i, i + 1))

(* A primitive must not be a key of an object, nor a second value of a key. *)
MayHoldPrimitive(parser) ==
  \/ parser.toksuper = NoToken
  \/ LET super == parser.tokens[parser.toksuper]
     IN  super.type # "object" /\ (super.type # "string" \/ super.size = 0)

(* Faulty variant: the counting pass leaves out primitives. *)
jsmn_parse_primitive_uncounted(parser, text, i, room) ==
  LET end == SelectInSeq(SubSeq(text, i + 1, Len(text)),
                         LAMBDA lexeme : lexeme.kind \in EndsPrimitive \cup {"control"})
  IN  IF end = 0 THEN Fail(parser, JSMN_ERROR_PART)
      ELSE IF text[i + end].kind = "control" THEN Fail(parser, JSMN_ERROR_INVAL)
      ELSE IF room = Counting THEN [parser EXCEPT !.pos = i + end]
      ELSE IF ~HasRoom(parser, room) THEN Fail(parser, JSMN_ERROR_NOMEM)
      ELSE [AddToken(Counted(parser), NewToken(parser, "primitive", i, i + end))
              EXCEPT !.pos = i + end]

(* jsmn_parse_primitive: everything up to one of EndsPrimitive belongs to   *)
(* it, and strict mode wants such an end.                                   *)
jsmn_parse_primitive(parser, text, i, room) ==
  LET end == SelectInSeq(SubSeq(text, i + 1, Len(text)),
                         LAMBDA lexeme : lexeme.kind \in EndsPrimitive \cup {"control"})
      parsed == [Counted(parser) EXCEPT !.pos = i + end]
  IN  IF end = 0 THEN Fail(parser, JSMN_ERROR_PART)
      ELSE IF text[i + end].kind = "control" THEN Fail(parser, JSMN_ERROR_INVAL)
      ELSE IF room = Counting THEN parsed
      ELSE IF ~HasRoom(parser, room) THEN Fail(parser, JSMN_ERROR_NOMEM)
      ELSE AddToken(parsed, NewToken(parser, "primitive", i, i + end))

Primitive(parser, text, i, room) ==
  IF room # Counting /\ ~MayHoldPrimitive(parser)
    THEN Fail(parser, JSMN_ERROR_INVAL)
    ELSE jsmn_parse_primitive(parser, text, i, room)

(* ':' makes the token before it the superior one. *)
Colon(parser) == [parser EXCEPT !.toksuper = Len(parser.tokens)]

(* ',' goes back from a key to the object it stands in. *)
Comma(parser, room) ==
  LET super == parser.toksuper
  IN  IF room # Counting /\ super # NoToken
         /\ parser.tokens[super].type \notin {"array", "object"}
        THEN [parser EXCEPT !.toksuper = parser.tokens[super].parent]
        ELSE parser

(* One turn of the loop; a primitive has moved pos past what it took. *)
ParseLexeme(text, room, parser, i) ==
  LET kind == text[i].kind
      next == [parser EXCEPT !.pos = i + 1]
  IN  IF parser.error # 0 \/ i < parser.pos THEN parser ELSE
      CASE kind = "{" -> OpenBracket(next, i, "object", room)
        [] kind = "[" -> OpenBracket(next, i, "array", room)
        [] kind = "}" -> CloseBracket(next, i, "object", room)
        [] kind = "]" -> CloseBracket(next, i, "array", room)
        [] kind = "string" -> jsmn_parse_string(next, i, room)
        [] kind = "openString" -> Fail(next, JSMN_ERROR_PART)
        [] kind = "primitive" -> Primitive(next, text, i, room)
        [] kind = ":" -> Colon(next)
        [] kind = "," -> Comma(next, room)
        [] kind = "ws" -> next
        [] kind \in {"badString", "printable", "control"} ->
             Fail(next, JSMN_ERROR_INVAL)

(* After the loop: a bracket may still be open. *)
AllClosed(parser) ==
  IF parser.error = 0 /\ \E k \in DOMAIN parser.tokens : parser.tokens[k].end = Unset
    THEN Fail(parser, JSMN_ERROR_PART)
    ELSE parser

(* The loop, turn by turn. *)
jsmn_parse(text, room) ==
  LET after[turns \in 0 .. Len(text)] ==
        IF turns = 0 THEN jsmn_init
        ELSE ParseLexeme(text, room, after[turns - 1], turns)
  IN  AllClosed(after[Len(text)])

(* What the code returns: the error, or the number of tokens. *)
Returned(parser) == IF parser.error # 0 THEN parser.error ELSE parser.count
===============================================================================
