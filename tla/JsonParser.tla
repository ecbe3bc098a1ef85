-------------------------------- MODULE JsonParser --------------------------------
(***************************************************************************)
(* managed_components/espressif__json_parser/src/json_parser.c: reading    *)
(* values out of the tokens of a JSON text.                                *)
(*                                                                         *)
(* A context is a record: the text, its tokens, and the token `cur' that   *)
(* names are looked up in.  A function that fails leaves no value; a value *)
(* found is <<value>>, and <<>> stands for a failure.                      *)
(***************************************************************************)
EXTENDS Jsmn

CONSTANTS
  Length,      \* text of a string or primitive -> its number of characters
  Integer,     \* text of a primitive that is an integer -> its value
  Fractions,   \* texts of primitives that only strtof takes to their end
  IntBits      \* width of int and of unsigned long (32 on the target)

ASSUME IntBitsAssumption == IntBits \in Nat \ {0, 1}

NotFound == 0
Fails == <<>>

(* A token of the buffer that jsmn has not used. *)
ZeroToken == [type |-> "undefined", start |-> 0, end |-> 0, size |-> 0, parent |-> 0]

-------------------------------------------------------------------------------
(* Starting and ending. *)

(* The pass that fills as many tokens as the first pass has counted. *)
SecondPass(text, num_tokens) == jsmn_parse(text, num_tokens)

FirstPass(text) == Returned(jsmn_parse(text, Counting))

Context(text, parser) ==
  IF Returned(parser) <= 0 THEN Fails
  ELSE <<[js |-> text, tokens |-> parser.tokens, cur |-> 1]>>

(* calloc may fail. *)
StartAllocated(text, num_tokens, memory) ==
  IF num_tokens <= 0 \/ ~memory THEN Fails
  ELSE Context(text, SecondPass(text, num_tokens))

json_parse_start(text, memory) == StartAllocated(text, FirstPass(text), memory)

(* The caller's buffer, which is cleared first, has to be large enough. *)
Padded(ctx, unused) ==
  IF ctx = Fails THEN Fails
  ELSE <<[ctx[1] EXCEPT !.tokens = @ \o [k \in 1 .. unused |-> ZeroToken]]>>

StartInBuffer(text, num_tokens, buffer_tokens_max_count) ==
  IF num_tokens <= 0 \/ num_tokens > buffer_tokens_max_count THEN Fails
  ELSE Padded(Context(text, SecondPass(text, num_tokens)),
              buffer_tokens_max_count - num_tokens)

json_parse_start_static(text, buffer_tokens_max_count) ==
  StartInBuffer(text, FirstPass(text), buffer_tokens_max_count)

-------------------------------------------------------------------------------
(* Searching. *)

(* In strict mode a primitive goes on to the next of EndsPrimitive; what has *)
(* swallowed a further lexeme is equal to no text that is looked for.        *)
TextOf(ctx, tok) ==
  LET token == ctx.tokens[tok]
  IN  IF token.end = token.start + 1 THEN ctx.js[token.start].text
      ELSE "several lexemes"

token_matches_str(ctx, tok, str) ==
  ctx.tokens[tok].type \in {"string", "primitive"} /\ TextOf(ctx, tok) = str

(* The last token of the element that begins with `token'. *)
json_skip_elem(ctx, token) ==
  LET last[k \in DOMAIN ctx.tokens, children \in Nat] ==
        IF children = 0 THEN k
        ELSE LET child == last[k, children - 1] + 1
             IN  last[child, ctx.tokens[child].size]
  IN  last[token, ctx.tokens[token].size]

(* The token of the key, among the keys of the object at `cur'. *)
FirstMatch(ctx, key, keyTokens) ==
  LET matching == {n \in DOMAIN keyTokens : token_matches_str(ctx, keyTokens[n], key)}
  IN  IF matching = {} THEN NotFound
      ELSE keyTokens[CHOOSE n \in matching : \A other \in matching : n <= other]

KeyTokens(ctx) ==
  LET keyToken[n \in 1 .. ctx.tokens[ctx.cur].size] ==
        IF n = 1 THEN ctx.cur + 1 ELSE json_skip_elem(ctx, keyToken[n - 1]) + 1
  IN  keyToken

json_obj_search(ctx, key) ==
  IF ctx.tokens[ctx.cur].type # "object" THEN NotFound
  ELSE FirstMatch(ctx, key, KeyTokens(ctx))

OfType(ctx, tok, type) ==
  IF tok # NotFound /\ ctx.tokens[tok].type = type THEN tok ELSE NotFound

(* The value of a key is the token after it. *)
ValueToken(key) == IF key = NotFound THEN NotFound ELSE key + 1

json_obj_get_val_tok(ctx, name, type) ==
  OfType(ctx, ValueToken(json_obj_search(ctx, name)), type)

json_arr_search(ctx, index) ==
  LET array == ctx.tokens[ctx.cur]
      element[n \in 0 .. index] ==
        IF n = 0 THEN ctx.cur + 1 ELSE json_skip_elem(ctx, element[n - 1]) + 1
  IN  IF array.type # "array" \/ array.size = 0 \/ index > array.size - 1
        THEN NotFound ELSE element[index]

json_arr_get_val_tok(ctx, index, type) == OfType(ctx, json_arr_search(ctx, index), type)

-------------------------------------------------------------------------------
(* Conversions. *)

json_tok_to_bool(ctx, tok) ==
  CASE TextOf(ctx, tok) \in {"true", "1"} -> <<TRUE>>
    [] TextOf(ctx, tok) \in {"false", "0"} -> <<FALSE>>
    [] OTHER -> Fails

(* strtoul and strtoull: a negative number is taken modulo 2^bits, and one  *)
(* of too large a magnitude becomes the largest.                            *)
Unsigned(n, bits) ==
  IF n \in 1 - 2^bits .. 2^bits - 1 THEN n % 2^bits ELSE 2^bits - 1

(* Assigned to a signed integer of that width. *)
Signed(n, bits) == IF n >= 2^(bits - 1) THEN n - 2^bits ELSE n

ToSigned(ctx, tok, bits) ==
  LET text == TextOf(ctx, tok)
  IN  IF text \in DOMAIN Integer
        THEN <<Signed(Unsigned(Integer[text], bits), bits)>> ELSE Fails

json_tok_to_int(ctx, tok) == ToSigned(ctx, tok, IntBits)

(* Faulty variant: strtoul, which is half as wide, in the place of strtoull. *)
json_tok_to_int64_by_strtoul(ctx, tok) ==
  LET text == TextOf(ctx, tok)
  IN  IF text \in DOMAIN Integer
        THEN <<Signed(Unsigned(Integer[text], IntBits), 2 * IntBits)>> ELSE Fails

json_tok_to_int64(ctx, tok) == ToSigned(ctx, tok, 2 * IntBits)

(* The value is that of the text, to the precision of a float. *)
json_tok_to_float(ctx, tok) ==
  LET text == TextOf(ctx, tok)
  IN  IF text \in DOMAIN Integer \cup Fractions THEN <<text>> ELSE Fails

LexemeLength(lexeme) ==
  CASE lexeme.kind = "string" -> Length[lexeme.text] + 2
    [] lexeme.kind = "primitive" -> Length[lexeme.text]
    [] OTHER -> 1

(* A string is counted without its quotes, an object or array with all it   *)
(* consists of.                                                             *)
Characters(ctx, tok) ==
  LET token == ctx.tokens[tok]
  IN  IF token.type = "string" THEN Length[TextOf(ctx, tok)]
      ELSE FoldLeft(LAMBDA sum, lexeme : sum + LexemeLength(lexeme), 0,
                    SubSeq(ctx.js, token.start, token.end - 1))

(* Room for the characters and the terminating zero.  The value is a range  *)
(* of lexemes of the text.                                                  *)
json_tok_to_string(ctx, tok, size) ==
  LET token == ctx.tokens[tok]
  IN  IF Characters(ctx, tok) > size - 1
        THEN Fails
        ELSE <<SubSeq(ctx.js, token.start, token.end - 1)>>

-------------------------------------------------------------------------------
(* The getters: a lookup, the test of its type, and the conversion. *)

Convert(tok, Conversion(_)) == IF tok = NotFound THEN Fails ELSE Conversion(tok)

json_obj_get_bool(ctx, name) ==
  Convert(json_obj_get_val_tok(ctx, name, "primitive"),
          LAMBDA tok : json_tok_to_bool(ctx, tok))

json_obj_get_int(ctx, name) ==
  Convert(json_obj_get_val_tok(ctx, name, "primitive"),
          LAMBDA tok : json_tok_to_int(ctx, tok))

json_obj_get_int64(ctx, name) ==
  Convert(json_obj_get_val_tok(ctx, name, "primitive"),
          LAMBDA tok : json_tok_to_int64(ctx, tok))

json_obj_get_float(ctx, name) ==
  Convert(json_obj_get_val_tok(ctx, name, "primitive"),
          LAMBDA tok : json_tok_to_float(ctx, tok))

json_obj_get_string(ctx, name, size) ==
  Convert(json_obj_get_val_tok(ctx, name, "string"),
          LAMBDA tok : json_tok_to_string(ctx, tok, size))

json_obj_get_strlen(ctx, name) ==
  Convert(json_obj_get_val_tok(ctx, name, "string"),
          LAMBDA tok : <<Characters(ctx, tok)>>)

(* The text of a whole object or array; type is "object" or "array". *)
json_obj_get_text(ctx, name, type, size) ==
  Convert(json_obj_get_val_tok(ctx, name, type),
          LAMBDA tok : json_tok_to_string(ctx, tok, size))

json_obj_get_textlen(ctx, name, type) ==
  Convert(json_obj_get_val_tok(ctx, name, type),
          LAMBDA tok : <<Characters(ctx, tok)>>)

json_arr_get_bool(ctx, index) ==
  Convert(json_arr_get_val_tok(ctx, index, "primitive"),
          LAMBDA tok : json_tok_to_bool(ctx, tok))

json_arr_get_int(ctx, index) ==
  Convert(json_arr_get_val_tok(ctx, index, "primitive"),
          LAMBDA tok : json_tok_to_int(ctx, tok))

json_arr_get_int64(ctx, index) ==
  Convert(json_arr_get_val_tok(ctx, index, "primitive"),
          LAMBDA tok : json_tok_to_int64(ctx, tok))

json_arr_get_float(ctx, index) ==
  Convert(json_arr_get_val_tok(ctx, index, "primitive"),
          LAMBDA tok : json_tok_to_float(ctx, tok))

json_arr_get_string(ctx, index, size) ==
  Convert(json_arr_get_val_tok(ctx, index, "string"),
          LAMBDA tok : json_tok_to_string(ctx, tok, size))

json_arr_get_strlen(ctx, index) ==
  Convert(json_arr_get_val_tok(ctx, index, "string"),
          LAMBDA tok : <<Characters(ctx, tok)>>)

-------------------------------------------------------------------------------
(* Entering and leaving: the functions that move cur, each returning the    *)
(* new context.  Entering what is not there leaves cur where it is.         *)

EnterAt(ctx, tok) == [ctx EXCEPT !.cur = IF tok = NotFound THEN @ ELSE tok]

json_obj_get_object(ctx, name) == EnterAt(ctx, json_obj_get_val_tok(ctx, name, "object"))

json_obj_get_array(ctx, name) == EnterAt(ctx, json_obj_get_val_tok(ctx, name, "array"))

json_arr_get_object(ctx, index) == EnterAt(ctx, json_arr_get_val_tok(ctx, index, "object"))

json_arr_get_array(ctx, index) == EnterAt(ctx, json_arr_get_val_tok(ctx, index, "array"))

(* json_arr_leave_object and json_arr_leave_array: to the parent token. *)
json_arr_leave(ctx) ==
  [ctx EXCEPT !.cur = IF ctx.tokens[@].parent = NoToken THEN @ ELSE ctx.tokens[@].parent]

(* Faulty variant: only one link is followed. *)
json_obj_leave_to_key(ctx) == json_arr_leave(ctx)

(* json_obj_leave_object and json_obj_leave_array: to the key, which stays  *)
(* if the second link is missing, and on to the object of the key.          *)
json_obj_leave(ctx) == json_arr_leave(json_arr_leave(ctx))
===============================================================================
