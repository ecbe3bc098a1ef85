------------------------------- MODULE JsonRequests -------------------------------
(***************************************************************************)
(* The JSON parser in use: by the two request handlers of                  *)
(* components/Application/http_requests that take a JSON body, and by a    *)
(* client that walks through a document as test_json_parser.c does.        *)
(*                                                                         *)
(* A handler runs to its end in the one thread of the web server, so that  *)
(* it is one action; `calls' is what it has asked of the rest of the       *)
(* program.  It reads the body with a single call, which returns what has  *)
(* arrived: the whole text or a first part of it.                          *)
(***************************************************************************)
EXTENDS JsonParser, JsonDocument

CONSTANTS
  Documents,       \* documents a client walks through
  Bodies,          \* documents sent to the handlers
  OtherTexts,      \* texts that are no document, sent to the handlers
  Names,           \* names that are looked up
  TOKENS_NUMBER,   \* size of the handlers' token buffers (64)
  IP_BUFFER_SIZE   \* size of the buffers for addresses (32)

VARIABLES
  request,   \* the request being handled, NoRequest between two: its body,
             \* what of it the handler has read, whether that is all
  calls,     \* what the handler called
  response,  \* what it answered
  ctx,       \* the client's context, Fails if it has none
  path       \* history: the documents the client has entered, the root first

vars == <<request, calls, response, ctx, path>>

NoText == <<>>
NoRequest == [handler |-> "none", doc |-> Absent, text |-> NoText, whole |-> FALSE]

Handlers == {"lightControllerState", "set_ip"}

Call(function, arguments) == [function |-> function, arguments |-> arguments]

Init ==
  /\ request = NoRequest
  /\ calls = <<>>
  /\ response = "none"
  /\ ctx = Fails
  /\ path = <<>>

-------------------------------------------------------------------------------
(* The handlers. *)

(* A first part of a text, cut between two lexemes or inside a string. *)
Truncations(text) ==
  {SubSeq(text, 1, n) : n \in 0 .. Len(text) - 1}
    \cup {Append(SubSeq(text, 1, n - 1), Lexeme("openString", text[n].text)) :
            n \in {m \in DOMAIN text : text[m].kind = "string"}}

Parse(text) == json_parse_start_static(text, TOKENS_NUMBER)

Answer(function, arguments, responses) ==
  /\ calls' = <<Call(function, arguments)>>
  /\ response' \in responses

Refuse == calls' = <<>> /\ response' = "fail"

(* post_light_controller_state: no state, no call. *)
SetState(state) ==
  \/ state = Fails /\ Refuse
  \/ state = <<TRUE>> /\ Answer("EnableController", <<>>, {"ok"})
  \/ state = <<FALSE>> /\ Answer("DisableController", <<>>, {"ok"})

(* The test for a missing controller is left out: light_controller_state_init *)
(* is called before the handler is registered.                                *)
PostLightControllerState(parsed) ==
  SetState(IF parsed = Fails THEN Fails ELSE json_obj_get_bool(parsed[1], "state"))

(* The three strings, none of which may be missing or too long. *)
Strings(ip, netmask, gateway) ==
  IF Fails \in {ip, netmask, gateway} THEN Fails
  ELSE <<[ip |-> ip[1][1].text, netmask |-> netmask[1][1].text,
          gateway |-> gateway[1][1].text]>>

(* Faulty variant: the gateway is read into the buffer of the netmask. *)
IpStringsSharingBuffer(parsed) ==
  LET Get(name) == json_obj_get_string(parsed, name, IP_BUFFER_SIZE)
      gateway == Get("gateway")
  IN  Strings(Get("ip"), IF gateway = Fails THEN Get("netmask") ELSE gateway, gateway)

IpStrings(parsed) ==
  LET Get(name) == json_obj_get_string(parsed, name, IP_BUFFER_SIZE)
  IN  Strings(Get("ip"), Get("netmask"), Get("gateway"))

(* post_ip_set_handler: network_wifi_set_ip may refuse. *)
SetIp(strings) ==
  \/ strings = Fails /\ Refuse
  \/ strings # Fails /\ Answer("network_wifi_set_ip", strings[1], {"ok", "fail"})

PostSetIp(parsed) ==
  SetIp(IF parsed = Fails THEN Fails ELSE IpStrings(parsed[1]))

(* A request comes for the handler; a walk is not under way. *)
Arrive ==
  /\ request = NoRequest /\ ctx = Fails
  /\ \E handler \in Handlers, doc \in Bodies \cup {Absent} :
       request' = [NoRequest EXCEPT !.handler = handler, !.doc = doc]
  /\ UNCHANGED <<calls, response, ctx, path>>

Handle(text, whole) ==
  /\ request # NoRequest /\ response = "none"
  /\ request' = [request EXCEPT !.text = text, !.whole = whole]
  /\ \/ request.handler = "set_ip" /\ PostSetIp(Parse(text))
     \/ request.handler = "lightControllerState" /\ PostLightControllerState(Parse(text))
  /\ UNCHANGED <<ctx, path>>

HandleDocument ==
  /\ request.doc # Absent
  /\ \E text \in {Lexemes(request.doc), Spaced(Lexemes(request.doc))} :
       Handle(text, TRUE)

HandlePartOfDocument ==
  /\ request.doc # Absent
  /\ \E text \in Truncations(Lexemes(request.doc)) : Handle(text, FALSE)

(* Also what a failed read leaves in the buffer: its result is not tested,  *)
(* and the buffer, never assigned, may hold any text.                       *)
HandleOtherText ==
  /\ request.doc = Absent
  /\ \E text \in OtherTexts : Handle(text, TRUE)

NextRequest ==
  /\ response # "none"
  /\ request' = NoRequest /\ calls' = <<>> /\ response' = "none"
  /\ UNCHANGED <<ctx, path>>

-------------------------------------------------------------------------------
(* The client: it enters objects and arrays and leaves each with the        *)
(* function that belongs to how it was entered.                             *)

Visit(doc, via) == [doc |-> doc, via |-> via]

ParseStart ==
  /\ request = NoRequest /\ ctx = Fails
  /\ \E doc \in Documents, spaced \in BOOLEAN, memory \in BOOLEAN :
       LET text == IF spaced THEN Spaced(Lexemes(doc)) ELSE Lexemes(doc)
       IN  /\ ctx' = json_parse_start(text, memory)
           /\ path' = IF memory THEN <<Visit(doc, "root")>> ELSE <<>>
  /\ UNCHANGED <<request, calls, response>>

(* What the client has entered according to the document. *)
Entered(value, type, via) ==
  IF value.type = type THEN Append(path, Visit(value, via)) ELSE path

GetFromObject ==
  /\ ctx # Fails
  /\ Last(path).doc.type = "object"
  /\ \E name \in Names :
       LET value == MemberOf(Last(path).doc, name)
       IN  \/ /\ ctx' = <<json_obj_get_object(ctx[1], name)>>
              /\ path' = Entered(value, "object", "object")
           \/ /\ ctx' = <<json_obj_get_array(ctx[1], name)>>
              /\ path' = Entered(value, "array", "object")
  /\ UNCHANGED <<request, calls, response>>

GetFromArray ==
  /\ ctx # Fails
  /\ Last(path).doc.type = "array"
  /\ \E index \in 0 .. Len(Last(path).doc.items) :
       LET value == ElementOf(Last(path).doc, index)
       IN  \/ /\ ctx' = <<json_arr_get_object(ctx[1], index)>>
              /\ path' = Entered(value, "object", "array")
           \/ /\ ctx' = <<json_arr_get_array(ctx[1], index)>>
              /\ path' = Entered(value, "array", "array")
  /\ UNCHANGED <<request, calls, response>>

(* Leaving the root fails. *)
Leave ==
  /\ ctx # Fails
  /\ \/ /\ Last(path).via \in {"object", "root"}
        /\ ctx' = <<json_obj_leave(ctx[1])>>
     \/ /\ Last(path).via \in {"array", "root"}
        /\ ctx' = <<json_arr_leave(ctx[1])>>
  /\ path' = IF Len(path) = 1 THEN path ELSE Front(path)
  /\ UNCHANGED <<request, calls, response>>

(* json_parse_end and json_parse_end_static. *)
ParseEnd ==
  /\ ctx # Fails
  /\ ctx' = Fails /\ path' = <<>>
  /\ UNCHANGED <<request, calls, response>>

Next ==
  \/ Arrive
  \/ HandleDocument
  \/ HandlePartOfDocument
  \/ HandleOtherText
  \/ NextRequest
  \/ ParseStart
  \/ GetFromObject
  \/ GetFromArray
  \/ Leave
  \/ ParseEnd

Spec == Init /\ [][Next]_vars

-------------------------------------------------------------------------------
(* Properties. *)

TypeOK ==
  /\ request = NoRequest \/ request.handler \in Handlers
  /\ Len(calls) <= 1
  /\ response \in {"none", "ok", "fail"}
  /\ ctx = Fails \/ ctx[1].cur \in DOMAIN ctx[1].tokens
  /\ path = <<>> <=> ctx = Fails

(* The handlers do what the body says and nothing else: the controller is   *)
(* switched exactly by a state, an address is set exactly if all three      *)
(* strings are there and fit, and a body of more tokens than there is room  *)
(* for, or of which only a part has arrived, has no effect, wherever it was *)
(* cut.                                                                     *)
RequestObeyed ==
  response # "none" /\ request.doc # Absent =>
    LET Value(name) == MemberOf(request.doc, name)
        Fits(name) == Value(name).type = "string"
                      /\ Length[Value(name).text] < IP_BUFFER_SIZE
        IsState(texts) == Value("state").type = "primitive"
                          /\ Value("state").text \in texts
        accepted == /\ request.whole
                    /\ request.doc.type = "object"
                    /\ Tokens(request.doc) <= TOKENS_NUMBER
    IN  calls =
          IF request.handler = "set_ip"
            THEN IF accepted /\ Fits("ip") /\ Fits("netmask") /\ Fits("gateway")
                   THEN <<Call("network_wifi_set_ip",
                               [ip |-> Value("ip").text,
                                netmask |-> Value("netmask").text,
                                gateway |-> Value("gateway").text])>>
                   ELSE <<>>
          ELSE IF accepted /\ IsState({"true", "1"})
            THEN <<Call("EnableController", <<>>)>>
          ELSE IF accepted /\ IsState({"false", "0"})
            THEN <<Call("DisableController", <<>>)>>
          ELSE <<>>

(* The pass that fills the tokens never finds them too few, whatever the    *)
(* text: both passes find the same tokens although only the second looks at *)
(* the structure.                                                           *)
PassesAgree ==
  response # "none" =>
    LET counted == jsmn_parse(request.text, Counting)
        filled == SecondPass(request.text, counted.count)
    IN  /\ filled.error # JSMN_ERROR_NOMEM
        /\ filled.error = 0 => counted.error = 0
                               /\ Len(filled.tokens) = counted.count

Inner(text) == SelectSeq(text, LAMBDA lexeme : lexeme.kind # "ws")

(* A walk through a document is never lost: after any sequence of entering  *)
(* and leaving the context stands at the document the walk has led to.      *)
CursorFollowsWalk ==
  /\ TypeOK
  /\ ctx # Fails =>
       LET cur == ctx[1].tokens[ctx[1].cur]
       IN  Inner(SubSeq(ctx[1].js, cur.start, cur.end - 1)) = Lexemes(Last(path).doc)

InRange(n, bits) == n \in -(2^(bits - 1)) .. 2^(bits - 1) - 1

(* Every getter for a value finds it and converts it, at any depth and      *)
(* past any elements before it; of two members of one name it is the first. *)
(* An integer comes out as it is if it fits.                                *)
ValueRead(value, bool, int, int64, float, string, strlen) ==
  LET text == IF value.type \in {"primitive", "string"} THEN value.text ELSE ""
  IN  IF value.type = "primitive"
        THEN /\ bool = IF text \in {"true", "1"} THEN <<TRUE>>
                       ELSE IF text \in {"false", "0"} THEN <<FALSE>> ELSE Fails
             /\ IF text \in DOMAIN Integer
                  THEN /\ InRange(Integer[text], IntBits) => int = <<Integer[text]>>
                       /\ InRange(Integer[text], 2 * IntBits) => int64 = <<Integer[text]>>
                       /\ float = <<text>>
                  ELSE int = Fails /\ int64 = Fails
             /\ string = Fails /\ strlen = Fails
        ELSE /\ {bool, int, int64, float} = {Fails}
             /\ IF value.type = "string"
                  THEN /\ string = IF Length[text] < IP_BUFFER_SIZE
                                     THEN <<<<Lexeme("string", text)>>>> ELSE Fails
                       /\ strlen = <<Length[text]>>
                  ELSE string = Fails /\ strlen = Fails

(* The text of a member that is an object or array is that text, with the   *)
(* length json_obj_get_object_strlen and json_obj_get_array_strlen tell.    *)
TextRead(c, name, value) ==
  \A type \in {"object", "array"} :
    LET length == json_obj_get_textlen(c, name, type)
    IN  IF value.type # type THEN length = Fails
        ELSE /\ Inner(json_obj_get_text(c, name, type, length[1] + 1)[1]) = Lexemes(value)
             /\ json_obj_get_text(c, name, type, length[1]) = Fails

LookupsMatchDocument ==
  ctx # Fails =>
    LET c == ctx[1]
        doc == Last(path).doc
    IN  /\ \A name \in Names :
             /\ ValueRead(MemberOf(doc, name),
                  json_obj_get_bool(c, name), json_obj_get_int(c, name),
                  json_obj_get_int64(c, name), json_obj_get_float(c, name),
                  json_obj_get_string(c, name, IP_BUFFER_SIZE),
                  json_obj_get_strlen(c, name))
             /\ TextRead(c, name, MemberOf(doc, name))
        /\ \A index \in 0 .. 3 :
             ValueRead(ElementOf(doc, index),
               json_arr_get_bool(c, index), json_arr_get_int(c, index),
               json_arr_get_int64(c, index), json_arr_get_float(c, index),
               json_arr_get_string(c, index, IP_BUFFER_SIZE),
               json_arr_get_strlen(c, index))
===============================================================================
