------------------------------- MODULE Dialogue -------------------------------
(***************************************************************************)
(* A conversation with tools through the gateway: the client sends the     *)
(* whole transcript, in OpenAI's dialect, with every request, and any      *)
(* provider may serve any turn.  OpenAI gets it as it is; for Gemini and   *)
(* Ollama it is translated, and so is their answer.                        *)
(*                                                                         *)
(* A message is [role, content, calls, answers]: content is                *)
(*   "none" absent, null or ""     "text"          "image" inline data     *)
(*   "link" an image that is not inline            "odd" no known shape    *)
(* calls the tool calls of an assistant, [id, fn], and answers the id a    *)
(* tool message replies to.  Generation parameters, tool declarations and  *)
(* the response format are copied or dropped one by one; they are left     *)
(* out, as are arguments and wording.                                      *)
(***************************************************************************)
EXTENDS Integers, Sequences, FiniteSets, SequencesExt

CONSTANTS
  Tools,         \* the functions a model may call
  Contents,      \* what users send, of the kinds above
  MaxMessages,   \* bound: length of a transcript
  MaxCalls,      \* bound: tool calls in one answer
  Silence        \* nothing sent, nothing answered

ASSUME DialogueAssumption == {MaxMessages, MaxCalls} \subseteq Nat

VARIABLES
  transcript,
  ids,         \* tool-call ids handed out: randomID makes them fresh
  sent         \* the upstream request just made: [provider, length, body]

dialogueVars == <<transcript, ids, sent>>

Message(role, content, calls, answers) ==
  [role |-> role, content |-> content, calls |-> calls, answers |-> answers]

DialogueInit == transcript = <<>> /\ ids = 0 /\ sent = Silence

-----------------------------------------------------------------------------
(* Requests *)

(* decodeContentParts: what is not text or inline data is dropped. *)
Parts(content) == IF content \in {"text", "image"} THEN <<[kind |-> content]>> ELSE <<>>

(* The function an id was handed out for, among the messages before. *)
NamesOfLast(ms, i, id) ==
  {c.fn : c \in UNION {ToSet(ms[j].calls) : j \in {i - 1} \cap DOMAIN ms} \cap [id : {id}, fn : Tools]}
ToolCallNames_LastOnly(ms, i, id) ==
  IF NamesOfLast(ms, i, id) = {} THEN "" ELSE CHOOSE fn \in NamesOfLast(ms, i, id) : TRUE
ToolCallNames(ms, i, id) ==
  LET named == {c \in UNION {ToSet(ms[j].calls) : j \in 1..i-1} : c.id = id}
  IN IF named = {} THEN "" ELSE (CHOOSE c \in named : TRUE).fn

(* buildGeminiRequest: system and developer messages become the system     *)
(* instruction, a tool's answer a functionResponse of the user, and a role *)
(* it does not know nothing at all.                                        *)
GeminiContent(ms, i) ==
  LET m == ms[i]
  IN CASE m.role = "user" -> <<[role |-> "user", parts |-> Parts(m.content)]>>
       [] m.role = "assistant" ->
            <<[role |-> "model", parts |-> Parts(m.content) \o
                 [k \in DOMAIN m.calls |-> [kind |-> "functionCall", name |-> m.calls[k].fn]]]>>
       [] m.role = "tool" ->
            <<[role |-> "user", parts |->
                 <<[kind |-> "functionResponse", name |-> ToolCallNames(ms, i, m.answers)]>>]>>
       [] OTHER -> <<>>
BuildGeminiRequest(ms) ==
  [system |-> FlattenSeq([i \in DOMAIN ms |->
                IF ms[i].role \in {"system", "developer"} THEN Parts(ms[i].content) ELSE <<>>]),
   contents |-> FlattenSeq([i \in DOMAIN ms |-> GeminiContent(ms, i)])]

(* buildOllamaRequest: message by message, without the id a tool's answer  *)
(* carries.                                                                *)
BuildOllamaRequest(ms) ==
  [i \in DOMAIN ms |-> [role |-> ms[i].role, parts |-> Parts(ms[i].content),
                        calls |-> [k \in DOMAIN ms[i].calls |-> ms[i].calls[k].fn]]]

(* A message of no known shape fails the request.  Gemini's builder does   *)
(* not look at the content of a tool's answer or of an unknown role.       *)
Translatable(provider, ms) ==
  \A i \in DOMAIN ms : ms[i].content = "odd" =>
    \/ provider = "openai"
    \/ provider = "gemini" /\ ms[i].role \notin {"system", "developer", "user", "assistant"}

(* CanonicalRequest.JSON: OpenAI gets the messages as they came. *)
Build(provider, ms) ==
  CASE provider = "openai" -> ms
    [] provider = "gemini" -> BuildGeminiRequest(ms)
    [] provider = "ollama" -> BuildOllamaRequest(ms)

-----------------------------------------------------------------------------
(* Answers *)

(* parseGeminiResponse, parseOllamaResponse: content is null when there    *)
(* are only tool calls; each call gets a fresh id.                         *)
Parsed(text, fns) ==
  Message("assistant", IF text THEN "text" ELSE "none",
          [k \in DOMAIN fns |-> [id |-> ids + k, fn |-> fns[k]]], 0)

(* One turn: the transcript is built for the provider and its answer       *)
(* parsed, whole or from the chunks of a stream, which add up to the same  *)
(* message.                                                                *)
Serve(provider) ==
  /\ transcript # <<>> /\ Len(transcript) < MaxMessages
  /\ Last(transcript).role # "assistant"
  /\ Translatable(provider, transcript)
  /\ \E n \in 0..MaxCalls, text \in BOOLEAN : \E fns \in [1..n -> Tools] :
       /\ transcript' = Append(transcript, Parsed(text, fns))
       /\ ids' = ids + n
  /\ sent' = [provider |-> provider, length |-> Len(transcript), body |-> Build(provider, transcript)]

(* handleProviderError: the client takes back the message it just wrote, *)
(* unless what cannot be translated is further back.                     *)
Reject(provider) ==
  /\ transcript # <<>> /\ Last(transcript).role # "assistant"
  /\ ~Translatable(provider, transcript)
  /\ transcript' = IF Last(transcript).content = "odd" THEN Front(transcript) ELSE transcript
  /\ sent' = Silence
  /\ UNCHANGED ids

-----------------------------------------------------------------------------
(* The client *)

Owed == {c.id : c \in UNION {ToSet(transcript[i].calls) : i \in DOMAIN transcript}}
        \ {transcript[i].answers : i \in DOMAIN transcript}

Ask(role, content) ==
  /\ Owed = {} /\ Len(transcript) < MaxMessages
  /\ transcript # <<>> => Last(transcript).role \in {"assistant", "system"}
  /\ transcript' = Append(transcript, Message(role, content, <<>>, 0))
  /\ sent' = Silence
  /\ UNCHANGED ids

(* The client runs its tools in any order. *)
AnswerCall(id, content) ==
  /\ id \in Owed /\ Len(transcript) < MaxMessages
  /\ transcript' = Append(transcript, Message("tool", content, <<>>, id))
  /\ sent' = Silence
  /\ UNCHANGED ids

DialogueNext ==
  \/ \E provider \in {"openai", "gemini", "ollama"} : Serve(provider) \/ Reject(provider)
  \/ Ask("system", "text")
  \/ \E content \in Contents : Ask("user", content)
  \/ \E id \in Owed : AnswerCall(id, "text")

DialogueSpec == DialogueInit /\ [][DialogueNext]_dialogueVars
-----------------------------------------------------------------------------
CalledFn(i, id) ==
  (CHOOSE c \in UNION {ToSet(transcript[j].calls) : j \in 1..i-1} : c.id = id).fn
Place(i) == Cardinality({j \in 1..i : transcript[j].role \notin {"system", "developer"}})

(* Whichever providers served the turns before and in whatever order the   *)
(* client's tools finished: a request to Gemini hands each result back     *)
(* under the name of the function whose call it answers, in the place it   *)
(* has in the transcript, after that call; a request to Ollama keeps every *)
(* message and call in its place.                                          *)
ToolResultsReachTheirCall ==
  sent # Silence =>
    \A i \in 1..sent.length :
      /\ sent.provider = "gemini" /\ transcript[i].role = "tool" =>
              LET part == sent.body.contents[Place(i)].parts[1]
              IN /\ part.name = CalledFn(i, transcript[i].answers)
                 /\ \E j \in 1..Place(i)-1 : \E k \in DOMAIN sent.body.contents[j].parts :
                      sent.body.contents[j].parts[k] = [kind |-> "functionCall", name |-> part.name]
      /\ sent.provider = "ollama" =>
              /\ sent.body[i].role = transcript[i].role
              /\ Len(sent.body[i].calls) = Len(transcript[i].calls)
=============================================================================
