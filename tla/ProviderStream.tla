---------------------------- MODULE ProviderStream ----------------------------
(***************************************************************************)
(* The three stream readers behind providers.StreamReader.  A reader turns *)
(* what the upstream sends into chunks in OpenAI's dialect and keeps the   *)
(* usage it has seen so far:                                               *)
(*   openai  forwards every event as it is and stops after its [DONE];     *)
(*   gemini  translates each event, drops what it cannot, keeps the usage  *)
(*           of the last event that had one and adds the [DONE] itself;    *)
(*   ollama  does the same line by line; only the line with done:true      *)
(*           carries usage, and it ends the stream.                        *)
(* The text of a chunk is left out: an event is its kind.                  *)
(***************************************************************************)
EXTENDS Integers

(* What the upstream can send: content, content that carries the usage,    *)
(* usage without content, an event with nothing to translate, its end      *)
(* marker, a clean close of the connection, a broken connection or an      *)
(* expired context.                                                        *)
Upstream(provider) ==
  CASE provider = "openai" -> {"delta", "usage", "end", "close", "break"}
    [] provider = "gemini" -> {"delta", "usage", "bare", "noise", "close", "break"}
    [] provider = "ollama" -> {"delta", "noise", "end", "close", "break"}

OpenReader == [usage |-> 0, closed |-> FALSE, sentDone |-> FALSE]

(* One pass of Next's loop over one upstream event.  out tells the caller: *)
(* "chunk" to forward, "eof", "error", or "none" when the loop goes on.    *)
OpenAIRead(rd, ev) ==
  CASE ev = "delta" -> [out |-> "chunk", rd |-> rd]
    [] ev = "usage" -> [out |-> "chunk", rd |-> [rd EXCEPT !.usage = 1]]
    [] ev = "end"   -> [out |-> "chunk", rd |-> [rd EXCEPT !.closed = TRUE]]
    [] ev = "close" -> [out |-> "eof",   rd |-> [rd EXCEPT !.closed = TRUE]]
    [] ev = "break" -> [out |-> "error", rd |-> [rd EXCEPT !.closed = TRUE]]

GeminiRead(rd, ev) ==
  CASE ev = "delta" -> [out |-> "chunk", rd |-> rd]
    [] ev = "usage" -> [out |-> "chunk", rd |-> [rd EXCEPT !.usage = 1]]
    [] ev = "bare"  -> [out |-> "none",  rd |-> [rd EXCEPT !.usage = 1]]
    [] ev = "noise" -> [out |-> "none",  rd |-> rd]
    [] ev = "close" -> [out |-> "none",  rd |-> [rd EXCEPT !.closed = TRUE]]
    [] ev = "break" -> [out |-> "error", rd |-> rd]

OllamaRead(rd, ev) ==
  CASE ev = "delta" -> [out |-> "chunk", rd |-> rd]
    [] ev = "noise" -> [out |-> "none",  rd |-> rd]
    [] ev = "end"   -> [out |-> "chunk", rd |-> [rd EXCEPT !.usage = 1, !.closed = TRUE]]
    [] ev = "close" -> [out |-> "none",  rd |-> [rd EXCEPT !.closed = TRUE]]
    [] ev = "break" -> [out |-> "error", rd |-> rd]

Read(provider, rd, ev) ==
  CASE provider = "openai" -> OpenAIRead(rd, ev)
    [] provider = "gemini" -> GeminiRead(rd, ev)
    [] provider = "ollama" -> OllamaRead(rd, ev)

(* Next once the upstream has ended: the translating readers first add the *)
(* [DONE] that OpenAI's stream brought with it.                            *)
Drain(provider, rd) ==
  IF provider = "openai" \/ rd.sentDone
  THEN [out |-> "eof", rd |-> rd]
  ELSE [out |-> "chunk", rd |-> [rd EXCEPT !.sentDone = TRUE]]

(* Everything a turn of Next can do.  OpenAI sends no usage to a client    *)
(* that asked for none.                                                    *)
Turn(provider, metered, rd) ==
  IF rd.closed THEN {Drain(provider, rd)}
  ELSE {Read(provider, rd, ev) : ev \in
          Upstream(provider) \ (IF provider = "openai" /\ ~metered THEN {"usage"} ELSE {})}

(* The readers that the turns of a stream of any length lead to: those in  *)
(* every set that holds the open one and is closed under a turn.           *)
Readers == [usage : 0..1, closed : BOOLEAN, sentDone : BOOLEAN]
Reached(provider, metered) ==
  {rd \in Readers : \A closure \in SUBSET Readers :
     (/\ OpenReader \in closure
      /\ \A q \in closure : \A t \in Turn(provider, metered, q) : t.rd \in closure) => rd \in closure}

(* How handleChatStream's loop ends, with the usage the record then gets.  *)
(* The client's going away shows when a chunk is written or right after;   *)
(* a deadline or a cancelled request met while reading is the reader's     *)
(* error; a stream read to its end is a timeout if the deadline has passed *)
(* by then.                                                                *)
StreamEnd(t) ==
  CASE t.out = "chunk" -> {[status |-> "client_abort", usage |-> t.rd.usage]}
    [] t.out = "error" -> {[status |-> "provider_error", usage |-> t.rd.usage]}
    [] t.out = "eof"   -> {[status |-> s, usage |-> t.rd.usage] : s \in {"ok", "timeout"}}
    [] t.out = "none"  -> {}

StreamEnds == [provider \in {"openai", "gemini", "ollama"} |-> [metered \in BOOLEAN |->
  UNION {UNION {StreamEnd(t) : t \in Turn(provider, metered, rd)} : rd \in Reached(provider, metered)}]]
=============================================================================
