------------------------------ MODULE MCDetection ------------------------------
(***************************************************************************)
(* Detection on the recorded traffic of a few applications: mixes of       *)
(* requests, some repeated, some failed, some beyond the small model, in   *)
(* the last weeks; with a burst in the last hours or with prompts that     *)
(* have grown.                                                             *)
(***************************************************************************)
EXTENDS Detection, TLC

CONSTANTS k1, k2

MCPrice == [big |-> 4, small |-> 1]
MCTraits == [big   |-> [context |-> 100, maxOutput |-> 50, caps |-> {"tools", "vision"}, provider |-> "p"],
             small |-> [context |-> 20, maxOutput |-> 5, caps |-> {}, provider |-> "q"]]
MCDowngrades == [big |-> {"small"}, small |-> {}]
MCFloors == [requests |-> 3, spend |-> 10, savings |-> 5]
MCSamples == [medium |-> 3, high |-> 4]

(* Requests: plain ones of the large model, ones with an image, ones of    *)
(* the small model, failed ones.                                           *)
Fact(at, asked, input, output, known, key, needs) ==
  [at |-> at, asked |-> asked, model |-> asked, usage |-> input + output, input |-> input, output |-> output,
   cost |-> IF known THEN (input + output) * MCPrice[asked] ELSE 0, known |-> known,
   status |-> IF known THEN "ok" ELSE "provider_error", key |-> key, calledTools |-> FALSE, needs |-> needs]
Kinds(at) == [plain |-> Fact(at, "big", 4, 1, TRUE, k1, {}), image |-> Fact(at, "big", 8, 4, TRUE, k2, {"vision"}),
              small |-> Fact(at, "small", 4, 2, TRUE, k1, {}), failed |-> Fact(at, "big", 4, 0, FALSE, NoKey, {})]
At == <<10, 17, 24, 26, 27, 28>>
Mix(a, b) == [i \in 1..6 |-> Kinds(At[i])[IF i \in {1, 3, 4} THEN b ELSE a]]

(* Three hours a week see traffic; the last of them a burst. *)
Hourly(n(_)) == [h \in {x \in 1..28 : x % 7 \in {5, 6, 0}} |->
                  [requests |-> n(h), errors |-> 0, tokens |-> 3 * n(h), cost |-> 4 * n(h)]]
Usual(h) == 5 + ((h \div 7) % 2)
Burst(h) == IF h >= 26 THEN 30 ELSE Usual(h)

Day(n, model, input, output) == [day |-> n, model |-> model, requests |-> 8, input |-> input, output |-> output]
MCDays == <<Day(5, "big", 20, 10), Day(15, "small", 20, 10), Day(25, "big", 40, 12), Day(26, "small", 16, 12)>>
MCWorkloads ==
  [name \in {"plain", "image", "failed"} \X {"plain", "small", "failed"} \X BOOLEAN |->
     [facts |-> Mix(name[1], name[2]), days |-> IF name[3] THEN <<>> ELSE MCDays,
      hours |-> IF name[3] THEN Hourly(Burst) ELSE Hourly(Usual)]]

(* One application with a burst, for the detector run again and again. *)
MCBurst == [name \in {<<"image", "failed", TRUE>>} |-> MCWorkloads[name]]
=============================================================================
