---------------------------- MODULE ParallelArgmax ----------------------------
(***************************************************************************)
(* What dspark_markov_q8_0_argmax promises its caller, however many        *)
(* threads compute it: the first row with the best score.                  *)
(***************************************************************************)
EXTENDS Integers

CONSTANTS Requests, None

VARIABLES request, answer

Best(s) ==
  CHOOSE i \in DOMAIN s :
    /\ \A j \in DOMAIN s : s[j] <= s[i]
    /\ \A j \in DOMAIN s : s[j] = s[i] => i <= j

Init == request = None /\ answer = None

Ask(s) == request = None /\ request' = s /\ answer' = None
Reply == request # None /\ answer' = Best(request) /\ request' = None

Next == (\E s \in Requests : Ask(s)) \/ Reply

(* What is answered, and that there is an answer. *)
Answers == Init /\ [][Next]_<<request, answer>>
Spec == Answers /\ WF_<<request, answer>>(Reply)

=============================================================================
