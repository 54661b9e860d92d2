----------------------------- MODULE TextSession -----------------------------
(***************************************************************************)
(* What a program is promised of a session, whichever way it computes: the *)
(* text it holds, the text its logits answer, the prompt it is working on  *)
(* and what it last told the program.  A text only ever grows, or is       *)
(* forgotten whole.                                                        *)
(***************************************************************************)
EXTENDS Integers, Sequences

CONSTANTS
  Token, Prompts, CtxSize,
  Greedy(_),   \* the token the target chooses after a text
  Eos,         \* the token that ends a text
  None         \* no text, no prompt

VARIABLES
  text,        \* the live tokens, or None
  answer,      \* the text that the next token is sampled after
  asked,       \* the prompt of the running sync, or None
  told,        \* what the last call said
  shelf        \* the text of the payload last saved, or None

textVars == <<text, answer, asked, told, shelf>>

TextInit ==
  text = None /\ answer = None /\ asked = None /\ told = "none" /\ shelf = None

Quiet == asked = None
Becomes(t) == text' = t /\ answer' = t
Beginning(s, t) == Len(s) <= Len(t) /\ SubSeq(t, 1, Len(s)) = s

-----------------------------------------------------------------------------
(* A sync takes over the text the prompt begins with, and no other.        *)
Ask(p) ==
  /\ Quiet /\ p # <<>> /\ Len(p) < CtxSize
  /\ asked' = p
  /\ Becomes(IF text # None /\ Beginning(text, p) THEN text ELSE None)
  /\ UNCHANGED <<told, shelf>>

(* More of the prompt becomes text. *)
Advance ==
  /\ ~Quiet
  /\ \E n \in 1 .. Len(asked) :
       /\ text # None => Len(text) < n
       /\ Becomes(SubSeq(asked, 1, n))
  /\ UNCHANGED <<asked, told, shelf>>

Finish ==
  ~Quiet /\ Becomes(asked) /\ asked' = None /\ told' = "ok" /\ UNCHANGED shelf

(* A sync that is cancelled costs nothing of the text. *)
Stop ==
  /\ ~Quiet /\ asked' = None
  /\ told' \in {"interrupted", "error"}
  /\ UNCHANGED <<text, answer, shelf>>

(* A call that fails leaves no text. *)
Fail == Becomes(None) /\ asked' = None /\ told' = "error" /\ UNCHANGED shelf

(* A call that is refused, or cancelled before it began, changes nothing.  *)
Refuse ==
  /\ Quiet
  /\ told' \in {"error", "interrupted", "rebuild"}
  /\ UNCHANGED <<text, answer, asked, shelf>>

Forget == Quiet /\ Becomes(None) /\ told' = "none" /\ UNCHANGED <<asked, shelf>>

(* The text goes on by a token of the program's, and behind it by nothing  *)
(* but the target's own choices, none of them behind the end.              *)
Continues(s, t) ==
  /\ Len(s) < Len(t) /\ Len(t) <= CtxSize /\ Beginning(s, t)
  /\ \A i \in Len(s) + 2 .. Len(t) :
       t[i] = Greedy(SubSeq(t, 1, i - 1)) /\ t[i - 1] # Eos

Generate ==
  /\ Quiet /\ text # None /\ told = "ok"
  /\ text' # None /\ Continues(text, text') /\ answer' = text'
  /\ UNCHANGED <<asked, told, shelf>>

(* A payload is of the text as it is; loading it makes it the text again.  *)
Shelve == text # None /\ shelf' = text /\ UNCHANGED <<text, answer, asked, told>>

Restore ==
  /\ Quiet /\ shelf # None
  /\ Becomes(shelf) /\ told' = "ok"
  /\ UNCHANGED <<asked, shelf>>

-----------------------------------------------------------------------------
TextNext ==
  \/ \E p \in Prompts : Ask(p)
  \/ Advance \/ Finish \/ Stop \/ Fail \/ Refuse \/ Forget
  \/ Generate \/ Shelve \/ Restore

TextSpec == TextInit /\ [][TextNext]_textVars

=============================================================================
