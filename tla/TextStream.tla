------------------------------- MODULE TextStream -------------------------------
(***************************************************************************)
(* From a list of messages to the text of the answer on the session-clone  *)
(* path: the prompt's ids (tokenizer.rs), sampling under a mask            *)
(* (sampler.rs), the decode loop (routes.rs) and the buffer that holds     *)
(* bytes back for whole characters and stop strings (tokenizer.rs).        *)
(*                                                                         *)
(* A text is a sequence of the names of its words, a decoded one of bytes. *)
(* A logits row is the token it ranks first and an order of the rest that  *)
(* the model leaves open.                                                  *)
(***************************************************************************)
EXTENDS Integers, SequencesExt

CONSTANTS
  Setup,   \* [arch, lane, vocab (name of each id), eos, mask (generation_config.json),
           \*  messages, stops (the request's), raw, greedy, ngram, max_tokens]
  Surface, \* the bytes that each name decodes to
  Piped    \* the names that are <...> with a | inside

Gemma == "gemma"
Qwen  == "qwen"

StreamAssumption ==
  /\ {"<|turn>", "<turn|>"} \subseteq DOMAIN Surface
  /\ \A name \in DOMAIN Surface : Surface[name] \in Seq(STRING)
  /\ \A s \in Setup : /\ s.arch \in {Gemma, Qwen, "other"} /\ s.lane \in {"bpe", "gemma4"}
                      /\ {s.ngram, s.max_tokens} \subseteq Nat
                      /\ s.vocab \in Seq(DOMAIN Surface) \ {<<>>}
                      /\ s.messages \in Seq([role : STRING, content : Seq(STRING)])
                      /\ s.stops \in Seq(Seq(STRING))

VARIABLES
  setup,    \* the model and the request
  turn,     \* [tokens, eos_ids, turn_stop_ids, suppress, stops]: what follows from them
  at,       \* prefill, decode, or how the stream ended
  history,  \* what the sampler observed; its last is next_token
  top,      \* the token that the last row ranked first
  buf,      \* bytes held back
  shown,    \* bytes sent to the client
  fed       \* tokens pushed into the buffer

vars == <<setup, turn, at, history, top, buf, shown, fed>>

-----------------------------------------------------------------------------
(***************************************************************************)
(* The tokenizer.  Ids count from 1.                                       *)
(***************************************************************************)
Ids == DOMAIN setup.vocab
Named(names) == {i \in Ids : setup.vocab[i] \in names}

FindEosIds ==
  CASE setup.arch = Qwen  -> Named({"<|im_end|>", "<|endoftext|>"})
    [] setup.arch = Gemma -> Named({"<eos>", "<end_of_turn>"})
    [] OTHER              -> {}

EosIds == FindEosIds \union (setup.eos \intersect Ids)
          \union (IF setup.arch = Gemma THEN Named({"<turn|>"}) ELSE {})
TurnStopIds == IF setup.arch = Gemma THEN Named({"<|turn>", "<turn|>"}) ELSE {}

IsSuppressedEver(name) == name \in Piped \union {"<pad>", "<bos>", "<unk>", "<mask>", "<unused0>"}   \* mutant
IsSuppressedControl(name) ==
  /\ name \notin {"<|turn>", "<turn|>"}
  /\ name \in Piped \union {"<pad>", "<bos>", "<unk>", "<mask>", "<unused0>"}

SuppressTokenIds == {i \in Ids : IsSuppressedControl(setup.vocab[i])} \union (setup.mask \intersect Ids)
Suppressed == IF setup.raw THEN {} ELSE SuppressTokenIds

\* The conservative list: turn markers, then openers of a new turn written as text.
DefaultStops ==
  IF setup.arch = Gemma
  THEN <<Surface["<|turn>"], Surface["<turn|>"], <<"n", "n", "u">>, <<"n", "u", "n">>>>
  ELSE <<>>
Stops == IF setup.stops = <<>> THEN DefaultStops ELSE setup.stops

\* The gemma4 encoder forces a BOS; a surface without a token is broken into pieces.
IdOf(name) == IF Named({name}) = {} THEN CHOOSE i \in Named({"piece"}) : TRUE
              ELSE CHOOSE i \in Named({name}) : \A j \in Named({name}) : i <= j
Bos == [i \in 1 .. (IF Named({"<bos>"}) = {} THEN 0 ELSE 1) |-> IdOf("<bos>")]
Encode(text) ==
  (IF setup.lane = "gemma4" THEN Bos ELSE <<>>) \o [i \in DOMAIN text |-> IdOf(text[i])]
EncodeNoBos(text) ==
  LET ids == Encode(text) IN
  IF setup.lane = "gemma4" /\ Bos # <<>> /\ IsPrefix(Bos, ids) THEN Tail(ids) ELSE ids

Role(msg) == IF msg.role = "assistant" THEN "model" ELSE msg.role

ChatmlTemplate(msgs) ==
  LET Turn(role, text) == <<"<|im_start|>", role, "nl">> \o text \o <<"<|im_end|>", "nl">> IN
  (IF msgs # <<>> /\ msgs[1].role = "system" THEN <<>> ELSE Turn("system", <<>>))
  \o FlattenSeq([i \in DOMAIN msgs |-> Turn(msgs[i].role, msgs[i].content)])
  \o <<"<|im_start|>", "assistant", "nl">>

Gemma3Template(msgs) ==
  FlattenSeq([i \in DOMAIN msgs |-> <<"<start_of_turn>", Role(msgs[i]), "nl">> \o msgs[i].content
                                     \o <<"<end_of_turn>", "nl">>])
  \o <<"<start_of_turn>", "model", "nl">>

TurnTokens == {"<|turn>", "<turn|>", "nl"}
HasTurnTokens == \A name \in TurnTokens : Named({name}) # {}

TurnIds(msgs) ==
  Bos
  \o FlattenSeq([i \in DOMAIN msgs |->
       <<IdOf("<|turn>")>> \o EncodeNoBos(<<Role(msgs[i])>>) \o <<IdOf("nl")>>
       \o EncodeNoBos(msgs[i].content) \o <<IdOf("<turn|>"), IdOf("nl")>>])
  \o <<IdOf("<|turn>")>> \o EncodeNoBos(<<"model">>) \o <<IdOf("nl")>>

\* apply_template_ids; an arch without a template is refused before the chat starts.
PromptIds ==
  IF setup.arch = Qwen THEN Encode(ChatmlTemplate(setup.messages))
  ELSE IF HasTurnTokens THEN TurnIds(setup.messages)
  ELSE Encode(Gemma3Template(setup.messages))

-----------------------------------------------------------------------------
(***************************************************************************)
(* The sampler.  Penalties, temperature, top-k and the nucleus reorder and *)
(* drop tokens, and leave one that is not masked if there is one: which    *)
(* one is drawn is open.                                                   *)
(***************************************************************************)
BanRepeatNgram(seq, n) ==
  IF n < 2 \/ Len(seq) < n THEN {}
  ELSE {seq[i + n - 1] : i \in {j \in 1 .. Len(seq) - n + 1 :
         SubSeq(seq, j, j + n - 2) = SubSeq(seq, Len(seq) - n + 2, Len(seq))}}

Masked == turn.suppress \union BanRepeatNgram(turn.tokens \o history, setup.ngram)
LastId == Len(setup.vocab)

\* Every logit at minus infinity: argmax returns the last of equals, a draw the first of
\* an unstable sort.
Sample(first) ==
  LET free == Ids \ Masked IN
  IF free = {} THEN IF setup.greedy THEN {LastId} ELSE Ids
  ELSE IF setup.greedy /\ first \in free THEN {first} ELSE free

\* sample, then observe; of the tokens that rank first those that end a turn are told apart.
Other == 0
EndIds == turn.eos_ids \union turn.turn_stop_ids
Draw ==
  \E first \in EndIds \union {Other} : \E id \in Sample(first) :
    top' = first /\ history' = Append(history, id)

-----------------------------------------------------------------------------
(***************************************************************************)
(* The buffer.                                                             *)
(***************************************************************************)
Bytes(id) == Surface[setup.vocab[id]]

\* h leads a character of two bytes, t continues one; other bytes are characters.
WholeCharacters(s) ==
  \A i \in DOMAIN s : /\ s[i] = "h" => i < Len(s) /\ s[i + 1] = "t"
                      /\ s[i] = "t" => i > 1 /\ s[i - 1] = "h"
ValidUtf8UpTo(s) == Max({k \in 0 .. Len(s) : WholeCharacters(SubSeq(s, 1, k))})

Found(s, stop) == {k \in 1 .. Len(s) - Len(stop) + 1 : SubSeq(s, k, k + Len(stop) - 1) = stop}
HoldLess == Max({0} \union {Len(turn.stops[i]) - 2 : i \in DOMAIN turn.stops})  \* mutant of Hold
Hold == Max({0} \union {Len(turn.stops[i]) - 1 : i \in DOMAIN turn.stops})

Hit(s) == {i \in DOMAIN turn.stops : Found(s, turn.stops[i]) # {}}
FirstListed(s) == turn.stops[CHOOSE i \in Hit(s) : \A j \in Hit(s) : i <= j]

\* push: the first listed stop string that is found cuts the buffer.
Stopped(s) == Hit(s) # {}
Before(s) == SubSeq(s, 1, (CHOOSE k \in Found(s, FirstListed(s)) : \A l \in Found(s, FirstListed(s)) : k <= l) - 1)
Emitted(s) == IF Len(s) <= Hold THEN 0 ELSE ValidUtf8UpTo(SubSeq(s, 1, Len(s) - Hold))

-----------------------------------------------------------------------------
(***************************************************************************)
(* The turn.                                                               *)
(***************************************************************************)
Init ==
  /\ setup \in Setup
  /\ turn = [tokens |-> PromptIds, eos_ids |-> EosIds, turn_stop_ids |-> TurnStopIds,
             suppress |-> Suppressed, stops |-> Stops]
  /\ at = "prefill" /\ history = <<>> /\ top = Other
  /\ buf = <<>> /\ shown = <<>> /\ fed = 0

Prefill ==
  /\ at = "prefill"
  /\ \/ at' = "refused" /\ UNCHANGED <<history, top>>
     \/ at' = "decode" /\ Draw
  /\ UNCHANGED <<setup, turn, buf, shown, fed>>

NextToken == history[Len(history)]
Ends == NextToken \in EndIds

\* Bytes that are held back are sent after the loop.
Flush(reason) == at' = reason /\ shown' = shown \o buf /\ buf' = <<>>

TurnOver ==
  /\ at = "decode" /\ (fed = setup.max_tokens \/ Ends)
  /\ Flush(IF fed = setup.max_tokens THEN "length" ELSE "eos")
  /\ UNCHANGED <<setup, turn, history, top, fed>>

Running == at = "decode" /\ fed < setup.max_tokens /\ ~ Ends

PushStops ==
  /\ Running /\ Stopped(buf \o Bytes(NextToken))
  /\ shown' = shown \o Before(buf \o Bytes(NextToken)) /\ buf' = <<>>
  /\ at' = "stop" /\ fed' = fed + 1
  /\ UNCHANGED <<setup, turn, history, top>>

\* The delta is sent, then the token is decoded; a decode that fails or is aborted breaks.
PushEmits ==
  LET s == buf \o Bytes(NextToken)  e == Emitted(s) IN
  /\ Running /\ ~ Stopped(s)
  /\ fed' = fed + 1
  /\ \/ /\ at' = "decode" /\ Draw
        /\ shown' = shown \o SubSeq(s, 1, e) /\ buf' = SubSeq(s, e + 1, Len(s))
     \/ /\ at' = "failed" /\ shown' = shown \o s /\ buf' = <<>>
        /\ UNCHANGED <<history, top>>
     \/ /\ e > 0 /\ at' = "hung up" /\ buf' = SubSeq(s, e + 1, Len(s))
        /\ UNCHANGED <<shown, history, top>>
  /\ UNCHANGED <<setup, turn>>

Next == Prefill \/ TurnOver \/ PushStops \/ PushEmits
Spec == Init /\ [][Next]_vars

-----------------------------------------------------------------------------
Decoded == FlattenSeq([i \in 1 .. fed |-> Bytes(history[i])])

(***************************************************************************)
(* What is shown is the decoded text: whole characters of a prefix of it   *)
(* while the turn runs, all of it at the end, and after a stop string what *)
(* precedes that string.  A stop string that is not empty is shown only    *)
(* when the last token completed it together with one that is listed       *)
(* before it (TokenDecodeBuffer).                                          *)
(***************************************************************************)
ShownIsText ==
  /\ IsPrefix(shown, Decoded)
  /\ at = "decode" => WholeCharacters(shown)
  /\ at \in {"eos", "length", "failed"} => shown = Decoded
  /\ at = "stop" => \E i \in DOMAIN turn.stops : Len(shown) + 1 \in Found(Decoded, turn.stops[i])
  /\ LET old == Len(Decoded) - (IF fed = 0 THEN 0 ELSE Len(Bytes(history[fed]))) IN
     \A i \in DOMAIN turn.stops : turn.stops[i] # <<>> =>
       \A k \in Found(shown, turn.stops[i]) : k + Len(turn.stops[i]) - 1 > old

(***************************************************************************)
(* With the anti-echo guard on, no n-gram of prompt and answer is          *)
(* completed a second time, unless every token was masked (sampler.rs).    *)
(***************************************************************************)
NoRecital ==
  setup.ngram >= 2 =>
    LET seq == turn.tokens \o history
        n == setup.ngram
        j == Len(seq) - n + 1
    IN history # <<>> =>
         \A i \in 1 .. j - 1 :
           SubSeq(seq, i, i + n - 1) = SubSeq(seq, j, Len(seq)) =>
             Ids \subseteq turn.suppress \union BanRepeatNgram(Front(seq), n)

(***************************************************************************)
(* "it is the legitimate end-of-sequence ...; suppressing it would prevent *)
(* clean stopping" (tokenizer.rs): a greedy turn takes the end that the    *)
(* model ranks first.  Only Gemma's ends are left out of the default mask: *)
(* with it a turn of another architecture cannot take its end.             *)
(***************************************************************************)
EndsUnmasked == setup.arch = Gemma \/ setup.raw

CleanStop ==
  setup.greedy /\ setup.ngram < 2 /\ EndsUnmasked /\ top # Other => NextToken = top

(***************************************************************************)
(* "only the single leading BOS at the head of the assembled prompt is     *)
(* correct", and the prompt has the turns of its messages and an open one. *)
(***************************************************************************)
PromptWellFormed ==
  setup.arch = Gemma /\ HasTurnTokens =>
    LET At(name) == {i \in DOMAIN turn.tokens : turn.tokens[i] = IdOf(name)} IN
    /\ At("<bos>") = {1}
    /\ Cardinality(At("<turn|>")) = Len(setup.messages)
    /\ Cardinality(At("<|turn>")) = Len(setup.messages) + 1
=================================================================================
