------------------------------ MODULE MCTurnParts ------------------------------
(* Small instances of the parts.                                               *)
EXTENDS TurnParts, Integers, TLC
CONSTANTS blue, green, addr

(* MemoryStore: two facts; the file starts empty, or with two rows of one; one *)
(* concept.                                                                    *)
MCFact == {blue, green}
MCAddr == {addr}
MCCurated == {<<>>, <<blue, blue>>}
MCBody == addr :> blue

(* RecallCascade: a curated private-secret record and a live episode that can  *)
(* be superseded.  The switch sets are the stacks the code's comments describe;*)
(* the ones that it says not to combine are not combined.                      *)
MCMemory == {blue, green}
MCNPos == blue :> 1 @@ green :> 2
MCView == [cos : [MCMemory -> 0 .. 2], absent : {{}, {blue}},
           entity : BOOLEAN, question : BOOLEAN]
MCConfigs ==
  {{"l5", "attr", "qonly", "spectest", "steer"},
   {"l5", "policy", "spectest", "testhead", "steer", "coconut"},
   {"spine", "l5", "attr", "qonly"}, {"spine", "head", "attr", "telepathy"},
   {"int2", "wc", "jaccard", "l5"}, {"int2", "ring", "steer"},
   {"wc", "jaccard", "l5", "judge", "judgel5"}, {"wc", "wctext", "judge"},
   {"disp"}, {"disp", "ring"}, {"disp", "dcont"}, {"disp", "dcont", "ring"}, {"qk", "ring"}}

(* TextStream: Gemma models with and without turn tokens, with the default     *)
(* stops and with stops of the request, an empty one among them, and a Qwen    *)
(* model whose logits are masked or not.                                       *)
MCPiped == {"<|turn>", "<turn|>", "<|image|>", "<|im_start|>", "<|im_end|>", "<|endoftext|>"}
MCSurface ==
  [n \in MCPiped \cup {"<eos>", "<bos>", "user", "model", "system", "assistant", "nl", "unl",
                       "lead", "tail", "piece"} |->
     CASE n = "nl" -> <<"n">> [] n = "user" -> <<"u">> [] n = "unl" -> <<"u", "n">>
       [] n = "lead" -> <<"h">> [] n = "tail" -> <<"t">> [] OTHER -> <<n>>]
Gemma4 == <<"<eos>", "<bos>", "<|turn>", "<turn|>", "<|image|>", "nl", "user", "model",
            "lead", "tail", "unl">>
Gemma3 == <<"<eos>", "<bos>", "nl", "user", "lead", "tail", "piece">>
Qwen2  == <<"<|im_start|>", "<|im_end|>", "<|endoftext|>", "nl", "user", "piece">>
Said == <<[role |-> "user", content |-> <<"user", "unl">>]>>
Chat(arch, encoder, vocab, mask, stops, raw, greedy, ngram) ==
  [arch |-> arch, lane |-> encoder, vocab |-> vocab, eos |-> {1} \ mask, mask |-> mask,
   messages |-> Said, stops |-> stops, raw |-> raw, greedy |-> greedy, ngram |-> ngram,
   max_tokens |-> 3]
MCSetup ==
  {Chat("gemma", "gemma4", Gemma4, {5}, s, FALSE, g, n) :
     s \in {<<>>, <<<<"n">>, <<"u">>>>, <<<<"h", "t">>, <<"u", "u">>>>}, g \in BOOLEAN, n \in {0, 2}}
  \cup {Chat("gemma", "bpe", Gemma3, {}, <<>>, FALSE, TRUE, 2),
        Chat("gemma", "bpe", Gemma3, {}, <<<<"u", "n">>, <<>>>>, FALSE, FALSE, 0),
        Chat("qwen", "bpe", Qwen2, {1}, <<>>, TRUE, TRUE, 0),
        Chat("qwen", "bpe", Qwen2, {}, <<>>, FALSE, TRUE, 0)}

(* KvHandle: a cache of six positions, two thoughts, prompts of one token, of  *)
(* some, of all the positions and of more.                                     *)
MCRail == SUBSET {"f3", "coconut", "head"}
MCThought == <<"t1", "t2">>

(* DualNtt: vectors of four, q1 = 97 and q2 = 89.  The coefficient -1068 is    *)
(* one that Garner's subtraction wraps on.                                     *)
Vector == 0 .. 3
MCJobs ==
  {[kind |-> "polymul", a |-> v, b |-> w] :
     v \in [Vector -> {-1068, -40, 33}],
     w \in {[i \in Vector |-> IF i = 1 THEN 1 ELSE 0], [i \in Vector |-> 33 - 20 * i]}}
  \cup {[kind |-> "matmul", a |-> v, b |-> w] :
          v \in [{1} \X (1 .. 2) -> {-7, 0, 3}], w \in [(1 .. 2) \X (1 .. 2) -> {-7, 3}]}

(* DspBridge: a model of one layer, two clients, bodies that are empty, within *)
(* the limit and above it.                                                     *)
MCCaller == {"c1", "c2"}

(* Curator: episodes with and without a token of the secret, one too short;    *)
(* secrets that are empty, fit the handle and do not.                          *)
MCEpisodes == {<<1, 2, 3>>, <<2, 2, 1>>, <<1>>}
MCSecrets  == {<<>>, <<4>>, <<2>>, <<3, 4>>, <<4, 2, 2>>}
================================================================================
