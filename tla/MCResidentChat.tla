--------------------------- MODULE MCResidentChat ---------------------------
(* Small instances of ResidentChat: prompts of up to three tokens over two *)
(* words; a memory's text, a side prompt and an episode begin with a third.*)
EXTENDS ResidentChat
CONSTANTS a, b, mem, MaxPrompt
MCToken    == {a, b, mem}
MCPrompt   == UNION {[1 .. n -> {a, b}] : n \in 1 .. MaxPrompt}
MCAugHead  == <<mem, a>>
MCAugLast  == b
MCSideText == <<mem, mem>>
MCEpisode  == <<mem>>
=============================================================================
