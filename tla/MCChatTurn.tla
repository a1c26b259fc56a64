------------------------------ MODULE MCChatTurn ------------------------------
(* Instances of ChatTurn for TLC.                                           *)
EXTENDS ChatTurn

CONSTANTS a1, a2, w1, p, q

Old == [conversation |-> "old", docs |-> {1}, length |-> 40]
New == [conversation |-> "new", docs |-> {2}, length |-> 40]
Single == [conversation |-> "none", docs |-> {1}, length |-> 40]
\* Each pair once, as the accounts of both vary.
MCAsks == {(a1 :> x) @@ (a2 :> y) : <<x, y>> \in {<<Old, Old>>, <<Old, New>>, <<Old, Single>>, <<New, New>>, <<New, Single>>}}
MCOwnerOf == (1 :> p) @@ (2 :> q) @@ (3 :> p)
MCEarlier == <<[by |-> "earlier", role |-> "user", length |-> 40], [by |-> "earlier", role |-> "assistant", length |-> 60]>>
MCChunks == {[doc |-> d, index |-> 0, length |-> 500] : d \in Docs}
MCModels == <<"llama-3.1-8b-instant", "gemini-2.0-flash">>
Groq(ok, choices) == [ok |-> ok, choices |-> choices]
Gemini(ok, candidates) == [ok |-> ok, candidates |-> candidates]
MCResponses == [
    groq |-> {Groq(TRUE, <<60>>), Groq(TRUE, <<0>>), Groq(TRUE, <<>>), Groq(FALSE, <<>>)},
    gemini |-> {Gemini(TRUE, << <<60, 20>> >>), Gemini(TRUE, << <<0, 60>> >>), Gemini(TRUE, << <<>> >>), Gemini(FALSE, <<>>)}]
MCGoodResponses == [groq |-> {Groq(TRUE, <<60>>)}, gemini |-> {Gemini(TRUE, << <<60, 20>> >>)}]
===============================================================================
