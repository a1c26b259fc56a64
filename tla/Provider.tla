------------------------------- MODULE Provider -------------------------------
(***************************************************************************)
(* The language models.  ProviderRegistry gives the provider of a model's  *)
(* name; groq_chat and gemini_chat make one call, which answers with text  *)
(* or raises.                                                              *)
(*                                                                         *)
(* A text is its length once stripped: 0 for one that is blank or is not   *)
(* a string.  A call that raises has the length 0 too.                     *)
(***************************************************************************)
EXTENDS Naturals, Sequences

\* A model of the table, one named after Gemini, or any other.
RegisteredModels == [model \in {"llama-3.1-8b-instant", "gemini-1.5-flash"} |->
                        IF model = "gemini-1.5-flash" THEN "gemini" ELSE "groq"]
GeminiNames == {"gemini-2.0-flash"}
GetProvider(model) ==
    IF model \in DOMAIN RegisteredModels THEN RegisteredModels[model]
    ELSE IF model \in GeminiNames THEN "gemini" ELSE "groq"

Raised == 0

\* A response is not ok after an HTTP error, a timeout or with a body that is no JSON.
\* Groq's has choices, each with one text; Gemini's has candidates, each with parts,
\* and only the first part of the first candidate is read.
GroqChat(response) == IF response.ok /\ response.choices # <<>> THEN response.choices[1] ELSE Raised
GeminiChat(response) ==
    IF response.ok /\ response.candidates # <<>> /\ response.candidates[1] # <<>>
    THEN response.candidates[1][1] ELSE Raised

Chat(model, response) == IF GetProvider(model) = "gemini" THEN GeminiChat(response) ELSE GroqChat(response)

(***************************************************************************)
(* complete_with_fallback: the models in their order until one does not    *)
(* raise.  `responses` gives each provider's possible responses.           *)
(***************************************************************************)
Outcomes(model, responses) == {Chat(model, r) : r \in responses[GetProvider(model)]}

Reached(order, responses, m) == \A k \in 1 .. m - 1 : Raised \in Outcomes(order[k], responses)

Completions(order, responses) ==
    UNION {Outcomes(order[m], responses) \ {Raised} : m \in {k \in DOMAIN order : Reached(order, responses, k)}}

MayFail(order, responses) == Reached(order, responses, Len(order) + 1)
===============================================================================
