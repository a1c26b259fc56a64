---------------------------- MODULE ChatProtocol ----------------------------
(***************************************************************************)
(* What a client of the streaming chat endpoint may rely on.  The events   *)
(* of a stream are tokens, all of one language model, then one final       *)
(* event: cancelled, error, or the citations followed by done; a           *)
(* connection may be lost before that, and nothing follows a final event.  *)
(***************************************************************************)
CONSTANTS Streams, Models

VARIABLES
    phase,    \* per stream, what its client has seen of it
    voice     \* per stream, the models whose text its client has seen

Final == {"refused", "done", "error", "cancelled", "lost"}

Init ==
    /\ phase = [s \in Streams |-> "waiting"]
    /\ voice = [s \in Streams |-> {}]

Move(s, from, to) ==
    /\ phase[s] = from /\ phase' = [phase EXCEPT ![s] = to]
    /\ UNCHANGED voice

Answer(s) == Move(s, "waiting", "open") \/ Move(s, "waiting", "refused")

Token(s) ==
    /\ phase[s] = "open"
    /\ \E m \in Models : voice[s] \subseteq {m} /\ voice' = [voice EXCEPT ![s] = {m}]
    /\ UNCHANGED phase

\* an answer is never empty
Cite(s) == voice[s] # {} /\ Move(s, "open", "cited")

Close(s) ==
    \/ Move(s, "cited", "done")
    \/ Move(s, "open", "error") \/ Move(s, "open", "cancelled")
    \/ Move(s, "open", "lost") \/ Move(s, "cited", "lost")

Next == \E s \in Streams : Answer(s) \/ Token(s) \/ Cite(s) \/ Close(s)

Spec == Init /\ [][Next]_<<phase, voice>>
=============================================================================
