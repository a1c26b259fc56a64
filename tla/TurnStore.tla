------------------------------- MODULE TurnStore -------------------------------
(***************************************************************************)
(* What the chat and the sign-in promise about what is stored: a request   *)
(* is answered once, and with its answer the question, the answer and the  *)
(* user who asked are stored together, or the user alone when the question *)
(* is of no conversation; or it is refused, and nothing of it is stored.   *)
(* A webhook only adds its user.                                           *)
(***************************************************************************)
CONSTANTS
    Requests,   \* API requests
    Webhooks    \* webhook events

VARIABLES
    who,        \* the account of each: never changes
    chats,      \* the requests that are of a conversation: never changes
    users,      \* the accounts that have a user
    stored,     \* the messages of each request
    reply       \* what each request was told

storeVars == <<who, chats, users, stored, reply>>

StoreInit ==
    /\ stored = [t \in Requests |-> {}]
    /\ reply = [t \in Requests |-> "none"]

Answer(t) ==
    /\ reply[t] = "none"
    /\ reply' = [reply EXCEPT ![t] = "answer"]
    /\ stored' = [stored EXCEPT ![t] = IF t \in chats THEN {"user", "assistant"} ELSE {}]
    /\ users' = users \cup {who[t]}
    /\ UNCHANGED <<who, chats>>

Refuse(t) ==
    /\ reply[t] = "none"
    /\ reply' = [reply EXCEPT ![t] = "error"]
    /\ UNCHANGED <<who, chats, users, stored>>

Deliver(w) ==
    /\ users' = users \cup {who[w]}
    /\ UNCHANGED <<who, chats, stored, reply>>

StoreNext == (\E t \in Requests : Answer(t) \/ Refuse(t)) \/ (\E w \in Webhooks : Deliver(w))

StoreSpec == StoreInit /\ [][StoreNext]_storeVars
=============================================================================
