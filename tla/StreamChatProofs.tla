-------------------------- MODULE StreamChatProofs --------------------------
(***************************************************************************)
(* Theorems about module StreamChat, for every set of streams and cancel   *)
(* requests, every number of models and every combination of faults.       *)
(***************************************************************************)
EXTENDS StreamChat, TLAPS

(***************************************************************************)
(* Types.                                                                  *)
(***************************************************************************)
\* Updates of a hash of the registry stay within Hash.
LEMMA HashUpdates ==
    ASSUME NEW h \in Hash, NEW b \in BOOLEAN, NEW e \in BOOLEAN
    PROVE  /\ [key |-> TRUE, cancelled |-> FALSE, ttl |-> b] \in Hash
           /\ [h EXCEPT !.ttl = b] \in Hash
           /\ [h EXCEPT !.key = b, !.cancelled = e] \in Hash
           /\ NoHash \in Hash
  BY DEF Hash, NoHash

\* Updates of a scan stay within Scan.
LEMMA ScanUpdates ==
    ASSUME NEW n \in Scan, NEW A \in SUBSET Streams
    PROVE  /\ [n EXCEPT !.owed = A] \in Scan
           /\ [n EXCEPT !.batch = A] \in Scan
           /\ \A B \in SUBSET Streams, s \in Streams :
                [n EXCEPT !.batch = A, !.visited = B, !.key = s] \in Scan
  BY DEF Scan

\* A hash leaves the registry: both records keep their types.
LEMMA DeleteKeyTypes ==
    ASSUME TypeOK, NEW s \in Streams, DeleteKey(s)
    PROVE  reg' \in [Streams -> Hash] /\ scan' \in [Cancels -> Scan]
<1>1. reg' \in [Streams -> Hash]
      BY HashUpdates DEF DeleteKey, TypeOK, Hash, NoHash
<1>2. ASSUME NEW c \in Cancels
      PROVE  [scan[c] EXCEPT !.owed = @ \ {s}] \in Scan
  <2>1. scan[c] \in Scan /\ scan[c].owed \ {s} \in SUBSET Streams
        BY DEF TypeOK, Scan
  <2> QED BY <2>1, ScanUpdates
<1>3. scan' = [c \in Cancels |-> [scan[c] EXCEPT !.owed = @ \ {s}]]
      BY DEF DeleteKey
<1> QED BY <1>1, <1>2, <1>3

LEMMA TypeInit == Init => TypeOK
<1> SUFFICES ASSUME Init PROVE TypeOK
    OBVIOUS
<1>1. model \in [Streams -> [at: 1 .. NModels + 1, yielded: BOOLEAN]]
      BY ModelsAssumption DEF Init
<1>2. scan \in [Cancels -> Scan] /\ reg \in [Streams -> Hash]
      BY DEF Init, Scan, Hash, NoHash
<1>3. overdue \in [Streams -> 0 .. OverdueBound]
      BY DEF Init, OverdueBound
<1> QED BY <1>1, <1>2, <1>3 DEF Init, TypeOK, StreamSteps, Targets, Roles

\* One step of a stream itself.  That the router is at a configured model when a token is
\* sent is part of VoiceInv.
LEMMA TypeStream ==
    ASSUME TypeOK, VoiceInv, NEW s \in Streams, Stream(s)
    PROVE  TypeOK'
<1> USE ModelsAssumption DEF TypeOK, Goto, Send, Discard, StreamSteps, Roles, cancelVars
<1>1. CASE Refuse(s)
      BY <1>1 DEF Refuse
<1>2. CASE Respond(s)
      BY <1>2 DEF Respond
<1>3. CASE Attach(s)
      BY <1>3 DEF Attach
<1>4. CASE AttachFails(s)
      BY <1>4 DEF AttachFails
<1>5. CASE Register(s)
  <2>1. reg' \in [Streams -> Hash]
        BY <1>5 DEF Register, Hash
  <2> QED BY <1>5, <2>1 DEF Register
<1>6. CASE SetExpiry(s)
  <2>1. reg' \in [Streams -> Hash]
        BY <1>6 DEF SetExpiry, Hash
  <2> QED BY <1>6, <2>1 DEF SetExpiry
<1>7. CASE RegisterFails(s)
      BY <1>7 DEF RegisterFails
<1>8. CASE Prepare(s)
      BY <1>8 DEF Prepare
<1>9. CASE PrepareFails(s)
      BY <1>9 DEF PrepareFails
<1>10. CASE NextToken(s)
      BY <1>10 DEF NextToken
<1>11. CASE AnswerEnds(s)
      BY <1>11 DEF AnswerEnds
<1>12. CASE ModelFails(s)
      BY <1>12 DEF ModelFails, Models
<1>13. CASE StreamFails(s)
      BY <1>13 DEF StreamFails
<1>14. CASE CheckToken(s)
      BY <1>14 DEF CheckToken
<1>15. CASE EmitToken(s)
  <2>1. model[s].at \in Models
        BY <1>15 DEF EmitToken, VoiceInv
  <2>2. voice' \in [Streams -> SUBSET Models]
        BY <1>15, <2>1 DEF EmitToken
  <2>3. overdue' \in [Streams -> 0 .. OverdueBound]
        BY <1>15 DEF EmitToken, OverdueBound
  <2> QED BY <1>15, <2>2, <2>3 DEF EmitToken
<1>16. CASE FinalCheck(s)
      BY <1>16 DEF FinalCheck
<1>17. CASE CheckFails(s)
      BY <1>17 DEF CheckFails
<1>18. CASE StoreAnswer(s)
      BY <1>18 DEF StoreAnswer
<1>19. CASE StoreFails(s)
      BY <1>19 DEF StoreFails
<1>20. CASE EmitCitations(s)
      BY <1>20 DEF EmitCitations
<1>21. CASE EmitDone(s)
      BY <1>21 DEF EmitDone
<1>22. CASE Drop(s)
      BY <1>22, DeleteKeyTypes DEF Drop
<1>23. CASE DropFails(s)
      BY <1>23 DEF DropFails
<1> QED BY <1>1, <1>2, <1>3, <1>4, <1>5, <1>6, <1>7, <1>8, <1>9, <1>10, <1>11, <1>12,
           <1>13, <1>14, <1>15, <1>16, <1>17, <1>18, <1>19, <1>20, <1>21, <1>22, <1>23
        DEF Stream

\* One step of a cancel request.
LEMMA TypeCancel ==
    ASSUME TypeOK, NEW c \in Cancels, Cancel(c)
    PROVE  TypeOK'
<1> USE DEF TypeOK, streamVars
<1>0. scan[c] \in Scan /\ scan[c].batch \subseteq Streams /\ scan[c].visited \subseteq Streams
      BY DEF Scan
<1>1. CASE CancelRejected(c)
      BY <1>1 DEF CancelRejected
<1>2. CASE CancelStart(c)
  <2>0. Present \in SUBSET Streams
        BY DEF Present
  <2>1. [scan[c] EXCEPT !.owed = Present] \in Scan
        BY <1>0, <2>0, ScanUpdates
  <2>2. scan' \in [Cancels -> Scan]
        BY <1>2, <2>1 DEF CancelStart
  <2> QED BY <1>2, <2>2 DEF CancelStart
<1>3. CASE ScanBatch(c)
  <2>1. PICK batch \in SUBSET Present : scan' = [scan EXCEPT ![c].batch = batch]
        BY <1>3 DEF ScanBatch
  <2>0. batch \in SUBSET Streams
        BY <2>1 DEF Present
  <2>2. [scan[c] EXCEPT !.batch = batch] \in Scan
        BY <1>0, <2>0, ScanUpdates
  <2>3. scan' \in [Cancels -> Scan]
        BY <2>1, <2>2
  <2> QED BY <1>3, <2>3 DEF ScanBatch
<1>4. CASE MarkKey(c)
  <2>1. PICK s \in scan[c].batch :
           /\ reg' = [reg EXCEPT ![s].key = TRUE, ![s].cancelled = TRUE]
           /\ scan' = [scan EXCEPT ![c].batch = @ \ {s}, ![c].visited = @ \cup {s},
                                   ![c].key = s]
        BY <1>4 DEF MarkKey
  <2>2. s \in Streams
        BY <1>0
  <2>3. [scan[c] EXCEPT !.batch = @ \ {s}, !.visited = @ \cup {s}, !.key = s] \in Scan
    <3>1. scan[c].batch \ {s} \in SUBSET Streams /\ scan[c].visited \cup {s} \in SUBSET Streams
          BY <1>0, <2>2
    <3> QED BY <1>0, <2>2, <3>1, ScanUpdates
  <2>4. scan' \in [Cancels -> Scan]
        BY <2>1, <2>3
  <2>5. reg' \in [Streams -> Hash]
        BY <2>1, <2>2 DEF Hash
  <2> QED BY <1>4, <2>4, <2>5 DEF MarkKey
<1>5. CASE RenewKey(c)
  <2>1. reg' \in [Streams -> Hash]
        BY <1>5 DEF RenewKey, Hash
  <2> QED BY <1>5, <2>1 DEF RenewKey
<1>6. CASE CancelReturn(c)
      BY <1>6 DEF CancelReturn
<1>7. CASE CancelFails(c)
      BY <1>7 DEF CancelFails
<1> QED BY <1>1, <1>2, <1>3, <1>4, <1>5, <1>6, <1>7 DEF Cancel

LEMMA TypeStep == TypeOK /\ VoiceInv /\ [Next]_vars => TypeOK'
<1> SUFFICES ASSUME TypeOK, VoiceInv, [Next]_vars PROVE TypeOK'
    OBVIOUS
<1>1. ASSUME NEW s \in Streams, Stream(s) PROVE TypeOK'
      BY <1>1, TypeStream
<1>2. ASSUME NEW s \in Streams, DeadlinePasses(s) PROVE TypeOK'
      BY <1>2 DEF TypeOK, DeadlinePasses, cancelVars
<1>3. ASSUME NEW s \in Streams, Disconnect(s) PROVE TypeOK'
  <2>1. reg' \in [Streams -> Hash] /\ scan' \in [Cancels -> Scan]
        BY <1>3, DeleteKeyTypes DEF Disconnect, TypeOK
  <2> QED BY <1>3, <2>1 DEF TypeOK, Disconnect, Goto, Send, Discard, StreamSteps
<1>4. ASSUME NEW s \in Streams, KeyExpires(s) PROVE TypeOK'
      BY <1>4, DeleteKeyTypes DEF TypeOK, KeyExpires, streamVars
<1>5. ASSUME NEW c \in Cancels, Cancel(c) PROVE TypeOK'
      BY <1>5, TypeCancel
<1>6. CASE UNCHANGED vars
      BY <1>6 DEF TypeOK, vars, streamVars, cancelVars
<1> QED BY <1>1, <1>2, <1>3, <1>4, <1>5, <1>6 DEF Next

(***************************************************************************)
(* What the client has seen.                                               *)
(***************************************************************************)
\* The steps of a stream that leave its own control, and the cancel requests.
LEMMA ElsewhereSame ==
    ASSUME \/ \E s \in Streams : DeadlinePasses(s) \/ KeyExpires(s)
           \/ \E c \in Cancels : Cancel(c)
           \/ UNCHANGED vars
    PROVE  UNCHANGED <<target, pc, phase, voice, model, tx, stored, overdue>>
<1>1. ASSUME NEW s \in Streams, DeadlinePasses(s) \/ KeyExpires(s)
      PROVE  UNCHANGED <<target, pc, phase, voice, model, tx, stored, overdue>>
      BY <1>1 DEF DeadlinePasses, KeyExpires, streamVars
<1>2. ASSUME NEW c \in Cancels, Cancel(c)
      PROVE  UNCHANGED <<target, pc, phase, voice, model, tx, stored, overdue>>
      BY <1>2 DEF Cancel, CancelRejected, CancelStart, ScanBatch, MarkKey, RenewKey,
                  CancelReturn, CancelFails, streamVars
<1> QED BY <1>1, <1>2 DEF vars, streamVars

LEMMA VoiceStep == TypeOK /\ VoiceInv /\ [Next]_vars => VoiceInv'
<1> SUFFICES ASSUME TypeOK, VoiceInv, [Next]_vars PROVE VoiceInv'
    OBVIOUS
<1> USE DEF VoiceInv, TypeOK, Goto, StreamSteps, Models
<1>1. ASSUME NEW s \in Streams, Stream(s) PROVE VoiceInv'
  <2>1. CASE Refuse(s) \/ Respond(s) \/ Attach(s) \/ AttachFails(s) \/ Register(s)
        BY <2>1 DEF Refuse, Respond, Attach, AttachFails, Register
  <2>2. CASE SetExpiry(s) \/ RegisterFails(s) \/ Prepare(s) \/ PrepareFails(s)
        BY <2>2 DEF SetExpiry, RegisterFails, Prepare, PrepareFails
  <2>3. CASE NextToken(s)
        BY <2>3 DEF NextToken
  <2>4. CASE AnswerEnds(s) \/ StreamFails(s) \/ CheckToken(s) \/ FinalCheck(s) \/ CheckFails(s)
        BY <2>4 DEF AnswerEnds, StreamFails, CheckToken, FinalCheck, CheckFails
  <2>5. CASE ModelFails(s)
        BY <2>5 DEF ModelFails
  <2>6. CASE EmitToken(s)
        BY <2>6 DEF EmitToken
  <2>7. CASE StoreAnswer(s) \/ StoreFails(s) \/ EmitCitations(s) \/ EmitDone(s)
        BY <2>7 DEF StoreAnswer, StoreFails, EmitCitations, EmitDone
  <2>8. CASE Drop(s) \/ DropFails(s)
        BY <2>8 DEF Drop, DropFails
  <2> QED BY <1>1, <2>1, <2>2, <2>3, <2>4, <2>5, <2>6, <2>7, <2>8 DEF Stream
<1>2. ASSUME NEW s \in Streams, Disconnect(s) PROVE VoiceInv'
      BY <1>2 DEF Disconnect
<1>3. ASSUME UNCHANGED <<pc, voice, model>> PROVE VoiceInv'
      BY <1>3
<1> QED BY <1>1, <1>2, <1>3, ElsewhereSame DEF Next

\* Every variable keeps its type; that a token is a configured model's rests on VoiceInv.
THEOREM Typing == Spec => []TypeOK
<1>1. Init => TypeOK /\ VoiceInv
      BY TypeInit DEF Init, VoiceInv
<1>2. TypeOK /\ VoiceInv /\ [Next]_vars => (TypeOK /\ VoiceInv)'
      BY TypeStep, VoiceStep
<1> QED BY <1>1, <1>2, PTL DEF Spec

LEMMA PhaseStep == TypeOK /\ PhaseInv /\ [Next]_vars => PhaseInv'
<1> SUFFICES ASSUME TypeOK, PhaseInv, [Next]_vars PROVE PhaseInv'
    OBVIOUS
<1> USE DEF PhaseInv, TypeOK, Goto, Send, StreamSteps, OpenSteps
<1>1. ASSUME NEW s \in Streams, Stream(s) PROVE PhaseInv'
  <2>1. CASE Refuse(s) \/ Respond(s) \/ Attach(s) \/ AttachFails(s) \/ Register(s)
        BY <2>1 DEF Refuse, Respond, Attach, AttachFails, Register
  <2>2. CASE SetExpiry(s) \/ RegisterFails(s) \/ Prepare(s) \/ PrepareFails(s)
        BY <2>2 DEF SetExpiry, RegisterFails, Prepare, PrepareFails
  <2>3. CASE NextToken(s) \/ AnswerEnds(s) \/ ModelFails(s) \/ StreamFails(s)
        BY <2>3 DEF NextToken, AnswerEnds, ModelFails, StreamFails
  <2>4. CASE CheckToken(s) \/ EmitToken(s) \/ FinalCheck(s) \/ CheckFails(s)
        BY <2>4 DEF CheckToken, EmitToken, FinalCheck, CheckFails
  <2>5. CASE StoreAnswer(s) \/ StoreFails(s) \/ EmitCitations(s) \/ EmitDone(s)
        BY <2>5 DEF StoreAnswer, StoreFails, EmitCitations, EmitDone
  <2>6. CASE Drop(s) \/ DropFails(s)
        BY <2>6 DEF Drop, DropFails
  <2> QED BY <1>1, <2>1, <2>2, <2>3, <2>4, <2>5, <2>6 DEF Stream
<1>2. ASSUME NEW s \in Streams, Disconnect(s) PROVE PhaseInv'
      BY <1>2 DEF Disconnect
<1>3. ASSUME UNCHANGED <<pc, phase>> PROVE PhaseInv'
      BY <1>3
<1> QED BY <1>1, <1>2, <1>3, ElsewhereSame DEF Next

\* A step of a stream is a step of ChatProtocol, or leaves what the client sees alone.
LEMMA StreamRefines ==
    ASSUME TypeOK, PhaseInv, VoiceInv, NEW s \in Streams, Stream(s)
    PROVE  Protocol!Next \/ UNCHANGED <<phase, voice>>
<1> USE DEF Goto, Send, PhaseInv, StreamSteps, OpenSteps
<1>0. \A f \in {"open", "cited", "waiting"}, t \in {"open", "refused", "error", "cancelled", "cited", "done", "lost"} :
         phase[s] = f /\ phase' = [phase EXCEPT ![s] = t] /\ UNCHANGED voice
             => Protocol!Move(s, f, t)
      BY DEF Protocol!Move
<1>1. CASE Refuse(s) \/ Respond(s)
  <2>1. Protocol!Answer(s)
        BY <1>1, <1>0 DEF Refuse, Respond, Protocol!Answer
  <2> QED BY <2>1 DEF Protocol!Next
<1>2. CASE AttachFails(s) \/ RegisterFails(s) \/ PrepareFails(s) \/ StreamFails(s)
  <2>1. phase[s] = "open" /\ UNCHANGED voice
        /\ \E t \in {"error", "lost"} : phase' = [phase EXCEPT ![s] = t]
        BY <1>2 DEF AttachFails, RegisterFails, PrepareFails, StreamFails
  <2> QED BY <2>1, <1>0 DEF Protocol!Next, Protocol!Close
<1>3. CASE CheckToken(s) \/ FinalCheck(s)
  <2>1. UNCHANGED voice /\ phase[s] = "open"
        BY <1>3 DEF CheckToken, FinalCheck
  <2>2. \/ UNCHANGED phase
        \/ \E t \in {"error", "cancelled"} : phase' = [phase EXCEPT ![s] = t]
        BY <1>3 DEF CheckToken, FinalCheck
  <2> QED BY <2>1, <2>2, <1>0 DEF Protocol!Next, Protocol!Close
<1>4. CASE CheckFails(s) \/ StoreFails(s)
  <2>1. phase[s] = "open" /\ UNCHANGED voice /\ phase' = [phase EXCEPT ![s] = "error"]
        BY <1>4 DEF CheckFails, StoreFails
  <2> QED BY <2>1, <1>0 DEF Protocol!Next, Protocol!Close
<1>5. CASE EmitToken(s)
  <2> DEFINE m == model[s].at
  <2>1. m \in Models /\ voice[s] \subseteq {m} /\ phase[s] = "open"
        BY <1>5 DEF EmitToken, VoiceInv
  <2>2. voice' = [voice EXCEPT ![s] = {m}] /\ UNCHANGED phase
    <3>1. voice[s] \cup {m} = {m}
          BY <2>1
    <3> QED BY <1>5, <3>1 DEF EmitToken
  <2>3. Protocol!Token(s)
        BY <2>1, <2>2 DEF Protocol!Token
  <2> QED BY <2>3 DEF Protocol!Next
<1>6. CASE EmitCitations(s)
  <2>1. Protocol!Cite(s)
        BY <1>6, <1>0 DEF EmitCitations, VoiceInv, Protocol!Cite
  <2> QED BY <2>1 DEF Protocol!Next
<1>7. CASE EmitDone(s)
  <2>1. Protocol!Close(s)
        BY <1>7, <1>0 DEF EmitDone, Protocol!Close
  <2> QED BY <2>1 DEF Protocol!Next
<1>8. CASE \/ Attach(s) \/ Register(s) \/ SetExpiry(s) \/ Prepare(s) \/ NextToken(s)
           \/ AnswerEnds(s) \/ ModelFails(s) \/ StoreAnswer(s) \/ Drop(s) \/ DropFails(s)
      BY <1>8 DEF Attach, Register, SetExpiry, Prepare, NextToken, AnswerEnds, ModelFails,
                  StoreAnswer, Drop, DropFails
<1> QED BY <1>1, <1>2, <1>3, <1>4, <1>5, <1>6, <1>7, <1>8 DEF Stream

\* The client sees what ChatProtocol promises: one model's tokens, one final event,
\* citations before done and never an empty answer, whatever fails.
THEOREM ClientProtocolHolds == Spec => ClientProtocol
<1> DEFINE I == TypeOK /\ PhaseInv /\ VoiceInv
<1>1. Init => I
      BY TypeInit DEF Init, PhaseInv, VoiceInv, OpenSteps, StreamSteps
<1>2. I /\ [Next]_vars => I'
      BY TypeStep, PhaseStep, VoiceStep
<1>3. Init => Protocol!Init
      BY DEF Init, Protocol!Init
<1>4. I /\ [Next]_vars => [Protocol!Next]_<<phase, voice>>
  <2> SUFFICES ASSUME I, [Next]_vars
               PROVE  Protocol!Next \/ UNCHANGED <<phase, voice>>
      OBVIOUS
  <2>1. ASSUME NEW s \in Streams, Stream(s)
        PROVE  Protocol!Next \/ UNCHANGED <<phase, voice>>
        BY <2>1, StreamRefines
  <2>2. ASSUME NEW s \in Streams, Disconnect(s)
        PROVE  Protocol!Next \/ UNCHANGED <<phase, voice>>
        BY <2>2 DEF Disconnect, Send, Protocol!Next, Protocol!Close, Protocol!Move
  <2> QED BY <2>1, <2>2, ElsewhereSame DEF Next
<1> QED BY <1>1, <1>2, <1>3, <1>4, PTL DEF Spec, ClientProtocol, Protocol!Spec

(***************************************************************************)
(* Cancelling.                                                             *)
(***************************************************************************)
\* A hash that says cancelled goes on saying so until its stream is over.
MarkStays(s) ==
    reg[s].cancelled /\ pc[s] \notin BeforeKey /\ pc'[s] # "closed" => reg'[s].cancelled

LEMMA StreamKeepsMark ==
    ASSUME TypeOK, NEW q \in Streams, Stream(q) \/ Disconnect(q), NEW s \in Streams
    PROVE  MarkStays(s)
<1> USE DEF MarkStays, TypeOK, BeforeKey, Goto, DeleteKey, StreamSteps
<1>1. CASE Register(q)
      BY <1>1 DEF Register, Hash
<1>2. CASE SetExpiry(q)
  <2>1. reg'[s].cancelled = reg[s].cancelled
        BY <1>2 DEF SetExpiry, Hash
  <2> QED BY <2>1
<1>3. CASE Drop(q)
      BY <1>3 DEF Drop
<1>4. CASE Disconnect(q)
      BY <1>4 DEF Disconnect
<1>5. CASE UNCHANGED reg
      BY <1>5
<1> QED BY <1>1, <1>2, <1>3, <1>4, <1>5
        DEF Stream, Refuse, Respond, Attach, AttachFails, RegisterFails, Prepare,
            PrepareFails, NextToken, AnswerEnds, ModelFails, StreamFails, CheckToken,
            EmitToken, FinalCheck, CheckFails, StoreAnswer, StoreFails, EmitCitations,
            EmitDone, DropFails

LEMMA CancelKeepsMark ==
    ASSUME TypeOK, NEW c \in Cancels, Cancel(c), NEW s \in Streams
    PROVE  reg[s].cancelled => reg'[s].cancelled
<1> USE DEF TypeOK, Hash
<1>1. CASE MarkKey(c)
      BY <1>1 DEF MarkKey
<1>2. CASE RenewKey(c)
  <2>1. reg'[s].cancelled = reg[s].cancelled
        BY <1>2 DEF RenewKey
  <2> QED BY <2>1
<1>3. CASE UNCHANGED reg
      BY <1>3
<1> QED BY <1>1, <1>2, <1>3 DEF Cancel, CancelRejected, CancelStart, ScanBatch, CancelReturn,
                                CancelFails

LEMMA MarkStep ==
    ASSUME TypeOK, KeysOutliveStreams, [Next]_vars, NEW s \in Streams
    PROVE  MarkStays(s)
<1>1. ASSUME NEW q \in Streams, KeyExpires(q) PROVE MarkStays(s)
      BY <1>1 DEF MarkStays, KeyExpires, DeleteKey, KeysOutliveStreams, TypeOK, streamVars
<1>2. ASSUME NEW c \in Cancels, Cancel(c) PROVE MarkStays(s)
      BY <1>2, CancelKeepsMark DEF MarkStays
<1>3. ASSUME UNCHANGED reg PROVE MarkStays(s)
      BY <1>3 DEF MarkStays
<1> QED BY <1>1, <1>2, <1>3, StreamKeepsMark DEF Next, DeadlinePasses, vars

LEMMA OverdueStep == TypeOK /\ OverdueInv /\ [Next]_vars => OverdueInv'
<1> SUFFICES ASSUME TypeOK, KeysOutliveStreams, OverdueInv, [Next]_vars, NEW s \in Streams
             PROVE  /\ overdue'[s] <= 1
                    /\ overdue'[s] = 1 =>
                         /\ pc'[s] \in {"stream", "check", "final", "drop", "closed"}
                         /\ pc'[s] \in {"stream", "check", "final"} => reg'[s].cancelled
    BY DEF OverdueInv, KeysOutliveStreams
<1> USE DEF TypeOK, OverdueInv, Goto, StreamSteps, BeforeKey
<1>1. MarkStays(s)
      BY MarkStep
<1>2. ASSUME NEW q \in Streams, EmitToken(q)
      PROVE  /\ overdue'[s] <= 1
             /\ overdue'[s] = 1 => /\ pc'[s] \in {"stream", "check", "final", "drop", "closed"}
                                   /\ pc'[s] \in {"stream", "check", "final"} => reg'[s].cancelled
  <2>1. overdue[q] = 0 /\ overdue[q] \in 0 .. OverdueBound /\ overdue[s] \in 0 .. OverdueBound
        BY <1>2 DEF EmitToken, OverdueBound
  <2>2. CASE q = s
        BY <1>2, <2>1, <2>2 DEF EmitToken, OverdueBound
  <2>3. CASE q # s
        BY <1>2, <2>1, <2>3 DEF EmitToken, OverdueBound
  <2> QED BY <2>2, <2>3
<1>3. ASSUME UNCHANGED overdue,
             pc[s] = "stream" => pc'[s] \in {"stream", "check", "final", "drop", "closed"},
             pc[s] = "check" => pc'[s] \in {"check", "drop", "closed"} \/ ~reg[s].cancelled,
             pc[s] = "final" => pc'[s] \in {"final", "drop", "closed"} \/ ~reg[s].cancelled,
             pc[s] \in {"drop", "closed"} => pc'[s] \in {"drop", "closed"}
      PROVE  /\ overdue'[s] <= 1
             /\ overdue'[s] = 1 => /\ pc'[s] \in {"stream", "check", "final", "drop", "closed"}
                                   /\ pc'[s] \in {"stream", "check", "final"} => reg'[s].cancelled
      BY <1>1, <1>3 DEF MarkStays
<1>4. ASSUME NEW q \in Streams, Stream(q), ~EmitToken(q)
      PROVE  /\ UNCHANGED overdue
             /\ pc[s] = "stream" => pc'[s] \in {"stream", "check", "final", "drop", "closed"}
             /\ pc[s] = "check" => pc'[s] \in {"check", "drop", "closed"} \/ ~reg[s].cancelled
             /\ pc[s] = "final" => pc'[s] \in {"final", "drop", "closed"} \/ ~reg[s].cancelled
             /\ pc[s] \in {"drop", "closed"} => pc'[s] \in {"drop", "closed"}
  <2>1. CASE Refuse(q) \/ Respond(q) \/ Attach(q) \/ AttachFails(q) \/ Register(q)
             \/ SetExpiry(q) \/ RegisterFails(q) \/ Prepare(q) \/ PrepareFails(q)
        BY <2>1 DEF Refuse, Respond, Attach, AttachFails, Register, SetExpiry, RegisterFails,
                    Prepare, PrepareFails
  <2>2. CASE NextToken(q) \/ AnswerEnds(q) \/ ModelFails(q) \/ StreamFails(q)
        BY <2>2 DEF NextToken, AnswerEnds, ModelFails, StreamFails
  <2>3. CASE CheckToken(q) \/ FinalCheck(q) \/ CheckFails(q)
        BY <2>3 DEF CheckToken, FinalCheck, CheckFails
  <2>4. CASE StoreAnswer(q) \/ StoreFails(q) \/ EmitCitations(q) \/ EmitDone(q)
             \/ Drop(q) \/ DropFails(q)
        BY <2>4 DEF StoreAnswer, StoreFails, EmitCitations, EmitDone, Drop, DropFails
  <2> QED BY <1>4, <2>1, <2>2, <2>3, <2>4 DEF Stream
<1>5. ASSUME NEW q \in Streams, Disconnect(q)
      PROVE  /\ UNCHANGED overdue
             /\ pc'[s] = pc[s] \/ pc'[s] = "closed"
      BY <1>5 DEF Disconnect
<1> QED BY <1>2, <1>3, <1>4, <1>5, ElsewhereSame DEF Next

\* At most one token follows the mark of a cancel request.
THEOREM CancelIsPrompt == Spec => []PromptCancel
<1> DEFINE I == TypeOK /\ VoiceInv /\ OverdueInv
<1>1. Init => I
      BY TypeInit DEF Init, VoiceInv, OverdueInv
<1>2. I /\ [Next]_vars => I'
      BY TypeStep, VoiceStep, OverdueStep
<1>3. I => PromptCancel
      BY DEF OverdueInv, PromptCancel
<1> QED BY <1>1, <1>2, <1>3, PTL DEF Spec

\* A stream that will not answer: marked in time, or over without an answer.
Doomed(s) ==
    /\ KeysOutliveStreams
    /\ \/ reg[s].cancelled /\ LastLookAhead(s)
       \/ pc[s] \in {"drop", "closed"} /\ ~Answered(s)

LEMMA DoomedStep ==
    ASSUME NEW s \in Streams
    PROVE  TypeOK /\ PhaseInv /\ Doomed(s) /\ [Next]_vars => Doomed(s)'
<1> SUFFICES ASSUME TypeOK, PhaseInv, Doomed(s), [Next]_vars PROVE Doomed(s)'
    OBVIOUS
<1> USE DEF TypeOK, Doomed, LastLookAhead, Answered, Goto, Send, StreamSteps, BeforeKey
<1>1. KeysOutliveStreams'
      BY DEF KeysOutliveStreams
<1>2. MarkStays(s) \/ pc[s] \notin {"prepare", "stream", "check", "emit", "final", "expire"}
      BY MarkStep
<1>3. ASSUME UNCHANGED <<pc, phase>> PROVE Doomed(s)'
      BY <1>1, <1>2, <1>3 DEF MarkStays
<1>4. ASSUME NEW q \in Streams, Stream(q), q # s PROVE Doomed(s)'
  <2>1. pc'[s] = pc[s] /\ phase'[s] = phase[s]
        BY <1>4 DEF Stream, Refuse, Respond, Attach, AttachFails, Register, SetExpiry,
                    RegisterFails, Prepare, PrepareFails, NextToken, AnswerEnds, ModelFails,
                    StreamFails, CheckToken, EmitToken, FinalCheck, CheckFails, StoreAnswer,
                    StoreFails, EmitCitations, EmitDone, Drop, DropFails
  <2> QED BY <1>1, <1>2, <2>1 DEF MarkStays
<1>5. ASSUME Stream(s) PROVE Doomed(s)'
  <2>1. CASE SetExpiry(s) \/ Prepare(s) \/ NextToken(s) \/ AnswerEnds(s) \/ ModelFails(s)
             \/ EmitToken(s)
        BY <1>1, <1>2, <2>1 DEF SetExpiry, Prepare, NextToken, AnswerEnds, ModelFails,
                                EmitToken, MarkStays
  <2>2. CASE RegisterFails(s) \/ PrepareFails(s) \/ StreamFails(s) \/ CheckToken(s)
             \/ FinalCheck(s) \/ CheckFails(s)
        BY <1>1, <2>2 DEF RegisterFails, PrepareFails, StreamFails, CheckToken, FinalCheck,
                          CheckFails
  <2>3. CASE Drop(s) \/ DropFails(s)
        BY <1>1, <2>3 DEF Drop, DropFails
  <2>4. CASE Refuse(s) \/ Respond(s) \/ Attach(s) \/ AttachFails(s) \/ Register(s)
             \/ StoreAnswer(s) \/ StoreFails(s) \/ EmitCitations(s) \/ EmitDone(s)
        BY <2>4 DEF Refuse, Respond, Attach, AttachFails, Register, StoreAnswer, StoreFails,
                    EmitCitations, EmitDone
  <2> QED BY <1>5, <2>1, <2>2, <2>3, <2>4 DEF Stream
<1>6. ASSUME NEW q \in Streams, Disconnect(q) PROVE Doomed(s)'
  <2>1. CASE q = s
        BY <1>1, <1>6, <2>1 DEF Disconnect, PhaseInv, OpenSteps
  <2>2. CASE q # s
    <3>1. pc'[s] = pc[s] /\ phase'[s] = phase[s]
          BY <1>6, <2>2 DEF Disconnect
    <3> QED BY <1>1, <1>2, <3>1 DEF MarkStays
  <2> QED BY <2>1, <2>2
<1> QED BY <1>3, <1>4, <1>5, <1>6, ElsewhereSame DEF Next

\* A stream marked before its last look at the flag never announces an answer.
THEOREM CancelHeeded == Spec => CancelIsHeeded
<1> SUFFICES ASSUME NEW s \in Streams
             PROVE  Spec => [](KeysOutliveStreams /\ reg[s].cancelled /\ LastLookAhead(s)
                                  => [](~Answered(s)))
    BY DEF CancelIsHeeded
<1> DEFINE I == TypeOK /\ VoiceInv /\ PhaseInv
<1>1. Init => I
      BY TypeInit DEF Init, VoiceInv, PhaseInv, OpenSteps, StreamSteps
<1>2. I /\ [Next]_vars => I'
      BY TypeStep, VoiceStep, PhaseStep
<1>3. KeysOutliveStreams /\ reg[s].cancelled /\ LastLookAhead(s) => Doomed(s)
      BY DEF Doomed
<1>4. I /\ Doomed(s) /\ [Next]_vars => Doomed(s)'
      BY DoomedStep
<1>5. I /\ Doomed(s) => ~Answered(s)
      BY DEF Doomed, PhaseInv, OpenSteps, StreamSteps, LastLookAhead, Answered
<1> QED BY <1>1, <1>2, <1>3, <1>4, <1>5, PTL DEF Spec

\* The parts of ScanInv: of a stream, and of a cancel request.
KeyOf(s) == pc[s] \in BeforeKey => ~reg[s].key
ScanOf(c) ==
    /\ cpc[c] = "idle" => scan[c].visited = {}
    /\ \A s \in scan[c].batch : pc[s] \notin BeforeKey
    /\ \A s \in scan[c].owed : reg[s].key
    /\ \A s \in scan[c].owed \cap scan[c].visited : reg[s].cancelled
    /\ cpc[c] = "returned" => scan[c].owed \subseteq scan[c].visited

LEMMA ScanStep == TypeOK /\ ScanInv /\ [Next]_vars => ScanInv'
<1> SUFFICES ASSUME TypeOK, ScanInv, [Next]_vars PROVE ScanInv'
    OBVIOUS
<1> USE DEF TypeOK, ScanInv, BeforeKey, Goto, StreamSteps
<1>0. /\ \A s \in Streams : reg[s] \in Hash
      /\ \A c \in Cancels : /\ scan[c] \in Scan /\ scan[c].owed \subseteq Streams
                            /\ scan[c].batch \subseteq Streams
      BY DEF Scan
<1>1. ASSUME NEW q \in Streams, DeleteKey(q),
             \A s \in Streams : pc'[s] \in BeforeKey => pc[s] \in BeforeKey, UNCHANGED cpc
      PROVE  ScanInv'
  <2>1. /\ \A c \in Cancels : /\ scan'[c].owed = scan[c].owed \ {q}
                              /\ scan'[c].batch = scan[c].batch
                              /\ scan'[c].visited = scan[c].visited
        BY <1>0, <1>1 DEF DeleteKey, Scan
  <2>2. \A s \in Streams : s # q => reg'[s] = reg[s]
        BY <1>1 DEF DeleteKey
  <2>3. ~reg'[q].key
        BY <1>1 DEF DeleteKey, NoHash
  <2>4. \A s \in Streams : KeyOf(s)'
        BY <1>0, <1>1, <2>2, <2>3 DEF KeyOf
  <2>5. ASSUME NEW c \in Cancels PROVE ScanOf(c)'
        BY <1>0, <1>1, <2>1, <2>2 DEF ScanOf
  <2> QED BY <2>4, <2>5 DEF KeyOf, ScanOf
<1>2. ASSUME UNCHANGED <<reg, cancelVars>>,
             \A s \in Streams : pc'[s] \in BeforeKey => pc[s] \in BeforeKey
      PROVE  ScanInv'
      BY <1>0, <1>2 DEF cancelVars
<1>3. ASSUME NEW q \in Streams, Register(q) PROVE ScanInv'
  <2>1. \A c \in Cancels : q \notin scan[c].owed
        BY <1>3 DEF Register
  <2>2. \A s \in Streams : s # q => reg'[s] = reg[s] /\ pc'[s] = pc[s]
        BY <1>3 DEF Register
  <2>3. pc'[q] = "expire" /\ UNCHANGED <<cpc, scan>>
        BY <1>3 DEF Register, cancelVars
  <2>4. \A s \in Streams : KeyOf(s)'
        BY <2>2, <2>3 DEF KeyOf
  <2>5. ASSUME NEW c \in Cancels PROVE ScanOf(c)'
        BY <1>0, <2>1, <2>2, <2>3 DEF ScanOf
  <2> QED BY <2>4, <2>5 DEF KeyOf, ScanOf
<1>4. ASSUME NEW q \in Streams, SetExpiry(q) PROVE ScanInv'
  <2>1. \A s \in Streams : reg'[s].key = reg[s].key /\ reg'[s].cancelled = reg[s].cancelled
        BY <1>0, <1>4 DEF SetExpiry, Hash
  <2> QED BY <1>0, <1>4, <2>1 DEF SetExpiry, cancelVars
<1>5. ASSUME NEW q \in Streams, Stream(q), ~Register(q), ~SetExpiry(q), ~Drop(q) PROVE ScanInv'
  <2>1. UNCHANGED <<reg, cancelVars>>
        BY <1>5 DEF Stream, Refuse, Respond, Attach, AttachFails, RegisterFails, Prepare,
                    PrepareFails, NextToken, AnswerEnds, ModelFails, StreamFails, CheckToken,
                    EmitToken, FinalCheck, CheckFails, StoreAnswer, StoreFails, EmitCitations,
                    EmitDone, DropFails
  <2>2. \A s \in Streams : pc'[s] \in BeforeKey => pc[s] \in BeforeKey
        BY <1>5 DEF Stream, Refuse, Respond, Attach, AttachFails, RegisterFails, Prepare,
                    PrepareFails, NextToken, AnswerEnds, ModelFails, StreamFails, CheckToken,
                    EmitToken, FinalCheck, CheckFails, StoreAnswer, StoreFails, EmitCitations,
                    EmitDone, DropFails
  <2> QED BY <2>1, <2>2, <1>2
<1>6. ASSUME NEW q \in Streams, Drop(q) \/ Disconnect(q) \/ KeyExpires(q) PROVE ScanInv'
  <2>1. \A s \in Streams : pc'[s] \in BeforeKey => pc[s] \in BeforeKey
        BY <1>6 DEF Drop, Disconnect, KeyExpires, streamVars
  <2>2. UNCHANGED cpc /\ (DeleteKey(q) \/ UNCHANGED <<reg, scan>>)
        BY <1>6 DEF Drop, Disconnect, KeyExpires
  <2> QED BY <2>1, <2>2, <1>1, <1>2 DEF cancelVars
<1>7. ASSUME NEW c \in Cancels, Cancel(c) PROVE ScanInv'
  <2>1. CASE CancelRejected(c) \/ CancelReturn(c) \/ CancelFails(c)
    <3>1. UNCHANGED <<pc, reg, scan>> /\ \A d \in Cancels : d # c => cpc'[d] = cpc[d]
          BY <2>1 DEF CancelRejected, CancelReturn, CancelFails, streamVars
    <3>2. /\ cpc'[c] # "idle"
          /\ cpc'[c] = "returned" => scan[c].owed \subseteq scan[c].visited
          BY <2>1 DEF CancelRejected, CancelReturn, CancelFails
    <3> QED BY <3>1, <3>2
  <2>2. CASE CancelStart(c)
    <3>1. /\ scan'[c].owed = Present /\ scan'[c].batch = scan[c].batch
          /\ scan'[c].visited = scan[c].visited /\ scan[c].visited = {}
          BY <1>0, <2>2 DEF CancelStart, Scan
    <3>2. \A d \in Cancels : d # c => scan'[d] = scan[d] /\ cpc'[d] = cpc[d]
          BY <2>2 DEF CancelStart
    <3>3. \A s \in Present : s \in Streams /\ reg[s].key
          BY DEF Present
    <3>4. cpc'[c] = "scan" /\ UNCHANGED <<pc, reg>>
          BY <2>2 DEF CancelStart, streamVars
    <3> QED BY <1>0, <3>1, <3>2, <3>3, <3>4
  <2>3. CASE ScanBatch(c)
    <3>1. PICK batch \in SUBSET Present : scan' = [scan EXCEPT ![c].batch = batch]
          BY <2>3 DEF ScanBatch
    <3>2. /\ scan'[c].batch = batch /\ scan'[c].owed = scan[c].owed
          /\ scan'[c].visited = scan[c].visited
          BY <1>0, <3>1 DEF Scan
    <3>3. \A s \in batch : s \in Streams /\ reg[s].key
          BY <3>1 DEF Present
    <3>4. UNCHANGED <<pc, reg, cpc>>
          BY <2>3 DEF ScanBatch, streamVars
    <3>5. \A d \in Cancels : d # c => scan'[d] = scan[d]
          BY <3>1
    <3> QED BY <1>0, <3>2, <3>3, <3>4, <3>5
  <2>4. CASE MarkKey(c)
    <3>1. PICK s \in scan[c].batch :
             /\ reg' = [reg EXCEPT ![s].key = TRUE, ![s].cancelled = TRUE]
             /\ scan' = [scan EXCEPT ![c].batch = @ \ {s}, ![c].visited = @ \cup {s},
                                     ![c].key = s]
          BY <2>4 DEF MarkKey
    <3>2. s \in Streams /\ pc[s] \notin BeforeKey /\ UNCHANGED pc
          BY <1>0, <2>4 DEF MarkKey, streamVars
    <3>3. /\ scan'[c].batch = scan[c].batch \ {s} /\ scan'[c].owed = scan[c].owed
          /\ scan'[c].visited = scan[c].visited \cup {s}
          BY <1>0, <3>1 DEF Scan
    <3>4. \A d \in Cancels : d # c => scan'[d] = scan[d] /\ cpc'[d] = cpc[d]
          BY <2>4, <3>1 DEF MarkKey
    <3>5. /\ reg'[s].key /\ reg'[s].cancelled
          /\ \A x \in Streams : x # s => reg'[x] = reg[x]
          BY <1>0, <3>1, <3>2 DEF Hash
    <3>6. cpc'[c] = "expire"
          BY <2>4 DEF MarkKey
    <3>7. \A x \in Streams : KeyOf(x)'
          BY <3>2, <3>5 DEF KeyOf
    <3>8. ScanOf(c)'
          BY <1>0, <3>2, <3>3, <3>5, <3>6 DEF ScanOf
    <3>9. ASSUME NEW d \in Cancels, d # c PROVE ScanOf(d)'
          BY <1>0, <3>2, <3>4, <3>5, <3>9 DEF ScanOf
    <3> QED BY <3>7, <3>8, <3>9 DEF KeyOf, ScanOf
  <2>5. CASE RenewKey(c)
    <3>1. \A s \in Streams : reg'[s].key = reg[s].key /\ reg'[s].cancelled = reg[s].cancelled
          BY <1>0, <2>5 DEF RenewKey, Hash
    <3>2. UNCHANGED <<pc, scan>> /\ cpc' = [cpc EXCEPT ![c] = "scan"]
          BY <2>5 DEF RenewKey, streamVars
    <3> QED BY <1>0, <3>1, <3>2
  <2> QED BY <1>7, <2>1, <2>2, <2>3, <2>4, <2>5 DEF Cancel
<1>8. CASE UNCHANGED vars \/ \E q \in Streams : DeadlinePasses(q)
      BY <1>8 DEF vars, DeadlinePasses, streamVars, cancelVars
<1> QED BY <1>3, <1>4, <1>5, <1>6, <1>7, <1>8 DEF Next

\* A cancel request that returned has marked every generation it found registered at its
\* start and that is still there.
THEOREM CancelComplete == Spec => []CancelReachesAll
<1> DEFINE I == TypeOK /\ VoiceInv /\ ScanInv
<1>1. Init => I
      BY TypeInit DEF Init, VoiceInv, ScanInv, NoHash, BeforeKey
<1>2. I /\ [Next]_vars => I'
      BY TypeStep, VoiceStep, ScanStep
<1>3. I => CancelReachesAll
      BY DEF ScanInv, CancelReachesAll
<1> QED BY <1>1, <1>2, <1>3, PTL DEF Spec
=============================================================================
