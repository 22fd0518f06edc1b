--------------------------- MODULE AmsRequestSpec ---------------------------
(***************************************************************************)
(* What AmsConnection::AdsRequest promises its callers, without saying how *)
(* (AmsConnection.h:54: "wait for response or timeout and return received  *)
(* errorCode or ADSERR_CLIENT_SYNCTIMEOUT").  A call is answered at most    *)
(* once by the peer; it returns exactly once, and what it returns is       *)
(* decided by the peer's answer to this very call, by its own deadline, or *)
(* by a failure to send that the peer never saw.                           *)
(***************************************************************************)
EXTENDS Naturals

CONSTANTS
    Threads,       \* application threads
    MaxRequests,   \* bound: calls per thread
    BufferLength,  \* capacity of a caller's buffer, in units
    MaxPayload     \* bound: payload units of an answer

VARIABLES
    busy,      \* busy[t]: thread t is inside AdsRequest
    calls,     \* calls[t]: calls thread t has started; numbers the current one
    late,      \* late[t]: the deadline of the current call has passed
    answers,   \* the answers the peer has given so far
    result     \* result[t]: what the last call returned, while no call runs

vars == <<busy, calls, late, answers, result>>

\* A call is named by its thread and its number.
Tags == Threads \X (0 .. MaxRequests)

\* The peer answers with a result and payload, with an AoE error, or with a
\* command id the client does not know.
Answers == [kind : {"ok", "aoe", "unknown"}, tag : Tags, size : 0 .. MaxPayload]

NoResult == [code |-> "none", tag |-> <<>>, size |-> 0]

\* What a call returns when the peer's answer a is delivered to it.
Delivered(a) ==
    LET fits == a.size <= BufferLength
        code == [unknown |-> "SYNCRESINVALID",
                 aoe     |-> "AOE_ERROR",
                 ok      |-> IF fits THEN "RESULT" ELSE "INVALIDSIZE"]
    IN  [code |-> code[a.kind],
         tag  |-> a.tag,
         size |-> IF a.kind = "ok" /\ fits THEN a.size ELSE 0]

Local(code, tag) == [code |-> code, tag |-> tag, size |-> 0]

Init ==
    /\ busy = [t \in Threads |-> FALSE]
    /\ calls = [t \in Threads |-> 0]
    /\ late = [t \in Threads |-> FALSE]
    /\ answers = {}
    /\ result = [t \in Threads |-> NoResult]

Call(t) ==
    /\ ~busy[t]
    /\ calls[t] < MaxRequests
    /\ busy' = [busy EXCEPT ![t] = TRUE]
    /\ calls' = [calls EXCEPT ![t] = @ + 1]
    /\ late' = [late EXCEPT ![t] = FALSE]
    /\ result' = [result EXCEPT ![t] = NoResult]
    /\ UNCHANGED answers

DeadlinePasses(t) ==
    /\ busy[t]
    /\ late' = [late EXCEPT ![t] = TRUE]
    /\ UNCHANGED <<busy, calls, answers, result>>

\* The peer answers a call that was made and was not reported as unsent.
\* The answer may come long after the call has given up waiting.
PeerAnswers(a) ==
    /\ a.tag[2] \in 1 .. calls[a.tag[1]]
    /\ \A b \in answers : b.tag # a.tag
    /\ result[a.tag[1]] \notin {Local("SEND_FAILED", a.tag), Local("PORTNOTOPEN", a.tag)}
    /\ answers' = answers \cup {a}
    /\ UNCHANGED <<busy, calls, late, result>>

\* What the peer has answered to the current call of t: one answer or none.
AnswersTo(t) == {a \in answers : a.tag = <<t, calls[t]>>}

ReturnWith(t, r) ==
    /\ busy[t]
    /\ busy' = [busy EXCEPT ![t] = FALSE]
    /\ result' = [result EXCEPT ![t] = r]
    /\ UNCHANGED <<calls, late, answers>>

ReturnAnswer(t) == \E a \in AnswersTo(t) : ReturnWith(t, Delivered(a))

ReturnTimeout(t) ==
    /\ late[t]
    /\ ReturnWith(t, Local("SYNCTIMEOUT", <<t, calls[t]>>))

\* A call that could not be sent: the caller may repeat it, the peer has not
\* answered it and never will.
ReturnUnsent(t) ==
    /\ AnswersTo(t) = {}
    /\ \E code \in {"SEND_FAILED", "PORTNOTOPEN"} :
          ReturnWith(t, Local(code, <<t, calls[t]>>))

Return(t) == ReturnAnswer(t) \/ ReturnTimeout(t) \/ ReturnUnsent(t)

Next ==
    \/ \E t \in Threads : Call(t) \/ DeadlinePasses(t) \/ Return(t)
    \/ \E a \in Answers : PeerAnswers(a)

\* Time passes and calls return; nothing is owed by the callers or the peer.
Fairness == \A t \in Threads : WF_vars(DeadlinePasses(t)) /\ WF_vars(Return(t))

Spec == Init /\ [][Next]_vars

FairSpec == Spec /\ Fairness
=============================================================================
