-------------------------- MODULE PaymentLifecycle --------------------------
(***************************************************************************)
(* What the switch promises, seen from its two sides: the terminals, who   *)
(* get at most one answer per request, and the bank, who gets a reversal   *)
(* advice (0420) only for a request whose terminal was told 68, or because *)
(* one came in.  Nothing here knows of guards, NAT tables, channels or     *)
(* threads.                                                                *)
(***************************************************************************)
EXTENDS FiniteSets

CONSTANTS
    Attempts,   \* requests
    Id,         \* Id[a]: the transaction (RRN and acquirer) of request a
    Upstream,   \* requests only the bank may approve
    Reversals   \* requests that are themselves reversal advices

VARIABLES
    answer,     \* answer[a]: the code a's terminal has been given
    bank,       \* bank[a]: the bank's decision on request a
    advised     \* requests for which a reversal advice was sent

vars == <<answer, bank, advised>>

LocalDeclines == {"05", "56", "59", "93", "94"}

Init ==
    /\ answer = [a \in Attempts |-> "none"]
    /\ bank = [a \in Attempts |-> "none"]
    /\ advised = {}

Answer(a, rc) == answer[a] = "none" /\ answer' = [answer EXCEPT ![a] = rc]

BankDecides(a, verdict) ==
    /\ bank[a] = "none"
    /\ bank' = [bank EXCEPT ![a] = verdict]
    /\ UNCHANGED <<answer, advised>>

\* The switch answers without the bank: a decline of any request, or the
\* acknowledgement of a request that is not the bank's to approve.
AnswerLocally(a, rc) ==
    /\ Answer(a, rc)
    /\ rc \in LocalDeclines \/ (rc = "00" /\ a \notin Upstream)
    /\ UNCHANGED <<bank, advised>>

\* The switch passes on the bank's word on a request of the same transaction.
\* A 0430, which acknowledges a reversal advice, is passed on as well.
PassOn(a, rc) ==
    /\ Answer(a, rc)
    /\ \E b \in {b \in Attempts : Id[b] = Id[a]} :
           \/ rc = "00" /\ (bank[b] = "approved" \/ b \in advised)
           \/ rc = "51" /\ bank[b] = "declined"
    /\ UNCHANGED <<bank, advised>>

TimeOut(a) == Answer(a, "68") /\ UNCHANGED <<bank, advised>>

Advise(a) ==
    /\ answer[a] = "68" \/ a \in Reversals
    /\ a \notin advised
    /\ advised' = advised \cup {a}
    /\ UNCHANGED <<answer, bank>>

Next ==
    \E a \in Attempts :
        \/ \E verdict \in {"approved", "declined"} : BankDecides(a, verdict)
        \/ \E rc \in LocalDeclines \cup {"00"} : AnswerLocally(a, rc)
        \/ \E rc \in {"00", "51"} : PassOn(a, rc)
        \/ TimeOut(a) \/ Advise(a)

Spec == Init /\ [][Next]_vars
=============================================================================
