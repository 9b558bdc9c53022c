---------------------------- MODULE RequestReply ----------------------------
(***************************************************************************)
(* What the Rfx framework promises to RILJ and to the RIL clients, with    *)
(* none of its queues: a request that was issued is answered, once, by one *)
(* RFX_onRequestComplete, in an order of the framework's choosing.         *)
(* RfxRequest is the framework itself and implements this specification.   *)
(***************************************************************************)
EXTENDS Naturals

CONSTANT Request        \* the requests a client may issue

VARIABLES issued,       \* the requests handed to the framework so far
          answers       \* how many times each one was answered

vars == <<issued, answers>>

TypeOK == /\ issued \in SUBSET Request
          /\ answers \in [Request -> Nat]

Init == /\ issued = {}
        /\ answers = [r \in Request |-> 0]

Issue(r) == /\ r \notin issued
            /\ issued' = issued \union {r}
            /\ UNCHANGED answers

Answer(r) == /\ r \in issued
             /\ answers[r] = 0
             /\ answers' = [answers EXCEPT ![r] = 1]
             /\ UNCHANGED issued

Next == \E r \in Request : Issue(r) \/ Answer(r)

Spec == /\ Init
        /\ [][Next]_vars
        /\ \A r \in Request : WF_vars(Answer(r))
=============================================================================
