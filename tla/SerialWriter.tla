---------------------------- MODULE SerialWriter -----------------------------
(***************************************************************************)
(* What internal/storage promises its callers about CreateTransfer and     *)
(* UpdateTransfer, without channel and batches: requests are answered in   *)
(* the order of their arrival; those answered with success become durable  *)
(* a little later, in that order, together or not at all.                  *)
(***************************************************************************)
EXTENDS Naturals, Sequences

CONSTANT Requests

VARIABLES
    queue,    \* accepted, not answered
    answer,   \* "none", "ok" or "err"
    open,     \* answered with success, not durable yet
    durable   \* in the database, in the order they took effect

serialVars == <<queue, answer, open, durable>>

Member(r, s) == \E i \in 1..Len(s) : s[i] = r

Submit(r) ==
    /\ answer[r] = "none" /\ ~Member(r, queue)
    /\ queue' = Append(queue, r)
    /\ UNCHANGED <<answer, open, durable>>

\* The oldest request is answered; if its write was executed it is open.
Reply(a) ==
    /\ queue # <<>>
    /\ queue' = Tail(queue)
    /\ answer' = [answer EXCEPT ![Head(queue)] = a]
    /\ open' = IF a = "ok" THEN Append(open, Head(queue)) ELSE open
    /\ UNCHANGED durable

\* The n oldest requests are refused at once.
Refuse(n) ==
    /\ n \in 1..Len(queue) /\ open = <<>>
    /\ queue' = SubSeq(queue, n + 1, Len(queue))
    /\ answer' = [r \in Requests |->
                    IF Member(r, SubSeq(queue, 1, n)) THEN "err" ELSE answer[r]]
    /\ UNCHANGED <<open, durable>>

\* Everything that is open becomes durable, or nothing of it does.
Settle ==
    /\ open # <<>>
    /\ open' = <<>>
    /\ durable' \in {durable \o open, durable}
    /\ UNCHANGED <<queue, answer>>

\* The process ends; what is durable stays.
End ==
    /\ queue' = <<>> /\ open' = <<>>
    /\ UNCHANGED <<answer, durable>>

SerialInit ==
    /\ queue = <<>> /\ open = <<>> /\ durable = <<>>
    /\ answer = [r \in Requests |-> "none"]

SerialNext ==
    \/ \E r \in Requests : Submit(r)
    \/ \E a \in {"ok", "err"} : Reply(a)
    \/ \E n \in 1..Len(queue) : Refuse(n)
    \/ Settle
    \/ End

SerialSpec == SerialInit /\ [][SerialNext]_serialVars
=============================================================================
