------------------------------- MODULE Mirror --------------------------------
(***************************************************************************)
(* What the gateway promises for the objects of an app: each transfer of a *)
(* key is begun once and is alone with its key until it ends or the        *)
(* process does; the destination changes only under a transfer of the key, *)
(* to a version of the source that is not older than the one it has.       *)
(*                                                                         *)
(* How notifications are collapsed, queued, retried and recorded is left   *)
(* open.  Gateway is shown to implement this specification.                *)
(***************************************************************************)
EXTENDS Naturals

CONSTANTS Keys, Transfers

VARIABLES
    src, dst,   \* object versions at the source and at the destination
    begun,      \* transfers that were ever begun
    work        \* the transfers under way, each with its key

mirrorVars == <<src, dst, begun, work>>

Busy == {p[2] : p \in work}

MirrorInit ==
    /\ src = [k \in Keys |-> 0] /\ dst = [k \in Keys |-> 0]
    /\ begun = {} /\ work = {}

Change(k) ==
    /\ src' = [src EXCEPT ![k] = @ + 1]
    /\ UNCHANGED <<dst, begun, work>>

Begin(t, k) ==
    /\ t \notin begun /\ k \notin Busy
    /\ begun' = begun \union {t} /\ work' = work \union {<<t, k>>}
    /\ UNCHANGED <<src, dst>>

Replicate(k) ==
    /\ k \in Busy
    /\ \E v \in dst[k]..src[k] : dst' = [dst EXCEPT ![k] = v]
    /\ UNCHANGED <<src, begun, work>>

\* It is finished, or given up because the process is stopping.
End(p) ==
    /\ work' = work \ {p}
    /\ UNCHANGED <<src, dst, begun>>

Lose ==
    /\ work' = {}
    /\ UNCHANGED <<src, dst, begun>>

MirrorNext ==
    \/ \E k \in Keys : Change(k) \/ Replicate(k) \/ \E t \in Transfers : Begin(t, k)
    \/ \E p \in work : End(p)
    \/ Lose

MirrorSpec == MirrorInit /\ [][MirrorNext]_mirrorVars
=============================================================================
