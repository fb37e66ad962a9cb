----------------------------- MODULE MCSnapshot -----------------------------
(* The containers of Delegates with a history variable: the nodes that     *)
(* were bound in the list when each active broadcast began, which is the   *)
(* snapshot the comment of MulticastDelegate speaks of.                    *)
EXTENDS Delegates
CONSTANTS f, g, l

MCMade == {FreeBind(f), FreeBind(g)}

VARIABLE snapshot

Taken(list0) == IF list0 = Nil THEN {} ELSE BoundIds(list0)

MCNext ==
    /\ DelegatesNext
    /\ snapshot' = CASE Len(stack') > Len(stack) -> <<Taken(stack'[1].list)>> \o snapshot
                     [] Len(stack') < Len(stack) -> Tail(snapshot)
                     [] OTHER -> snapshot

MCSpec == DelegatesInit /\ snapshot = <<>> /\ [][MCNext]_<<delegatesVars, snapshot>>

(* "A snapshot of the delegates is taken during the broadcast. If a        *)
(* delegate is removed during a broadcast, it will still be invoked in the *)
(* current broadcast pass if it was in the snapshot." (MulticastDelegate.h *)
(* 20-22).  The code goes along the live list (61-66).                     *)
SnapshotIsCalled ==
    Iterating /\ Top.node = 0 => snapshot[1] \subseteq ToSet(Top.called)
=============================================================================
