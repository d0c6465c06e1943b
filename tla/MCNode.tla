------------------------------- MODULE MCNode -------------------------------
(***************************************************************************)
(* Instances of Node for TLC: the names /a and /a/b, the command prefix,   *)
(* a command that registers /a, one with bad parameters and one with       *)
(* another verb; one broadcast face.                                       *)
(***************************************************************************)
EXTENDS Node

CONSTANTS k1, k2

a == <<"a">>
ab == <<"a", "b">>
rib == <<"rib">>
reg == <<"rib", "register", "a">>
bad == <<"rib", "register", "malformed">>
unreg == <<"rib", "unregister", "a">>

Components == {"a", "b", "rib", "register", "malformed", "unregister"}
AllNames == {a, ab, rib, reg, bad, unreg}
DrainNames == {a, rib, unreg}
AskedNames == {a, reg}

Publish(n, fresh, size) == [name |-> n, freshness |-> fresh, size |-> size]
NoData == {}
MoreData == {Publish(ab, 1, 1), Publish(a, 0, 2)}

Cmd(verb, n, f) == [verb |-> verb, prefix |-> n, faceId |-> f]
DrainCmds == unreg :> Cmd("ignored", a, 0)
AllCmds == reg :> Cmd("register", a, 0) @@ bad :> Cmd("malformed", a, 0)
           @@ unreg :> Cmd("ignored", a, 0)

BroadcastRoute == {<<a, 1>>}

\* The state without what was sent last, which no step reads.
FlowState == <<m_faceCounter, accepting, m_faceTable, m_pit, m_fib, m_queue, m_count,
               credit, running>>

NonceSymmetry == Permutations(Nonce)
=============================================================================
