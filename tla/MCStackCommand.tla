--------------------------- MODULE MCStackCommand ---------------------------
(* A small instance of StackCommand. *)
EXTENDS StackCommand

OnlyDeterminism == {"determinism"}
BothHistories == {"own", "table"}
Deployed == {"table"}

Invocation(remote, local, detach, gate, arms, requireReady, login) ==
    [remote |-> remote, local |-> local, detach |-> detach, gate |-> gate, arms |-> arms,
     baseline |-> FALSE, requireReady |-> requireReady, login |-> login]

Named(b) == Invocation(b[1], b[2], b[3], b[4], b[5], b[6], b[7])

\* Of the invocations that go to the stack, those that gate: an evaluation that
\* meets its bar goes the way of one without.  (Without a grade there is no
\* falling back, and --remote adds nothing to a login.)
MCInvocations ==
    {i \in {Named(b) : b \in [1..7 -> BOOLEAN]} :
        OnStack(i) /\ ~i.arms => ~i.remote /\ (i.gate \/ i.detach)}
=============================================================================
