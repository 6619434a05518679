----------------------------- MODULE ReadLater -----------------------------
(***************************************************************************)
(* What doc/vimb.1 promises of the read it later queue: one list, shared   *)
(* by the instances, into which URIs are put at the end or at the front,   *)
(* and from which the first one is taken to be opened.  A command that is  *)
(* given takes effect once, or never if its instance ends before.          *)
(***************************************************************************)
EXTENDS Sequences

CONSTANTS Instance, Uri

VARIABLES
    queue,  \* the URIs for later reading
    asked,  \* the command every instance was given
    page    \* what every instance took from the queue last, if anything

vars == <<queue, asked, page>>

Nothing == [kind |-> "nothing"]
Command == [kind : {"push", "unshift"}, uri : Uri] \cup {[kind |-> "pop"]}

Init ==
    /\ queue = <<>>
    /\ asked = [p \in Instance |-> Nothing]
    /\ page = [p \in Instance |-> {}]

\* :qpush, :qunshift or :qpop is typed.
Ask(p, c) ==
    /\ asked[p] = Nothing
    /\ c.kind = "pop" => queue # <<>>
    /\ asked' = [asked EXCEPT ![p] = c]
    /\ UNCHANGED <<queue, page>>

Done(p) == asked' = [asked EXCEPT ![p] = Nothing]

Push(p) ==
    /\ asked[p].kind = "push"
    /\ queue' = Append(queue, asked[p].uri)
    /\ Done(p) /\ UNCHANGED page

Unshift(p) ==
    /\ asked[p].kind = "unshift"
    /\ queue' = <<asked[p].uri>> \o queue
    /\ Done(p) /\ UNCHANGED page

Pop(p) ==
    /\ asked[p].kind = "pop" /\ queue # <<>>
    /\ page' = [page EXCEPT ![p] = {Head(queue)}]
    /\ queue' = Tail(queue)
    /\ Done(p)

\* :qclear
Clear == queue' = <<>> /\ UNCHANGED <<asked, page>>

\* An instance ends, or is started anew.
End(p) == Done(p) /\ UNCHANGED <<queue, page>>
Restart(p) == page' = [page EXCEPT ![p] = {}] /\ UNCHANGED <<queue, asked>>

Next ==
    \/ \E p \in Instance, c \in Command : Ask(p, c)
    \/ \E p \in Instance : Push(p) \/ Unshift(p) \/ Pop(p) \/ End(p) \/ Restart(p)
    \/ Clear

Spec == Init /\ [][Next]_vars
=============================================================================
