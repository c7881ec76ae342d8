------------------------------- MODULE Canvas -------------------------------
(***************************************************************************)
(* What the acceleration of src/src/exa promises to an X client: drawing   *)
(* takes effect in the order of the requests, and the processor reads what *)
(* was drawn, whatever is deferred, batched, cancelled or still queued.    *)
(***************************************************************************)
EXTENDS Drawing

CONSTANT Drawings  \* the operations the clients ask for

VARIABLES
    canvas, \* contents of the pixmaps
    seen    \* what the processor read last

Init ==
    /\ canvas = [p \in Pixmaps |-> [x \in Cells(p) |-> Clear]]
    /\ seen = <<>>

Paint == \E o \in Drawings : canvas' = Draw(canvas, o) /\ UNCHANGED seen

Look == \E p \in Pixmaps : seen' = <<p, canvas[p]>> /\ UNCHANGED canvas

Next == Paint \/ Look

Spec == Init /\ [][Next]_<<canvas, seen>>
=============================================================================
