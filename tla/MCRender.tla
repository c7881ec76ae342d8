------------------------------ MODULE MCRender ------------------------------
(* Small sets of requests for Render. *)
EXTENDS RenderProps

CONSTANTS A, B, D  \* pixmaps

Rect(cells, shift) == [cells |-> cells, shift |-> shift]
All(p)   == Rect(Cells(p), FALSE)
Small    == Rect({"s"}, FALSE)
Shifted  == Rect({"s"}, TRUE)

Ask(kind, op, d, src, mask, rects) ==
    [kind |-> kind, op |-> op, dst |-> d, src |-> src, mask |-> mask, rects |-> rects]

NoMask == Solid(Black)

Fill(d, c, rects)          == Ask("solid", "Copy", d, Solid(c), NoMask, rects)
CopyOf(d, s, rects)        == Ask("copy", "Copy", d, Texture(s, FALSE), NoMask, rects)
Rotate(d, s, rects)        == Ask("rotate", "Copy", d, Texture(s, FALSE), NoMask, rects)
Comp(op, d, src, m, rects) == Ask("composite", op, d, src, m, rects)
Soft(d, src, R)            == Ask("soft", "Copy", d, src, NoMask, <<R>>)
LookAt(p)                  == Ask("look", "Copy", p, Solid(Clear), NoMask, <<>>)

(* Drawing with the 2D engine alone, on a large and a small pixmap, and a   *)
(* few composites with a small one, D, that has no alpha channel.           *)
Requests2D ==
    {Fill(p, c, <<All(p)>>) : p \in {A, B}, c \in {Clear, 1}}
    \cup {Fill(A, c, <<Small>>) : c \in {Clear, 1}}
    \cup {Fill(A, 1, <<Small, Rect({"l"}, FALSE)>>)}
    \cup {CopyOf(B, A, <<All(B)>>), CopyOf(B, A, <<Shifted>>),
          CopyOf(A, A, <<Shifted>>)}
    \cup {Soft(B, Texture(A, FALSE), Small), LookAt(A), LookAt(B)}
    \cup {Soft(A, Solid(1), Small)}
    \cup {Fill(D, c, <<All(D)>>) : c \in {Clear, 1}} \cup {LookAt(D)}
    \cup {Comp(op, D, Texture(B, FALSE), NoMask, <<Small>>) : op \in {"Src", "Over"}}
    \cup {Comp("Src", B, Texture(D, FALSE), Texture(B, FALSE), <<Small>>),
          Comp("Over", B, Texture(D, FALSE), NoMask, <<Small>>),
          Comp("Over", D, Solid(1), Solid(Clear), <<Small>>),
          Comp("Over", D, Solid(1), Texture(B, TRUE), <<Small>>)}

(* Composites between a large and a small pixmap, and what interferes; D is *)
(* scanned out and shows A rotated.                                         *)
RequestsMixed ==
    {Rotate(D, A, <<All(D)>>), Comp("Over", D, Texture(B, TRUE), NoMask, <<Small>>),
     Fill(D, 1, <<All(D)>>)} \cup
    {Fill(B, c, <<All(B)>>) : c \in {Clear, 1}}
    \cup {Fill(A, c, <<All(A)>>) : c \in {Clear, 1}}
    \cup {Comp("Over", A, Texture(B, TRUE), NoMask, <<R>>) : R \in {All(A), Small}}
    \cup {Comp("Over", B, Texture(A, FALSE), NoMask, <<R>>) : R \in {Small, Shifted}}
    \cup {Comp("Src", A, Texture(B, FALSE), NoMask, <<All(A)>>)}
    \cup {Comp("Over", A, Solid(1), Texture(B, TRUE), <<All(A)>>)}
    \cup {CopyOf(A, B, <<Small>>), CopyOf(B, A, <<All(B)>>)}
    \cup {Soft(B, Texture(A, FALSE), Small), Soft(A, Solid(1), Small), LookAt(A), LookAt(B)}

(* Three pixmaps and a deferred job that has room for few of them. *)
RequestsLimits ==
    {Comp("Over", A, Texture(B, TRUE), NoMask, <<Small>>),
     Comp("Over", A, Texture(D, TRUE), Texture(B, TRUE), <<Small>>),
     Comp("Over", D, Texture(B, FALSE), NoMask, <<Small>>),
     Fill(B, 1, <<All(B)>>), Fill(A, 1, <<Small>>), CopyOf(D, B, <<All(D)>>),
     Soft(B, Texture(D, FALSE), Small), LookAt(A)}

=============================================================================
