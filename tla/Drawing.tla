------------------------------ MODULE Drawing ------------------------------
(***************************************************************************)
(* What a drawing operation does to the contents of pixmaps: the blending  *)
(* of src/src/exa/composite_3d.c and the fills and copies of solid_2d.c    *)
(* and copy_2d.c, on pixmaps of one or two cells.                          *)
(*                                                                         *)
(* The cell "s" stands for an area below TEGRA_EXA_CPU_FILL_MIN_SIZE       *)
(* bytes, the cell "l" for one above it.  A colour is Clear (0x0), or an   *)
(* opaque one; Black is 0xff000000, what a Clear pixel of a format without *)
(* an alpha channel reads as.                                              *)
(***************************************************************************)
EXTENDS Integers, Sequences, SequencesExt

CONSTANTS
    Pixmaps,
    Large,   \* the pixmaps that have both cells
    Alpha,   \* the pixmaps whose format has an alpha channel
    NoPixmap

Clear   == 0
Black   == 2
Colours == 0..2

Cells(p) == IF p \in Large THEN {"s", "l"} ELSE {"s"}

(* The operand of an operation: a solid colour, or a pixmap with or        *)
(* without a repeat type.                                                  *)
Solid(c)      == [pix |-> NoPixmap, colour |-> c, repeat |-> FALSE]
Texture(p, r) == [pix |-> p, colour |-> Clear, repeat |-> r]

(* A pixel as a format without an alpha channel shows it.                  *)
View(p, c) == IF p \notin Alpha /\ c = Clear THEN Black ELSE c

(* The colour of an operand at a cell; outside of a pixmap it is clear.    *)
(* A copy is a copy of bits, whatever the format.                          *)
Texel(m, op, t, x) ==
    IF t.pix = NoPixmap THEN t.colour
    ELSE IF op = "Copy" THEN m[t.pix][x]
    ELSE IF x \in Cells(t.pix) THEN View(t.pix, m[t.pix][x])
    ELSE IF t.repeat THEN View(t.pix, m[t.pix]["s"])
    ELSE Clear

(* A rectangle covers cells of the destination; the source of a cell is    *)
(* the same cell, or the other one if the rectangle is shifted.            *)
From(shift, x) == IF ~ shift THEN x ELSE IF x = "s" THEN "l" ELSE "s"

Blend(op, d, s, k) ==
    LET in == IF k = Clear THEN Clear ELSE s
    IN  IF op = "Over" /\ in = Clear THEN d ELSE in

Operands == {Solid(c) : c \in Colours} \cup {Texture(p, r) : p \in Pixmaps, r \in BOOLEAN}

(* What the X server asks the driver for is clipped to the pixmaps: a copy *)
(* has a source for each of its cells.                                     *)
Operations ==
    {o \in [op : {"Copy", "Src", "Over"}, dst : Pixmaps, src : Operands,
            mask : Operands, cells : SUBSET {"s", "l"}, shift : BOOLEAN] :
        /\ o.cells \subseteq Cells(o.dst)
        /\ o.op = "Copy" => \A t \in {o.src, o.mask} : t.pix # NoPixmap =>
              \A x \in o.cells : From(o.shift, x) \in Cells(t.pix)}

(* The contents m of the pixmaps after the operation o.                    *)
Draw(m, o) ==
    [m EXCEPT ![o.dst] = [x \in DOMAIN @ |->
        IF x \in o.cells
        THEN Blend(o.op, @[x], Texel(m, o.op, o.src, From(o.shift, x)),
                               Texel(m, o.op, o.mask, From(o.shift, x)))
        ELSE @[x]]]

(* The operations of a job, in their order.                                *)
DrawAll(m, ops) ==
    LET drawn[n \in 0..Len(ops)] ==
            IF n = 0 THEN m ELSE Draw(drawn[n - 1], ops[n])
    IN  drawn[Len(ops)]
=============================================================================
