---------------------------- MODULE Screen_proof ----------------------------
(***************************************************************************)
(* What is proved of Screen, for one CRTC and for two, for every set of    *)
(* ids, pictures, rotations and places of the window, and for all choices  *)
(* of failing calls that a theorem does not exclude.                       *)
(***************************************************************************)
EXTENDS ScreenInv, TLAPS, FiniteSetTheorems, WellFoundedInduction

-----------------------------------------------------------------------------
(* Ids.                                                                    *)

LEMMA IdsFact ==
    /\ Fbs = Bos /\ 0 \notin Fbs /\ Fbs \subseteq Nat /\ IsFiniteSet(Fbs)
    /\ FrontIds \subseteq Fbs /\ ImageIds \subseteq Fbs
    /\ \A c \in Crtcs : ShadowIds[c] \subseteq Fbs /\ RotatedIds[c] \subseteq Fbs
    /\ RotatedBos \subseteq Fbs
BY FramebuffersAssumption DEF Fbs, Bos, RotatedBos

LEMMA MinFact ==
    ASSUME NEW S, S \subseteq Nat, S # {}
    PROVE  Min(S) \in S
<1>. DEFINE R == {ss \in Nat \X Nat : ss[1] < ss[2]}
<1>1. IsWellFoundedOn(R, Nat)
    BY NatLessThanWellFounded DEF OpToRel
<1>2. PICK n \in S : \A m \in S : ~ (<<m, n>> \in R)
    <2>. HIDE DEF R
    <2>. QED
        BY <1>1, WFMin, Zenon
<1>3. ASSUME NEW m \in S PROVE n <= m
    <2>1. n \in Nat /\ m \in Nat /\ ~ (<<m, n>> \in R)
        BY <1>2
    <2>. QED
        BY <2>1
<1>. QED
    BY <1>3, Zenon DEF Min

\* The next framebuffer and BO are free ones, as long as there is one.
LEMMA NewFbFact ==
    ASSUME NEW d, NEW ids \in SUBSET Fbs, \E f \in ids : d.fb[f] = 0
    PROVE  NewFb(d, ids) \in ids /\ d.fb[NewFb(d, ids)] = 0
<1>. DEFINE S == {f \in ids : d.fb[f] = 0}
<1>1. S \subseteq Nat /\ S # {}
    BY IdsFact, Zenon
<1>2. Min(S) \in S
    <2>. HIDE DEF S
    <2>. QED
        BY <1>1, MinFact, Zenon
<1>. QED
    BY <1>2 DEF NewFb

FreeBo(d, b) == d.bo[b].refs = 0 /\ \A f \in Fbs : d.fb[f] # b

LEMMA NewBoFact ==
    ASSUME NEW d, NEW ids \in SUBSET Fbs, \E b \in ids : FreeBo(d, b)
    PROVE  NewBo(d, ids) \in ids /\ FreeBo(d, NewBo(d, ids))
<1>. DEFINE S == {b \in ids : d.bo[b].refs = 0 /\ \A f \in Fbs : d.fb[f] # b}
<1>1. S \subseteq Nat /\ S # {}
    BY IdsFact, Zenon DEF FreeBo
<1>2. Min(S) \in S
    <2>. HIDE DEF S
    <2>. QED
        BY <1>1, MinFact, Zenon
<1>3. NewBo(d, ids) \in S
    BY <1>2 DEF NewBo
<1>. QED
    BY <1>3 DEF FreeBo

-----------------------------------------------------------------------------
(* References.                                                             *)

Count(fb, x) == Cardinality({h \in Fbs : fb[h] = x})

\* One framebuffer more, or less, of a BO.
LEMMA CountMore ==
    ASSUME NEW fb \in [Fbs -> BoOrNone], NEW f \in Fbs, fb[f] = 0, NEW b \in Bos,
           NEW new, new = [fb EXCEPT ![f] = b], NEW x \in Bos
    PROVE  Count(new, x) = IF x = b THEN Count(fb, x) + 1 ELSE Count(fb, x)
<1>. DEFINE Under(g) == {h \in Fbs : g[h] = x}
<1>1. b # 0 /\ x # 0
    BY IdsFact
<1>2. CASE x = b
    <2>1. Under(new) = Under(fb) \cup {f} /\ f \notin Under(fb)
        BY <1>1, <1>2
    <2>2. IsFiniteSet(Under(fb))
        BY IdsFact, FS_Subset
    <2>. QED
        BY <1>2, <2>1, <2>2, FS_AddElement, ZenonT(40) DEF Count
<1>3. CASE x # b
    <2>1. Under(new) = Under(fb)
        BY <1>1, <1>3
    <2>. QED
        BY <1>3, <2>1 DEF Count
<1>. QED
    BY <1>2, <1>3

LEMMA CountLess ==
    ASSUME NEW fb \in [Fbs -> BoOrNone], NEW f \in Fbs, NEW b \in Bos, fb[f] = b,
           NEW new, new = [fb EXCEPT ![f] = 0], NEW x \in Bos
    PROVE  Count(new, x) = IF x = b THEN Count(fb, x) - 1 ELSE Count(fb, x)
<1>. DEFINE Under(g) == {h \in Fbs : g[h] = x}
<1>1. b # 0 /\ x # 0
    BY IdsFact
<1>2. CASE x = b
    <2>1. Under(new) = Under(fb) \ {f} /\ f \in Under(fb)
        BY <1>1, <1>2
    <2>2. IsFiniteSet(Under(fb))
        BY IdsFact, FS_Subset
    <2>. QED
        BY <1>2, <2>1, <2>2, FS_RemoveElement, Zenon DEF Count
<1>3. CASE x # b
    <2>1. Under(new) = Under(fb)
        BY <1>1, <1>3
    <2>. QED
        BY <1>3, <2>1 DEF Count
<1>. QED
    BY <1>2, <1>3

LEMMA RefsFact ==
    ASSUME NEW d
    PROVE  Refs(d) <=> \A b \in Bos : d.bo[b].refs = Count(d.fb, b)
BY DEF Refs, Count

LEMMA DrmFact ==
    ASSUME NEW d, NEW fb, NEW bo, NEW scan, NEW plane,
           d = [fb |-> fb, bo |-> bo, scan |-> scan, plane |-> plane],
           fb \in [Fbs -> BoOrNone],
           bo \in [Bos -> [refs : Nat, pixels : [image : Images, rotation : Nat]]],
           scan \in [Crtcs -> FbOrNone], plane \in [Crtcs -> FbOrNone]
    PROVE  d \in Drms
BY DEF Drms

LEMMA DrmParts ==
    ASSUME NEW d \in Drms
    PROVE  /\ d = [fb |-> d.fb, bo |-> d.bo, scan |-> d.scan, plane |-> d.plane]
           /\ d.fb \in [Fbs -> BoOrNone]
           /\ d.bo \in [Bos -> [refs : Nat, pixels : [image : Images, rotation : Nat]]]
           /\ d.scan \in [Crtcs -> FbOrNone] /\ d.plane \in [Crtcs -> FbOrNone]
BY DEF Drms

LEMMA Unreferenced ==
    ASSUME NEW d \in Drms, Refs(d), NEW b \in Bos
    PROVE  /\ (\A f \in Fbs : d.fb[f] # b) => FreeBo(d, b)
           /\ (\E f \in Fbs : d.fb[f] = b) => d.bo[b].refs >= 1
<1>. DEFINE S == {f \in Fbs : d.fb[f] = b}
<1>1. d.bo[b].refs = Cardinality(S) /\ IsFiniteSet(S)
    BY IdsFact, FS_Subset DEF Refs
<1>2. S = {} => Cardinality(S) = 0
    BY FS_EmptySet
<1>3. S # {} => Cardinality(S) >= 1
    BY <1>1, FS_EmptySet, FS_CardinalityType
<1>. QED
    BY <1>1, <1>2, <1>3 DEF FreeBo

-----------------------------------------------------------------------------
(* What the calls do to the kernel's objects.                              *)

Pics == [image : Images, rotation : Nat]

LEMMA BlankFact == NoBo.pixels \in Pics /\ NoBo.refs = 0 /\ Blank \in Images
BY DEF NoBo, Picture, Pics, Images

\* A new BO with a framebuffer.
Created(d, r, f, b, pixels) ==
    /\ r.fb = [d.fb EXCEPT ![f] = b]
    /\ r.bo = [d.bo EXCEPT ![b] = [refs |-> 1, pixels |-> pixels]]
    /\ r.scan = d.scan /\ r.plane = d.plane

LEMMA CreateFact ==
    ASSUME NEW d \in Drms, Refs(d), NEW ids \in SUBSET Fbs, NEW pixels \in Pics,
           \E f \in ids : d.fb[f] = 0, \E b \in ids : FreeBo(d, b),
           NEW b, b = NewBo(d, ids), NEW f, f = NewFb(d, ids),
           NEW r, r = AddFB(BoNew(d, ids, pixels), ids, b)
    PROVE  /\ Created(d, r, f, b, pixels)
           /\ r \in Drms /\ Refs(r)
           /\ f \in ids /\ d.fb[f] = 0 /\ b \in ids /\ FreeBo(d, b)
           /\ \A g \in Fbs : d.fb[g] # 0 => r.fb[g] = d.fb[g] /\ Pixels(r, g) = Pixels(d, g)
           /\ Pixels(r, f) = pixels
<1>1. f \in ids /\ d.fb[f] = 0 /\ b \in ids /\ FreeBo(d, b)
    BY NewFbFact, NewBoFact
<1>2. f \in Fbs /\ b \in Bos /\ b # 0
    BY <1>1, IdsFact
<1>3. BoNew(d, ids, pixels) = [d EXCEPT !.bo[b] = [refs |-> 1, pixels |-> pixels]]
    BY DEF BoNew
<1>4. NewFb(BoNew(d, ids, pixels), ids) = f
    BY <1>3 DEF NewFb, Drms
<1>5. r = [BoNew(d, ids, pixels) EXCEPT !.fb[f] = b]
    BY <1>4 DEF AddFB
<1>6. Created(d, r, f, b, pixels)
    BY <1>3, <1>5, Zenon DEF Created, Drms
<1>7. r \in Drms
    <2>1. r = [fb |-> r.fb, bo |-> r.bo, scan |-> r.scan, plane |-> r.plane]
        BY <1>3, <1>5, Zenon DEF Drms
    <2>2. r.fb \in [Fbs -> BoOrNone]
        BY <1>2, <1>6, DrmParts DEF Created, BoOrNone
    <2>3. r.bo \in [Bos -> [refs : Nat, pixels : [image : Images, rotation : Nat]]]
        BY <1>2, <1>6, DrmParts DEF Created, Pics
    <2>. QED
        BY <1>6, <2>1, <2>2, <2>3, DrmFact, DrmParts, Zenon DEF Created
<1>8. Refs(r)
    <2>1. SUFFICES ASSUME NEW x \in Bos
                   PROVE  r.bo[x].refs = Count(r.fb, x)
        BY RefsFact
    <2>2. d.fb \in [Fbs -> BoOrNone] /\ d.bo[x].refs = Count(d.fb, x)
        BY RefsFact DEF Drms
    <2>3. CASE x = b
        <3>1. d.bo[x].refs = 0
            BY <1>1, <2>3 DEF FreeBo
        <3>2. r.bo[x].refs = 1
            BY <1>2, <1>6, <2>3 DEF Created, Drms
        <3>3. Count(r.fb, x) = Count(d.fb, x) + 1
            BY <1>1, <1>2, <1>6, <2>2, <2>3, CountMore DEF Created
        <3>4. Count(d.fb, x) = 0
            BY <2>2, <3>1
        <3>5. Count(r.fb, x) = 1
            BY <3>3, <3>4
        <3>. QED
            BY <3>2, <3>5
    <2>4. CASE x # b
        <3>1. r.bo[x] = d.bo[x]
            BY <1>2, <1>6, <2>4 DEF Created, Drms
        <3>2. Count(r.fb, x) = Count(d.fb, x)
            BY <1>1, <1>2, <1>6, <2>2, <2>4, CountMore DEF Created
        <3>. QED
            BY <2>2, <3>1, <3>2
    <2>. QED
        BY <2>3, <2>4
<1>9. \A g \in Fbs : d.fb[g] # 0 => r.fb[g] = d.fb[g] /\ r.bo[d.fb[g]] = d.bo[d.fb[g]]
    BY <1>1, <1>2, <1>6 DEF Created, Drms, FreeBo, BoOrNone
<1>10. r.fb[f] = b /\ r.bo[b].pixels = pixels
    BY <1>2, <1>6 DEF Created, Drms
<1>. QED
    BY <1>1, <1>6, <1>7, <1>8, <1>9, <1>10 DEF Pixels

\* A second framebuffer of the BO under g.
Cloned(d, r, f, b) ==
    /\ r.fb = [d.fb EXCEPT ![f] = b]
    /\ r.bo = [d.bo EXCEPT ![b].refs = @ + 1]
    /\ r.scan = d.scan /\ r.plane = d.plane

LEMMA CloneFact ==
    ASSUME NEW d \in Drms, Refs(d), NEW ids \in SUBSET Fbs,
           \E f \in ids : d.fb[f] = 0,
           NEW g \in Fbs, d.fb[g] # 0,
           NEW f, f = NewFb(d, ids), NEW r, r = drm_clone_fb(d, ids, g)
    PROVE  /\ Cloned(d, r, f, d.fb[g])
           /\ r \in Drms /\ Refs(r)
           /\ f \in ids /\ d.fb[f] = 0
           /\ \A h \in Fbs : d.fb[h] # 0 => r.fb[h] = d.fb[h] /\ Pixels(r, h) = Pixels(d, h)
           /\ Pixels(r, f) = Pixels(d, g)
<1>. DEFINE b == d.fb[g]
<1>1. f \in ids /\ f \in Fbs /\ d.fb[f] = 0
    BY NewFbFact, IdsFact, Zenon
<1>2. b \in Bos /\ b # 0
    BY DEF Drms, BoOrNone
<1>3. AddFB(d, ids, b) = [d EXCEPT !.fb[f] = b]
    BY DEF AddFB
<1>4. r = [AddFB(d, ids, b) EXCEPT !.bo[b].refs = @ + 1]
    BY DEF drm_clone_fb, BoRef
<1>5. Cloned(d, r, f, b)
    BY <1>3, <1>4, Zenon DEF Cloned, Drms
<1>6. r \in Drms
    <2>1. r = [fb |-> r.fb, bo |-> r.bo, scan |-> r.scan, plane |-> r.plane]
        BY <1>3, <1>4, Zenon DEF Drms
    <2>2. r.fb \in [Fbs -> BoOrNone]
        BY <1>1, <1>2, <1>5, DrmParts, SMTT(20) DEF Cloned, BoOrNone
    <2>3. r.bo \in [Bos -> [refs : Nat, pixels : [image : Images, rotation : Nat]]]
        BY <1>2, <1>5, DrmParts DEF Cloned
    <2>. QED
        BY <1>5, <2>1, <2>2, <2>3, DrmFact, DrmParts, Zenon DEF Cloned
<1>7. Refs(r)
    <2>1. SUFFICES ASSUME NEW x \in Bos
                   PROVE  r.bo[x].refs = Count(r.fb, x)
        BY RefsFact
    <2>2. d.fb \in [Fbs -> BoOrNone] /\ d.bo[x].refs = Count(d.fb, x)
        BY RefsFact DEF Drms
    <2>3. CASE x = b
        <3>1. r.bo[x].refs = d.bo[x].refs + 1
            BY <1>2, <1>5, <2>3 DEF Cloned, Drms
        <3>2. Count(r.fb, x) = Count(d.fb, x) + 1
            BY <1>1, <1>2, <1>5, <2>2, <2>3, CountMore DEF Cloned
        <3>. QED
            BY <2>2, <3>1, <3>2
    <2>4. CASE x # b
        <3>1. r.bo[x] = d.bo[x]
            BY <1>2, <1>5, <2>4 DEF Cloned, Drms
        <3>2. Count(r.fb, x) = Count(d.fb, x)
            BY <1>1, <1>2, <1>5, <2>2, <2>4, CountMore DEF Cloned
        <3>. QED
            BY <2>2, <3>1, <3>2
    <2>. QED
        BY <2>3, <2>4
<1>8. \A h \in Fbs : /\ d.fb[h] # 0 => r.fb[h] = d.fb[h]
                     /\ d.fb[h] # 0 => r.bo[d.fb[h]].pixels = d.bo[d.fb[h]].pixels
    <2>1. SUFFICES ASSUME NEW h \in Fbs, d.fb[h] # 0
                   PROVE  r.fb[h] = d.fb[h] /\ r.bo[d.fb[h]].pixels = d.bo[d.fb[h]].pixels
        OBVIOUS
    <2>2. d.fb[h] \in Bos
        BY <2>1 DEF Drms, BoOrNone
    <2>3. r.fb[h] = d.fb[h]
        BY <1>1, <1>5, <2>1 DEF Cloned, Drms
    <2>4. r.bo[d.fb[h]].pixels = d.bo[d.fb[h]].pixels
        BY <1>2, <1>5, <2>2, SMTT(20) DEF Cloned, Drms
    <2>. QED
        BY <2>3, <2>4
<1>9. r.fb[f] = b
    BY <1>1, <1>5 DEF Cloned, Drms
<1>. QED
    BY <1>1, <1>2, <1>5, <1>6, <1>7, <1>8, <1>9 DEF Pixels

\* A framebuffer goes, and its BO with the last one.
Freed(d, r, f) ==
    /\ r.fb = [d.fb EXCEPT ![f] = 0]
    /\ r.scan = [c \in Crtcs |-> IF d.scan[c] = f THEN 0 ELSE d.scan[c]]
    /\ r.plane = [c \in Crtcs |-> IF d.plane[c] = f THEN 0 ELSE d.plane[c]]

LEMMA FreeFact ==
    ASSUME NEW d \in Drms, Refs(d), NEW f \in Fbs, d.fb[f] # 0,
           NEW b, b = d.fb[f], NEW r, r = BoUnref(RmFB(d, f), b)
    PROVE  /\ Freed(d, r, f)
           /\ r \in Drms /\ Refs(r)
           /\ \A g \in Fbs \ {f} : d.fb[g] # 0 =>
                 r.fb[g] = d.fb[g] /\ Pixels(r, g) = Pixels(d, g)
<1>. DEFINE m == RmFB(d, f)
<1>1. b \in Bos /\ b # 0 /\ f # 0
    BY IdsFact DEF Drms, BoOrNone
<1>2. /\ m.fb = [d.fb EXCEPT ![f] = 0] /\ m.bo = d.bo
      /\ m.scan = [c \in Crtcs |-> IF d.scan[c] = f THEN 0 ELSE d.scan[c]]
      /\ m.plane = [c \in Crtcs |-> IF d.plane[c] = f THEN 0 ELSE d.plane[c]]
    BY <1>1 DEF RmFB, Drms
<1>3. m \in Drms
    <2>1. m = [fb |-> m.fb, bo |-> m.bo, scan |-> m.scan, plane |-> m.plane]
        BY <1>1, Zenon DEF RmFB, Drms
    <2>2. m.fb \in [Fbs -> BoOrNone]
        BY <1>2 DEF Drms, BoOrNone
    <2>3. m.scan \in [Crtcs -> FbOrNone] /\ m.plane \in [Crtcs -> FbOrNone]
        BY <1>2 DEF Drms, FbOrNone
    <2>. HIDE DEF m
    <2>. QED
        BY <1>2, <2>1, <2>2, <2>3 DEF Drms
<1>. HIDE DEF m
<1>4. r = [m EXCEPT !.bo[b] = IF d.bo[b].refs = 1 THEN NoBo
                              ELSE [d.bo[b] EXCEPT !.refs = @ - 1]]
    BY <1>1, <1>2, <1>3, Zenon DEF BoUnref, Drms, m
<1>5. Freed(d, r, f)
    BY <1>2, <1>3, <1>4 DEF Freed, Drms
<1>6. d.bo[b].refs >= 1 /\ d.bo[b].refs \in Nat
    BY <1>1, Unreferenced DEF Drms
<1>7. r \in Drms
    <2>1. (IF d.bo[b].refs = 1 THEN NoBo ELSE [d.bo[b] EXCEPT !.refs = @ - 1])
              \in [refs : Nat, pixels : [image : Images, rotation : Nat]]
        BY <1>1, <1>6, BlankFact DEF Drms, NoBo, Pics
    <2>2. r = [fb |-> m.fb, bo |-> r.bo, scan |-> m.scan, plane |-> m.plane]
        BY <1>3, <1>4, Zenon DEF Drms
    <2>3. r.bo \in [Bos -> [refs : Nat, pixels : [image : Images, rotation : Nat]]]
        BY <1>1, <1>3, <1>4, <2>1, <1>2, DrmParts
    <2>. QED
        BY <1>3, <2>2, <2>3, DrmFact, DrmParts
<1>8. r.bo = [d.bo EXCEPT ![b] = IF d.bo[b].refs = 1 THEN NoBo
                                 ELSE [d.bo[b] EXCEPT !.refs = @ - 1]]
    BY <1>2, <1>3, <1>4 DEF Drms
<1>9. Refs(r)
    <2>1. SUFFICES ASSUME NEW x \in Bos
                   PROVE  r.bo[x].refs = Count(r.fb, x)
        BY RefsFact
    <2>2. d.fb \in [Fbs -> BoOrNone] /\ d.bo[x].refs = Count(d.fb, x)
        BY RefsFact DEF Drms
    <2>3. CASE x = b
        <3>1. r.bo[x].refs = d.bo[x].refs - 1
            BY <1>1, <1>6, <1>8, <2>3, BlankFact DEF Drms
        <3>2. Count(r.fb, x) = Count(d.fb, x) - 1
            BY <1>1, <1>5, <2>2, <2>3, CountLess DEF Freed
        <3>. QED
            BY <2>2, <3>1, <3>2
    <2>4. CASE x # b
        <3>1. r.bo[x] = d.bo[x]
            BY <1>1, <1>8, <2>4 DEF Drms
        <3>2. Count(r.fb, x) = Count(d.fb, x)
            BY <1>1, <1>5, <2>2, <2>4, CountLess DEF Freed
        <3>. QED
            BY <2>2, <3>1, <3>2
    <2>. QED
        BY <2>3, <2>4
<1>10. ASSUME NEW g \in Fbs \ {f}, d.fb[g] # 0
       PROVE  r.fb[g] = d.fb[g] /\ r.bo[d.fb[g]].pixels = d.bo[d.fb[g]].pixels
    <2>1. r.fb[g] = d.fb[g] /\ d.fb[g] \in Bos
        BY <1>5, <1>10 DEF Freed, Drms, BoOrNone
    <2>2. CASE d.fb[g] = b
        <3>1. r.bo[b].refs >= 1
            BY <1>7, <1>9, <1>1, <2>1, <2>2, Unreferenced
        <3>2. d.bo[b].refs # 1
            BY <1>1, <1>8, <3>1, BlankFact DEF Drms
        <3>. QED
            BY <1>1, <1>8, <2>1, <2>2, <3>2 DEF Drms
    <2>3. CASE d.fb[g] # b
        BY <1>1, <1>8, <2>1, <2>3 DEF Drms
    <2>. QED
        BY <2>2, <2>3
<1>. QED
    BY <1>5, <1>7, <1>9, <1>10 DEF Pixels

\* A BO that is given back before it has a framebuffer.
LEMMA DropFact ==
    ASSUME NEW d \in Drms, Refs(d), NEW ids \in SUBSET Fbs, NEW pixels \in Pics,
           \E b \in ids : FreeBo(d, b),
           NEW b, b = NewBo(d, ids), NEW r, r = BoUnref(BoNew(d, ids, pixels), b)
    PROVE  /\ r.fb = d.fb /\ r.scan = d.scan /\ r.plane = d.plane
           /\ r \in Drms /\ Refs(r)
           /\ \A g \in Fbs : d.fb[g] # 0 => Pixels(r, g) = Pixels(d, g)
           /\ b \in ids
<1>1. b \in ids /\ FreeBo(d, b) /\ b \in Bos /\ b # 0
    BY NewBoFact, IdsFact, Zenon
<1>. DEFINE m == BoNew(d, ids, pixels)
<1>2. m = [d EXCEPT !.bo[b] = [refs |-> 1, pixels |-> pixels]]
    BY DEF BoNew
<1>3. m.bo[b].refs = 1
    BY <1>1, <1>2 DEF Drms
<1>4. r = [m EXCEPT !.bo[b] = NoBo]
    BY <1>1, <1>3 DEF BoUnref
<1>5. r = [fb |-> d.fb, bo |-> [d.bo EXCEPT ![b] = NoBo], scan |-> d.scan, plane |-> d.plane]
    <2>1. m = [fb |-> d.fb, bo |-> [d.bo EXCEPT ![b] = [refs |-> 1, pixels |-> pixels]],
               scan |-> d.scan, plane |-> d.plane]
        BY <1>2, Zenon DEF Drms
    <2>. HIDE DEF m
    <2>2. r = [fb |-> m.fb, bo |-> [m.bo EXCEPT ![b] = NoBo], scan |-> m.scan, plane |-> m.plane]
        BY <1>4, <2>1
    <2>3. [m.bo EXCEPT ![b] = NoBo] = [d.bo EXCEPT ![b] = NoBo]
        BY <2>1, DrmParts, Zenon
    <2>. QED
        BY <2>1, <2>2, <2>3
<1>. HIDE DEF m
<1>6. NoBo \in [refs : Nat, pixels : [image : Images, rotation : Nat]]
    BY BlankFact DEF NoBo, Pics
<1>7. r.bo \in [Bos -> [refs : Nat, pixels : [image : Images, rotation : Nat]]]
    BY <1>1, <1>5, <1>6, DrmParts
<1>8. r \in Drms
    <2>1. r = [fb |-> d.fb, bo |-> r.bo, scan |-> d.scan, plane |-> d.plane]
        BY <1>5
    <2>. QED
        BY <1>7, <2>1, DrmFact, DrmParts
<1>9. Refs(r)
    <2>1. ASSUME NEW x \in Bos PROVE r.bo[x].refs = Count(r.fb, x)
        <3>1. r.fb = d.fb /\ d.bo[x].refs = Count(d.fb, x)
            BY <1>5, RefsFact
        <3>2. r.bo[x].refs = d.bo[x].refs
            BY <1>1, <1>5, DrmParts, BlankFact DEF FreeBo
        <3>. QED
            BY <3>1, <3>2
    <2>. QED
        BY <2>1, RefsFact
<1>10. ASSUME NEW g \in Fbs, d.fb[g] # 0 PROVE r.bo[d.fb[g]] = d.bo[d.fb[g]]
    BY <1>1, <1>5, <1>10, DrmParts DEF FreeBo, BoOrNone
<1>. QED
    BY <1>1, <1>5, <1>8, <1>9, <1>10 DEF Pixels

-----------------------------------------------------------------------------
(* States that differ in one CRTC, or one overlay.                         *)

WithCrtc(w, d, c, k) ==
    [drm |-> d, mode |-> [w.mode EXCEPT !.crtc = [@ EXCEPT ![c] = k]], video |-> w.video]

LEMMA WithCrtcFact ==
    ASSUME NEW w \in Worlds, NEW d \in Drms, NEW c \in Crtcs, NEW k \in CrtcStates,
           NEW r, r = WithCrtc(w, d, c, k)
    PROVE  /\ r \in Worlds
           /\ r.drm = d /\ r.video = w.video /\ r.mode.crtc[c] = k
           /\ \A j \in Crtcs \ {c} : r.mode.crtc[j] = w.mode.crtc[j]
           /\ r.mode.open = w.mode.open /\ r.mode.vtSema = w.mode.vtSema
           /\ r.mode.fb_id = w.mode.fb_id /\ r.mode.front_bo = w.mode.front_bo
           /\ r.mode.pixmap = w.mode.pixmap
<1>1. w.mode \in Modes /\ w.video \in Videos
    BY DEF Worlds
<1>2. r.drm = d /\ r.video = w.video /\ r.mode = [w.mode EXCEPT !.crtc = [@ EXCEPT ![c] = k]]
    BY DEF WithCrtc
<1>3. r.mode \in Modes
    BY <1>1, <1>2 DEF Modes
<1>4. r \in Worlds
    BY <1>1, <1>2, <1>3 DEF Worlds, WithCrtc
<1>. QED
    BY <1>1, <1>2, <1>4 DEF Modes

WithOverlay(w, d, c, o) ==
    [drm |-> d, mode |-> w.mode, video |-> [w.video EXCEPT !.overlay = [@ EXCEPT ![c] = o]]]

LEMMA WithOverlayFact ==
    ASSUME NEW w \in Worlds, NEW d \in Drms, NEW c \in Crtcs, NEW o \in OverlayStates,
           NEW r, r = WithOverlay(w, d, c, o)
    PROVE  /\ r \in Worlds
           /\ r.drm = d /\ r.mode = w.mode /\ r.video.overlay[c] = o
           /\ \A j \in Crtcs \ {c} : r.video.overlay[j] = w.video.overlay[j]
           /\ r.video.fb = w.video.fb /\ r.video.old_fb = w.video.old_fb
           /\ r.video.passthrough = w.video.passthrough
           /\ r.video.passthrough_data = w.video.passthrough_data
           /\ r.video.port = w.video.port /\ r.video.success = w.video.success
<1>1. w.mode \in Modes /\ w.video \in Videos
    BY DEF Worlds
<1>2. r.drm = d /\ r.mode = w.mode /\ r.video = [w.video EXCEPT !.overlay = [@ EXCEPT ![c] = o]]
    BY DEF WithOverlay
<1>3. r.video \in Videos
    BY <1>1, <1>2 DEF Videos
<1>4. r \in Worlds
    BY <1>1, <1>2, <1>3 DEF Worlds, WithOverlay
<1>. QED
    BY <1>1, <1>2, <1>4 DEF Videos

LEMMA WorldParts ==
    ASSUME NEW w \in Worlds
    PROVE  /\ w.drm \in Drms /\ w.mode \in Modes /\ w.video \in Videos
           /\ \A c \in Crtcs : /\ w.mode.crtc[c] \in CrtcStates
                               /\ w.video.overlay[c] \in OverlayStates
           /\ w = [drm |-> w.drm, mode |-> w.mode, video |-> w.video]
BY DEF Worlds, Modes, Videos

\* Setting the drm, and one CRTC.
LEMMA WithCrtcIs ==
    ASSUME NEW w \in Worlds, NEW d, NEW c \in Crtcs, NEW k,
           NEW r, r = [w EXCEPT !.drm = d, !.mode.crtc[c] = k]
    PROVE  r = WithCrtc(w, d, c, k)
<1>1. w = [drm |-> w.drm, mode |-> w.mode, video |-> w.video]
    BY WorldParts
<1>. DEFINE x == [w EXCEPT !.drm = d]
<1>2. x = [drm |-> d, mode |-> w.mode, video |-> w.video]
    BY <1>1
<1>3. r = [x EXCEPT !.mode.crtc[c] = k]
    OBVIOUS
<1>. HIDE DEF x
<1>. QED
    BY <1>2, <1>3, Zenon DEF WithCrtc

LEMMA WithCrtcOnly ==
    ASSUME NEW w \in Worlds, NEW c \in Crtcs, NEW k,
           NEW r, r = [w EXCEPT !.mode.crtc[c] = k]
    PROVE  r = WithCrtc(w, w.drm, c, k)
<1>1. w = [drm |-> w.drm, mode |-> w.mode, video |-> w.video]
    BY WorldParts
<1>. QED
    BY <1>1 DEF WithCrtc

\* Setting the drm alone changes no CRTC.
LEMMA WithDrmFact ==
    ASSUME NEW w \in Worlds, NEW d, NEW r, r = [w EXCEPT !.drm = d]
    PROVE  /\ r = [drm |-> d, mode |-> w.mode, video |-> w.video]
           /\ d \in Drms => r \in Worlds
<1>1. w = [drm |-> w.drm, mode |-> w.mode, video |-> w.video]
    BY WorldParts
<1>2. r = [drm |-> d, mode |-> w.mode, video |-> w.video]
    BY <1>1
<1>. QED
    BY <1>2, WorldParts DEF Worlds

-----------------------------------------------------------------------------
(* The framebuffers of one purpose.                                        *)

LEMMA ClassFact ==
    /\ FrontIds \cap ImageIds = {} /\ FrontIds \cap RotatedBos = {}
    /\ ImageIds \cap RotatedBos = {}
    /\ \A c \in Crtcs :
          /\ ShadowIds[c] \cap (FrontIds \cup ImageIds \cup RotatedBos) = {}
          /\ RotatedIds[c] \subseteq RotatedBos
          /\ \A k \in Crtcs \ {c} : ShadowIds[c] \cap ShadowIds[k] = {}
                                    /\ RotatedIds[c] \cap RotatedIds[k] = {}
    /\ \A f \in Fbs : \/ f \in FrontIds \/ f \in ImageIds
                      \/ \E c \in Crtcs : f \in ShadowIds[c] \/ f \in RotatedIds[c]
BY FramebuffersAssumption DEF Fbs, RotatedBos

\* A BO has the purpose of the framebuffers over it.
LEMMA PurposeFact ==
    ASSUME NEW w \in Worlds, OthersHeld(w), NEW f \in Fbs
    PROVE  /\ f \in FrontIds => w.drm.fb[f] \in FrontIds \cup {0}
           /\ f \in ImageIds => w.drm.fb[f] \in ImageIds \cup {0}
           /\ \A c \in Crtcs : f \in ShadowIds[c] => w.drm.fb[f] \in ShadowIds[c] \cup {0}
           /\ \A c \in Crtcs : f \in RotatedIds[c] => w.drm.fb[f] \in RotatedBos \cup {0}
<1>1. ASSUME NEW c \in Crtcs, f \in ShadowIds[c]
      PROVE  w.drm.fb[f] \in ShadowIds[c] \cup {0}
    BY <1>1, IdsFact DEF OthersHeld, ShadowHeld
<1>. QED
    BY <1>1 DEF OthersHeld, ImagesHeld, RotatedHeld

\* What has no framebuffer is free.
LEMMA FreeOf ==
    ASSUME NEW w \in Worlds, OthersHeld(w)
    PROVE  /\ \A b \in FrontIds : (\A f \in FrontIds : w.drm.fb[f] # b) => FreeBo(w.drm, b)
           /\ \A b \in ImageIds : (\A f \in ImageIds : w.drm.fb[f] # b) => FreeBo(w.drm, b)
           /\ \A c \in Crtcs : \A b \in ShadowIds[c] :
                 (\A f \in ShadowIds[c] : w.drm.fb[f] # b) => FreeBo(w.drm, b)
           /\ \A b \in RotatedBos : (\A f \in RotatedBos : w.drm.fb[f] # b) => FreeBo(w.drm, b)
<1>1. w.drm \in Drms /\ Refs(w.drm)
    BY WorldParts DEF OthersHeld
<1>2. ASSUME NEW b \in Fbs, NEW f \in Fbs, w.drm.fb[f] = b
      PROVE  /\ b \in FrontIds => f \in FrontIds
             /\ b \in ImageIds => f \in ImageIds
             /\ \A c \in Crtcs : b \in ShadowIds[c] => f \in ShadowIds[c]
             /\ b \in RotatedBos => f \in RotatedBos
    <2>1. b # 0
        BY IdsFact
    <2>2. CASE f \in FrontIds
        BY <1>2, <2>1, <2>2, PurposeFact, ClassFact
    <2>3. CASE f \in ImageIds
        BY <1>2, <2>1, <2>3, PurposeFact, ClassFact
    <2>4. ASSUME NEW c \in Crtcs, f \in ShadowIds[c]
          PROVE  b \in ShadowIds[c]
        BY <1>2, <2>1, <2>4, PurposeFact, ClassFact
    <2>5. ASSUME NEW c \in Crtcs, f \in RotatedIds[c]
          PROVE  b \in RotatedBos /\ f \in RotatedBos
        BY <1>2, <2>1, <2>5, PurposeFact, ClassFact
    <2>. QED
        BY <2>2, <2>3, <2>4, <2>5, ClassFact
<1>3. \A b \in Fbs : (\A f \in Fbs : w.drm.fb[f] # b) => FreeBo(w.drm, b)
    BY <1>1, Unreferenced, IdsFact
<1>. QED
    BY <1>2, <1>3, IdsFact, Zenon

-----------------------------------------------------------------------------
(* What the modes leave to the overlays, and the overlays to the modes.    *)

PictureIds == ImageIds \cup RotatedBos

ModeFrame(w, r) ==
    /\ r.video = w.video
    /\ \A f \in PictureIds : /\ r.drm.fb[f] = w.drm.fb[f]
                             /\ w.drm.fb[f] # 0 => Pixels(r.drm, f) = Pixels(w.drm, f)
    /\ \A c \in Crtcs : w.drm.plane[c] \in PictureIds \cup {0} => r.drm.plane[c] = w.drm.plane[c]

VideoFrame(w, r) ==
    /\ r.mode = w.mode
    /\ \A f \in FrontIds : r.drm.fb[f] = w.drm.fb[f]
    /\ \A c \in Crtcs : \A f \in ShadowIds[c] : r.drm.fb[f] = w.drm.fb[f]
    /\ \A c \in Crtcs :
          w.drm.scan[c] \in FrontIds \cup ShadowIds[c] \cup {0} => r.drm.scan[c] = w.drm.scan[c]

LEMMA ModeFrameFact ==
    /\ \A w : ModeFrame(w, w)
    /\ \A w, x, r : ModeFrame(w, x) /\ ModeFrame(x, r) => ModeFrame(w, r)
BY DEF ModeFrame

LEMMA VideoFrameFact ==
    /\ \A w : VideoFrame(w, w)
    /\ \A w, x, r : VideoFrame(w, x) /\ VideoFrame(x, r) => VideoFrame(w, r)
BY DEF VideoFrame

LEMMA ModeFrameHeld ==
    ASSUME NEW w, NEW r, ModeFrame(w, r)
    PROVE  /\ ImagesHeld(w) => ImagesHeld(r)
           /\ \A c \in Crtcs : RotatedHeld(w, c) => RotatedHeld(r, c)
<1>1. \A c \in Crtcs : RotatedIds[c] \subseteq PictureIds
    BY ClassFact DEF PictureIds
<1>. QED
    BY <1>1 DEF ModeFrame, ImagesHeld, RotatedHeld, PictureIds

LEMMA VideoFrameHeld ==
    ASSUME NEW w, NEW r, VideoFrame(w, r)
    PROVE  /\ FrontHeld(w) => FrontHeld(r)
           /\ \A c \in Crtcs : ShadowHeld(w, c) => ShadowHeld(r, c)
           /\ ShownInv(w) => ShownInv(r)
<1>1. FrontHeld(w) => FrontHeld(r)
    BY DEF VideoFrame, FrontHeld
<1>2. \A c \in Crtcs : ShadowHeld(w, c) => ShadowHeld(r, c)
    BY DEF VideoFrame, ShadowHeld
<1>3. ASSUME ShownInv(w) PROVE ShownInv(r)
    <2>1. \A c \in Crtcs : r.drm.scan[c] = w.drm.scan[c]
        BY <1>3 DEF ShownInv, ScansOwn, VideoFrame
    <2>. QED
        BY <1>3, <2>1 DEF ShownInv, ScansOwn, VideoFrame, ShadowWhole, ShadowThere, Shows
<1>. QED
    BY <1>1, <1>2, <1>3

\* A picture on the planes stays as it is.
LEMMA ModeFramePicture ==
    ASSUME NEW w, NEW r, ModeFrame(w, r), OthersHeld(w), PictureInv(w)
    PROVE  PictureInv(r)
<1>1. r.video = w.video
    BY DEF ModeFrame
<1>2. \A f \in PictureIds : w.drm.fb[f] # 0 => Pixels(r.drm, f) = Pixels(w.drm, f)
    BY DEF ModeFrame
<1>3. /\ w.video.fb \in PictureIds \cup {0} /\ w.video.old_fb \in PictureIds \cup {0}
      /\ w.video.fb # 0 => w.drm.fb[w.video.fb] # 0
    BY DEF OthersHeld, ImagesHeld, PictureIds
<1>4. ASSUME NEW c \in Crtcs
      PROVE  LET o == w.video.overlay[c]
             IN  /\ o.fb_rotated \in PictureIds \cup {0} /\ o.old_fb_rotated \in PictureIds \cup {0}
                 /\ o.fb_rotated # 0 => w.drm.fb[o.fb_rotated] # 0
                 /\ o.old_fb_rotated # 0 => w.drm.fb[o.old_fb_rotated] # 0
    BY ClassFact DEF OthersHeld, RotatedHeld, PictureIds
<1>5. ASSUME NEW c \in Crtcs
      PROVE  r.drm.plane[c] = w.drm.plane[c] /\ PlaneOwn(r, c)
    <2>1. PlaneOwn(w, c)
        BY Zenon DEF PictureInv, CopyInv
    <2>2. w.drm.plane[c] \in PictureIds \cup {0}
        BY <1>3, <1>4, <2>1 DEF PlaneOwn
    <2>. QED
        BY <1>1, <2>1, <2>2, Zenon DEF PlaneOwn, ModeFrame
<1>6. ASSUME NEW c \in Crtcs
      PROVE  CopyRight(r, c)
    <2>1. CopyRight(w, c)
        BY DEF PictureInv, CopyInv
    <2>2. CASE w.video.fb = 0
        BY <1>1, <2>1, <2>2 DEF CopyRight
    <2>3. CASE w.video.fb # 0
        <3>1. Image(r, w.video.fb) = Image(w, w.video.fb)
            BY <1>2, <1>3, <2>3 DEF Image
        <3>. DEFINE o == w.video.overlay[c]
        <3>2. o.fb_rotated # 0 => Pixels(r.drm, o.fb_rotated) = Pixels(w.drm, o.fb_rotated)
            BY <1>2, <1>4
        <3>3. o.old_fb_rotated # 0 => Image(r, o.old_fb_rotated) = Image(w, o.old_fb_rotated)
            BY <1>2, <1>4 DEF Image
        <3>. QED
            BY <1>1, <2>1, <3>1, <3>2, <3>3 DEF CopyRight
    <2>. QED
        BY <2>2, <2>3
<1>. QED
    BY <1>1, <1>5, <1>6 DEF PictureInv, CopyInv

-----------------------------------------------------------------------------
(* The shadow of a rotated CRTC.                                           *)

LEMMA WithCrtcTwice ==
    ASSUME NEW w \in Worlds, NEW d, NEW e, NEW c \in Crtcs, NEW k, NEW l
    PROVE  WithCrtc(WithCrtc(w, d, c, k), e, c, l) = WithCrtc(w, e, c, l)
<1>1. w.mode \in Modes
    BY WorldParts
<1>. DEFINE x == [w.mode EXCEPT !.crtc = [@ EXCEPT ![c] = k]]
<1>2. [x EXCEPT !.crtc = [@ EXCEPT ![c] = l]] = [w.mode EXCEPT !.crtc = [@ EXCEPT ![c] = l]]
    BY <1>1, Zenon DEF Modes
<1>. HIDE DEF x
<1>3. WithCrtc(w, d, c, k).mode = x /\ WithCrtc(w, d, c, k).video = w.video
    BY DEF WithCrtc, x
<1>. QED
    BY <1>2, <1>3, Zenon DEF WithCrtc

BlankPixels == Picture(Blank, 0)
NoShadowFault(fault) == fault \notin {"rotate_bo", "rotate_fb"}

\* What drmmode_shadow_destroy() may come to.
LEMMA DestroyIs ==
    ASSUME NEW w \in Worlds, NEW c \in Crtcs, NEW k, k = w.mode.crtc[c],
           NEW r, r = drmmode_shadow_destroy(w, c)
    PROVE  /\ k.data = 0 => r = WithCrtc(w, w.drm, c, [k EXCEPT !.shadow = 0])
           /\ k.data # 0 =>
                 r = WithCrtc(w, BoUnref(RmFB(w.drm, k.rotate_fb), k.rotate_bo), c,
                       [k EXCEPT !.shadow = 0, !.rotate_bo = 0, !.data = 0, !.rotate_fb = 0])
<1>0. w.drm \in Drms /\ w.mode \in Modes /\ k \in CrtcStates
    BY WorldParts
<1>. DEFINE g == WithCrtc(w, w.drm, c, [k EXCEPT !.shadow = 0])
<1>1. [w EXCEPT !.mode.crtc[c].shadow = 0] = g
    <2>1. [w EXCEPT !.mode.crtc[c].shadow = 0] = [w EXCEPT !.mode.crtc[c] = [k EXCEPT !.shadow = 0]]
        BY Zenon
    <2>. QED
        BY <2>1, WithCrtcOnly, ZenonT(40)
<1>3. CASE k.data = 0
    BY <1>1, <1>3 DEF drmmode_shadow_destroy
<1>4. CASE k.data # 0
    <2>1. g.mode.crtc[c] = [k EXCEPT !.shadow = 0] /\ g.drm = w.drm
        BY <1>0, Zenon DEF WithCrtc, Modes
    <2>2. r = [g EXCEPT !.drm = dumb_bo_destroy(RmFB(g.drm, k.rotate_fb), k.rotate_bo),
                        !.mode.crtc[c] = [g.mode.crtc[c] EXCEPT !.rotate_bo = 0, !.data = 0,
                                                                 !.rotate_fb = 0]]
        BY <1>1, <1>4, Zenon DEF drmmode_shadow_destroy
    <2>3. [k EXCEPT !.shadow = 0] \in CrtcStates
        BY <1>0 DEF CrtcStates, BoOrNone
    <2>4. g \in Worlds
        BY <1>0, <2>3, WithCrtcFact
    <2>. DEFINE d == BoUnref(RmFB(w.drm, k.rotate_fb), k.rotate_bo)
                l == [k EXCEPT !.shadow = 0, !.rotate_bo = 0, !.data = 0, !.rotate_fb = 0]
    <2>5. dumb_bo_destroy(RmFB(g.drm, k.rotate_fb), k.rotate_bo) = d
        BY <2>1 DEF dumb_bo_destroy
    <2>6. [g.mode.crtc[c] EXCEPT !.rotate_bo = 0, !.data = 0, !.rotate_fb = 0] = l
        BY <2>1, <1>0, Zenon DEF CrtcStates
    <2>. HIDE DEF g, d, l
    <2>7. r = [g EXCEPT !.drm = d, !.mode.crtc[c] = l]
        BY <2>2, <2>5, <2>6, Zenon
    <2>8. r = WithCrtc(g, d, c, l)
        BY <2>4, <2>7, WithCrtcIs, Zenon
    <2>9. r = WithCrtc(w, d, c, l)
        BY <2>8, WithCrtcTwice DEF g
    <2>. QED
        BY <1>4, <2>9, Zenon DEF d, l
<1>. QED
    BY <1>3, <1>4

\* What xf86CrtcRotate() may come to.
Turns(w, c, fault, r, k, ids, b) ==
    /\ k.rotation = 0 => r = drmmode_shadow_destroy(w, c)
    /\ k.rotation # 0 /\ k.data # 0 => r = w
    /\ k.rotation # 0 /\ k.data = 0 /\ fault = "rotate_bo" =>
          r = WithCrtc(w, w.drm, c, [k EXCEPT !.rotate_bo = 0])
    /\ k.rotation # 0 /\ k.data = 0 /\ fault = "rotate_fb" =>
          r = WithCrtc(w, BoUnref(BoNew(w.drm, ids, BlankPixels), b), c,
                       [k EXCEPT !.rotate_bo = b])
    /\ k.rotation # 0 /\ k.data = 0 /\ NoShadowFault(fault) /\ b # 0 =>
          r = WithCrtc(w, AddFB(BoNew(w.drm, ids, BlankPixels), ids, b), c,
                       [k EXCEPT !.rotate_bo = b, !.data = b,
                                 !.rotate_fb = NewFb(w.drm, ids), !.shadow = b])

LEMMA TurnsFact ==
    ASSUME NEW w \in Worlds, NEW c \in Crtcs, NEW fault,
           NEW k, k = w.mode.crtc[c],
           NEW r, r = xf86CrtcRotate(w, c, fault),
           NEW ids, ids = ShadowIds[c], NEW b, b = NewBo(w.drm, ids)
    PROVE  Turns(w, c, fault, r, k, ids, b)
<1>1. w.drm \in Drms /\ w.mode \in Modes /\ k \in CrtcStates
    BY WorldParts
<1>3. CASE k.rotation = 0
    BY <1>3 DEF xf86CrtcRotate, Turns
<1>4. CASE k.rotation # 0 /\ k.data # 0
    BY <1>4 DEF xf86CrtcRotate, Turns
<1>5. CASE k.rotation # 0 /\ k.data = 0
    <2>. DEFINE a == drmmode_shadow_allocate(w, c, fault)
                n == BoNew(w.drm, ids, BlankPixels)
    <2>1. r = IF a.mode.crtc[c].data = 0 THEN a ELSE drmmode_shadow_create(a, c)
        BY <1>5 DEF xf86CrtcRotate
    <2>2. n = dumb_bo_create(w.drm, ids)
        BY DEF dumb_bo_create, BlankPixels
    <2>3. CASE fault = "rotate_bo"
        <3>1. a = WithCrtc(w, w.drm, c, [k EXCEPT !.rotate_bo = 0])
            <4>1. a = [w EXCEPT !.mode.crtc[c] = [k EXCEPT !.rotate_bo = 0]]
                BY <2>3 DEF drmmode_shadow_allocate
            <4>. QED
                BY <4>1, WithCrtcOnly
        <3>2. a.mode.crtc[c].data = 0
            BY <1>1, <1>5, <3>1 DEF WithCrtc, Modes, CrtcStates
        <3>. QED
            BY <1>5, <2>1, <2>3, <3>1, <3>2 DEF Turns, NoShadowFault
    <2>4. CASE fault = "rotate_fb"
        <3>1. a = WithCrtc(w, BoUnref(n, b), c, [k EXCEPT !.rotate_bo = b])
            <4>. DEFINE d == BoUnref(n, b)
                        l == [k EXCEPT !.rotate_bo = b]
            <4>1. a = [w EXCEPT !.drm = d, !.mode.crtc[c] = l]
                BY <2>2, <2>4 DEF drmmode_shadow_allocate, dumb_bo_destroy
            <4>. HIDE DEF a, d, l
            <4>2. a = WithCrtc(w, d, c, l)
                BY <4>1, WithCrtcIs, Zenon
            <4>. QED
                BY <4>2 DEF d, l
        <3>2. a.mode.crtc[c].data = 0
            BY <1>1, <1>5, <3>1 DEF WithCrtc, Modes, CrtcStates
        <3>. QED
            BY <1>5, <2>1, <2>4, <3>1, <3>2 DEF Turns, NoShadowFault
    <2>5. CASE NoShadowFault(fault) /\ b # 0
        <3>. DEFINE l == [k EXCEPT !.rotate_bo = b, !.data = b, !.rotate_fb = NewFb(w.drm, ids)]
                    e == AddFB(n, ids, b)
        <3>1. NewFb(n, ids) = NewFb(w.drm, ids)
            BY <1>1 DEF NewFb, BoNew, Drms
        <3>2. a = [w EXCEPT !.drm = e, !.mode.crtc[c] = [@ EXCEPT !.rotate_bo = b, !.data = b,
                                                   !.rotate_fb = NewFb(n, ids)]]
            BY <2>2, <2>5 DEF drmmode_shadow_allocate, NoShadowFault
        <3>3. a = WithCrtc(w, e, c, l)
            <4>1. a = [w EXCEPT !.drm = e, !.mode.crtc[c] = l]
                BY <3>1, <3>2
            <4>. HIDE DEF a, e, l
            <4>. QED
                BY <4>1, WithCrtcIs, Zenon
        <3>4. a.mode.crtc[c] = l /\ a.drm = e /\ a.video = w.video
              /\ a.mode = [w.mode EXCEPT !.crtc = [@ EXCEPT ![c] = l]]
            BY <1>1, <3>3 DEF WithCrtc, Modes
        <3>5. l.data = b /\ l.rotate_bo = b
            BY <1>1 DEF CrtcStates
        <3>. DEFINE m == [l EXCEPT !.shadow = b]
        <3>. HIDE DEF a, l, e, n
        <3>6. r = [a EXCEPT !.mode.crtc[c].shadow = b]
            BY <2>1, <2>5, <3>4, <3>5 DEF drmmode_shadow_create
        <3>7. r = [a EXCEPT !.mode.crtc[c] = m]
            BY <3>4, <3>6
        <3>8. a = [drm |-> e, mode |-> a.mode, video |-> w.video]
            BY <3>3, <3>4 DEF WithCrtc
        <3>9. r = WithCrtc(a, e, c, m)
            BY <3>7, <3>8 DEF WithCrtc
        <3>10. r = WithCrtc(w, e, c, m)
            BY <3>3, <3>9, WithCrtcTwice
        <3>11. m = [k EXCEPT !.rotate_bo = b, !.data = b, !.rotate_fb = NewFb(w.drm, ids), !.shadow = b]
            BY <1>1 DEF l, CrtcStates
        <3>. QED
            BY <1>5, <2>5, <3>10, <3>11 DEF e, n, Turns, NoShadowFault
    <2>6. CASE NoShadowFault(fault) /\ b = 0
        BY <1>5, <2>6 DEF Turns, NoShadowFault
    <2>. QED
        BY <2>3, <2>4, <2>5, <2>6 DEF NoShadowFault
<1>. QED
    BY <1>3, <1>4, <1>5

SameScreen(w, r) ==
    /\ r.mode.open = w.mode.open /\ r.mode.vtSema = w.mode.vtSema
    /\ r.mode.fb_id = w.mode.fb_id /\ r.mode.front_bo = w.mode.front_bo
    /\ r.mode.pixmap = w.mode.pixmap

\* What a change of one CRTC leaves alone.
CrtcFrame(w, r, c) ==
    /\ ModeFrame(w, r) /\ SameScreen(w, r)
    /\ \A f \in FrontIds : r.drm.fb[f] = w.drm.fb[f]
    /\ \A j \in Crtcs \ {c} :
          /\ r.mode.crtc[j] = w.mode.crtc[j]
          /\ \A f \in ShadowIds[j] : r.drm.fb[f] = w.drm.fb[f]
          /\ w.drm.scan[j] \notin ShadowIds[c] => r.drm.scan[j] = w.drm.scan[j]

LEMMA CrtcFrameFact ==
    ASSUME NEW c \in Crtcs
    PROVE  /\ \A w : CrtcFrame(w, w, c)
           /\ \A w, x, r : CrtcFrame(w, x, c) /\ CrtcFrame(x, r, c) => CrtcFrame(w, r, c)
<1>1. ASSUME NEW w PROVE CrtcFrame(w, w, c)
    BY ModeFrameFact DEF CrtcFrame, SameScreen
<1>2. ASSUME NEW w, NEW x, NEW r, CrtcFrame(w, x, c), CrtcFrame(x, r, c)
      PROVE  CrtcFrame(w, r, c)
    <2>1. ModeFrame(w, r)
        BY <1>2, ModeFrameFact DEF CrtcFrame
    <2>. QED
        BY <1>2, <2>1 DEF CrtcFrame, SameScreen
<1>. QED
    BY <1>1, <1>2

\* A change of one shadow.
LEMMA ShadowChange ==
    ASSUME NEW w \in Worlds, OthersHeld(w), NEW c \in Crtcs, NEW d \in Drms, Refs(d),
           NEW k \in CrtcStates, NEW r, r = WithCrtc(w, d, c, k),
           \A f \in Fbs \ ShadowIds[c] :
              /\ d.fb[f] = w.drm.fb[f]
              /\ w.drm.fb[f] # 0 => Pixels(d, f) = Pixels(w.drm, f),
           \A j \in Crtcs :
              /\ w.drm.scan[j] \notin ShadowIds[c] => d.scan[j] = w.drm.scan[j]
              /\ w.drm.plane[j] \notin ShadowIds[c] => d.plane[j] = w.drm.plane[j],
           ShadowHeld(r, c)
    PROVE  r \in Worlds /\ OthersHeld(r) /\ CrtcFrame(w, r, c)
<1>1. /\ r \in Worlds
      /\ r.drm = d /\ r.video = w.video /\ r.mode.crtc[c] = k
      /\ \A j \in Crtcs \ {c} : r.mode.crtc[j] = w.mode.crtc[j]
      /\ SameScreen(w, r)
    BY WithCrtcFact DEF SameScreen
<1>2. /\ PictureIds \subseteq Fbs \ ShadowIds[c]
      /\ FrontIds \subseteq Fbs \ ShadowIds[c]
      /\ \A j \in Crtcs \ {c} : ShadowIds[j] \subseteq Fbs \ ShadowIds[c]
      /\ 0 \notin ShadowIds[c]
    BY ClassFact, IdsFact DEF PictureIds
<1>3. ModeFrame(w, r)
    BY <1>1, <1>2, ClassFact DEF ModeFrame
<1>4. CrtcFrame(w, r, c)
    BY <1>1, <1>2, <1>3 DEF CrtcFrame
<1>5. \A j \in Crtcs : ShadowHeld(r, j)
    <2>1. ASSUME NEW j \in Crtcs \ {c} PROVE ShadowHeld(r, j)
        <3>1. ShadowHeld(w, j)
            BY DEF OthersHeld
        <3>. QED
            BY <1>4, <3>1, SMTT(20) DEF CrtcFrame, ShadowHeld
    <2>. QED
        BY <2>1
<1>6. OthersHeld(r)
    BY <1>1, <1>3, <1>4, <1>5, ModeFrameHeld DEF OthersHeld, CrtcFrame
<1>. QED
    BY <1>1, <1>4, <1>6

\* A shadow that goes.
DestroyedBy(w, r, c) ==
    LET k == w.mode.crtc[c]  l == r.mode.crtc[c]
    IN  /\ l.enabled = k.enabled /\ l.on = k.on
        /\ l.rotation = k.rotation /\ l.desired = k.desired /\ l.data = 0
        /\ ShadowWhole(w, c) => ShadowWhole(r, c)
        /\ \A j \in Crtcs : r.drm.scan[j] \in {w.drm.scan[j], 0}

LEMMA DestroyFact ==
    ASSUME NEW w \in Worlds, OthersHeld(w), NEW c \in Crtcs,
           NEW r, r = drmmode_shadow_destroy(w, c)
    PROVE  r \in Worlds /\ OthersHeld(r) /\ CrtcFrame(w, r, c) /\ DestroyedBy(w, r, c)
<1>. DEFINE k == w.mode.crtc[c]
            ids == ShadowIds[c]
<1>1. /\ w.drm \in Drms /\ Refs(w.drm) /\ k \in CrtcStates /\ w.video \in Videos
      /\ ShadowHeld(w, c)
    BY WorldParts DEF OthersHeld
<1>2. ids \subseteq Fbs /\ 0 \notin Fbs /\ Bos = Fbs
    BY IdsFact
<1>5. ShadowWhole(w, c) <=> /\ k.data # 0 => k.rotate_bo = k.data /\ k.shadow = k.data
                            /\ k.data = 0 => k.rotate_bo = 0 /\ k.shadow = 0
    BY DEF ShadowWhole
<1>. HIDE DEF k, ids
<1>6. CASE k.data = 0
    <2>. DEFINE l == [k EXCEPT !.shadow = 0]
    <2>1. r = WithCrtc(w, w.drm, c, l)
        BY <1>6, DestroyIs, ZenonT(40) DEF k
    <2>2. /\ l \in CrtcStates
          /\ l.enabled = k.enabled /\ l.on = k.on /\ l.rotation = k.rotation
          /\ l.desired = k.desired /\ l.rotate_bo = k.rotate_bo
          /\ l.rotate_fb = k.rotate_fb /\ l.data = k.data /\ l.shadow = 0
        BY <1>1 DEF CrtcStates, BoOrNone
    <2>. HIDE DEF l
    <2>3. r.drm = w.drm /\ r.mode.crtc[c] = l
        BY <1>1, <2>1, <2>2, WithCrtcFact
    <2>4. ShadowHeld(r, c)
        BY <1>1, <2>2, <2>3 DEF ShadowHeld, k
    <2>5. r \in Worlds /\ OthersHeld(r) /\ CrtcFrame(w, r, c)
        BY <1>1, <2>1, <2>2, <2>4, ShadowChange
    <2>6. DestroyedBy(w, r, c)
        BY <1>5, <1>6, <2>2, <2>3, Zenon DEF DestroyedBy, ShadowWhole, k
    <2>. QED
        BY <2>5, <2>6, Zenon
<1>7. CASE k.data # 0
    <2>. DEFINE l == [k EXCEPT !.shadow = 0, !.rotate_bo = 0, !.data = 0, !.rotate_fb = 0]
                d == BoUnref(RmFB(w.drm, k.rotate_fb), k.rotate_bo)
    <2>1. r = WithCrtc(w, d, c, l)
        BY <1>7, DestroyIs, Zenon DEF k
    <2>2. /\ l \in CrtcStates
          /\ l.enabled = k.enabled /\ l.on = k.on /\ l.rotation = k.rotation
          /\ l.desired = k.desired /\ l.rotate_bo = 0
          /\ l.rotate_fb = 0 /\ l.data = 0 /\ l.shadow = 0
        BY <1>1, Zenon DEF CrtcStates, BoOrNone, FbOrNone
    <2>3. /\ k.rotate_fb \in ids /\ k.rotate_bo = w.drm.fb[k.rotate_fb] /\ k.rotate_bo # 0
          /\ \A g \in ids \ {k.rotate_fb} : w.drm.fb[g] = 0
        BY <1>1, <1>2, <1>7 DEF ShadowHeld, k, ids
    <2>4. /\ Freed(w.drm, d, k.rotate_fb) /\ d \in Drms /\ Refs(d)
          /\ \A g \in Fbs \ {k.rotate_fb} : w.drm.fb[g] # 0 =>
                d.fb[g] = w.drm.fb[g] /\ Pixels(d, g) = Pixels(w.drm, g)
        BY <1>1, <1>2, <2>3, FreeFact
    <2>. HIDE DEF l, d
    <2>5. r.drm = d /\ r.mode.crtc[c] = l
        BY <1>1, <2>1, <2>2, <2>4, WithCrtcFact
    <2>6. ShadowHeld(r, c)
        <3>1. \A g \in ids : d.fb[g] = 0
            BY <1>1, <1>2, <2>3, <2>4, DrmParts DEF Freed
        <3>. QED
            BY <1>2, <2>2, <2>5, <3>1 DEF ShadowHeld, ids
    <2>7. \A g \in Fbs \ {k.rotate_fb} : d.fb[g] = w.drm.fb[g]
        BY <1>1, <2>4, DrmParts DEF Freed
    <2>8. \A j \in Crtcs :
             /\ d.scan[j] = IF w.drm.scan[j] = k.rotate_fb THEN 0 ELSE w.drm.scan[j]
             /\ d.plane[j] = IF w.drm.plane[j] = k.rotate_fb THEN 0 ELSE w.drm.plane[j]
        BY <2>4 DEF Freed
    <2>9. r \in Worlds /\ OthersHeld(r) /\ CrtcFrame(w, r, c)
        <3>1. \A g \in Fbs \ ShadowIds[c] :
                 /\ d.fb[g] = w.drm.fb[g]
                 /\ w.drm.fb[g] # 0 => Pixels(d, g) = Pixels(w.drm, g)
            BY <2>3, <2>4, <2>7 DEF ids
        <3>2. \A j \in Crtcs :
                 /\ w.drm.scan[j] \notin ShadowIds[c] => d.scan[j] = w.drm.scan[j]
                 /\ w.drm.plane[j] \notin ShadowIds[c] => d.plane[j] = w.drm.plane[j]
            BY <2>3, <2>8 DEF ids
        <3>. QED
            BY <1>1, <2>1, <2>2, <2>4, <2>6, <3>1, <3>2, ShadowChange
    <2>10. DestroyedBy(w, r, c)
        BY <1>5, <1>7, <2>2, <2>5, <2>8 DEF DestroyedBy, ShadowWhole, k
    <2>. QED
        BY <2>9, <2>10
<1>. QED
    BY <1>6, <1>7

\* A rotation changes the shadow of its CRTC, and has one when it needs one
\* unless it failed.
TurnedBy(w, r, c, fault) ==
    LET k == w.mode.crtc[c]  l == r.mode.crtc[c]
    IN  /\ l.enabled = k.enabled /\ l.on = k.on
        /\ l.rotation = k.rotation /\ l.desired = k.desired
        /\ NoShadowFault(fault) /\ ShadowWhole(w, c) =>
              ShadowWhole(r, c) /\ (l.data = 0 <=> l.rotation = 0)
        /\ \A j \in Crtcs : r.drm.scan[j] \in {w.drm.scan[j], 0}

LEMMA RotateFact ==
    ASSUME NEW w \in Worlds, OthersHeld(w), NEW c \in Crtcs, NEW fault,
           NEW r, r = xf86CrtcRotate(w, c, fault)
    PROVE  r \in Worlds /\ OthersHeld(r) /\ CrtcFrame(w, r, c) /\ TurnedBy(w, r, c, fault)
<1>. DEFINE k == w.mode.crtc[c]
            ids == ShadowIds[c]
            b == NewBo(w.drm, ids)
            f == NewFb(w.drm, ids)
<1>1. /\ w.drm \in Drms /\ Refs(w.drm) /\ k \in CrtcStates /\ w.video \in Videos
      /\ ShadowHeld(w, c)
    BY WorldParts DEF OthersHeld
<1>2. ids \subseteq Fbs /\ 0 \notin Fbs /\ Bos = Fbs /\ ids # {}
    BY IdsFact, FramebuffersAssumption
<1>3. ASSUME k.data = 0
      PROVE  /\ \A g \in ids : w.drm.fb[g] = 0
             /\ \E g \in ids : w.drm.fb[g] = 0
             /\ \E x \in ids : FreeBo(w.drm, x)
             /\ k.rotate_fb = 0
    <2>1. \A g \in ids : w.drm.fb[g] = 0
        BY <1>1, <1>2, <1>3 DEF ShadowHeld
    <2>2. \A x \in ids : FreeBo(w.drm, x)
        BY <1>2, <2>1, FreeOf
    <2>. QED
        BY <1>1, <1>2, <1>3, <2>1, <2>2 DEF ShadowHeld
<1>4. BlankPixels \in Pics
    BY BlankFact DEF BlankPixels, Picture, Pics
<1>5. ShadowWhole(w, c) <=> /\ k.data # 0 => k.rotate_bo = k.data /\ k.shadow = k.data
                            /\ k.data = 0 => k.rotate_bo = 0 /\ k.shadow = 0
    BY DEF ShadowWhole
<1>. Turns(w, c, fault, r, k, ids, b)
    BY TurnsFact
<1>. HIDE DEF k, ids, b, f
<1>6. CASE k.rotation = 0
    <2>1. r = drmmode_shadow_destroy(w, c)
        BY <1>6 DEF Turns
    <2>2. r \in Worlds /\ OthersHeld(r) /\ CrtcFrame(w, r, c) /\ DestroyedBy(w, r, c)
        BY <2>1, DestroyFact
    <2>3. TurnedBy(w, r, c, fault)
        BY <1>6, <2>2 DEF TurnedBy, DestroyedBy, k
    <2>. QED
        BY <2>2, <2>3
<1>8. CASE k.rotation # 0 /\ k.data # 0
    <2>1. r = w
        BY <1>8 DEF Turns
    <2>2. TurnedBy(w, r, c, fault)
        BY <1>5, <1>8, <2>1 DEF TurnedBy, k
    <2>. QED
        BY <2>1, <2>2, CrtcFrameFact
<1>9. CASE k.rotation # 0 /\ k.data = 0 /\ fault = "rotate_bo"
    <2>. DEFINE l == [k EXCEPT !.rotate_bo = 0]
    <2>1. r = WithCrtc(w, w.drm, c, l)
        BY <1>9 DEF Turns
    <2>2. /\ l \in CrtcStates
          /\ l.enabled = k.enabled /\ l.on = k.on /\ l.rotation = k.rotation
          /\ l.desired = k.desired /\ l.rotate_fb = k.rotate_fb /\ l.data = k.data
        BY <1>1 DEF CrtcStates, BoOrNone
    <2>. HIDE DEF l
    <2>3. r.drm = w.drm /\ r.mode.crtc[c] = l
        BY <1>1, <2>1, <2>2, WithCrtcFact
    <2>4. ShadowHeld(r, c)
        BY <1>1, <1>2, <1>3, <1>9, <2>2, <2>3 DEF ShadowHeld, ids
    <2>5. r \in Worlds /\ OthersHeld(r) /\ CrtcFrame(w, r, c)
        BY <1>1, <2>1, <2>2, <2>4, ShadowChange
    <2>6. TurnedBy(w, r, c, fault)
        BY <1>9, <2>2, <2>3 DEF TurnedBy, NoShadowFault, k
    <2>. QED
        BY <2>5, <2>6
<1>10. CASE k.rotation # 0 /\ k.data = 0 /\ fault = "rotate_fb"
    <2>. DEFINE l == [k EXCEPT !.rotate_bo = b]
                d == BoUnref(BoNew(w.drm, ids, BlankPixels), b)
    <2>1. r = WithCrtc(w, d, c, l)
        BY <1>10 DEF Turns
    <2>2. /\ d.fb = w.drm.fb /\ d.scan = w.drm.scan /\ d.plane = w.drm.plane
          /\ d \in Drms /\ Refs(d)
          /\ \A g \in Fbs : w.drm.fb[g] # 0 => Pixels(d, g) = Pixels(w.drm, g)
          /\ b \in ids
        BY <1>1, <1>2, <1>3, <1>4, <1>10, DropFact DEF b
    <2>3. /\ l \in CrtcStates
          /\ l.enabled = k.enabled /\ l.on = k.on /\ l.rotation = k.rotation
          /\ l.desired = k.desired /\ l.rotate_fb = k.rotate_fb /\ l.data = k.data
        BY <1>1, <1>2, <2>2 DEF CrtcStates, BoOrNone
    <2>. HIDE DEF l, d
    <2>4. r.drm = d /\ r.mode.crtc[c] = l
        BY <1>1, <2>1, <2>2, <2>3, WithCrtcFact
    <2>5. ShadowHeld(r, c)
        BY <1>1, <1>2, <1>3, <1>10, <2>2, <2>3, <2>4 DEF ShadowHeld, ids
    <2>6. r \in Worlds /\ OthersHeld(r) /\ CrtcFrame(w, r, c)
        BY <1>1, <2>1, <2>2, <2>3, <2>5, ShadowChange
    <2>7. TurnedBy(w, r, c, fault)
        BY <1>10, <2>2, <2>3, <2>4 DEF TurnedBy, NoShadowFault, k
    <2>. QED
        BY <2>6, <2>7
<1>11. CASE k.rotation # 0 /\ k.data = 0 /\ NoShadowFault(fault)
    <2>. DEFINE l == [k EXCEPT !.rotate_bo = b, !.data = b, !.rotate_fb = f, !.shadow = b]
                d == AddFB(BoNew(w.drm, ids, BlankPixels), ids, b)
    <2>1. /\ Created(w.drm, d, f, b, BlankPixels) /\ d \in Drms /\ Refs(d)
          /\ f \in ids /\ w.drm.fb[f] = 0 /\ b \in ids
          /\ \A g \in Fbs : w.drm.fb[g] # 0 =>
                d.fb[g] = w.drm.fb[g] /\ Pixels(d, g) = Pixels(w.drm, g)
        BY <1>1, <1>2, <1>3, <1>4, <1>11, CreateFact DEF b, f
    <2>2. b # 0 /\ f # 0
        BY <1>2, <2>1
    <2>3. r = WithCrtc(w, d, c, l)
        BY <1>11, <2>2 DEF Turns, f
    <2>4. /\ l \in CrtcStates
          /\ l.enabled = k.enabled /\ l.on = k.on /\ l.rotation = k.rotation
          /\ l.desired = k.desired /\ l.rotate_fb = f /\ l.data = b
          /\ l.rotate_bo = b /\ l.shadow = b
        BY <1>1, <1>2, <2>1, Zenon DEF CrtcStates, BoOrNone, FbOrNone
    <2>. HIDE DEF l, d
    <2>5. r.drm = d /\ r.mode.crtc[c] = l
        BY <1>1, <2>1, <2>3, <2>4, WithCrtcFact
    <2>6. \A g \in Fbs : d.fb[g] = IF g = f THEN b ELSE w.drm.fb[g]
        BY <1>1, <2>1, DrmParts DEF Created
    <2>7. ShadowHeld(r, c)
        BY <1>2, <1>3, <1>11, <2>1, <2>2, <2>4, <2>5, <2>6 DEF ShadowHeld, ids
    <2>8. d.scan = w.drm.scan /\ d.plane = w.drm.plane
        BY <2>1 DEF Created
    <2>9. r \in Worlds /\ OthersHeld(r) /\ CrtcFrame(w, r, c)
        <3>1. \A g \in Fbs \ ShadowIds[c] :
                 /\ d.fb[g] = w.drm.fb[g]
                 /\ w.drm.fb[g] # 0 => Pixels(d, g) = Pixels(w.drm, g)
            BY <2>1, <2>6 DEF ids
        <3>. QED
            BY <1>1, <2>1, <2>3, <2>4, <2>7, <2>8, <3>1, ShadowChange
    <2>10. TurnedBy(w, r, c, fault)
        BY <1>11, <2>2, <2>4, <2>5, <2>8 DEF TurnedBy, ShadowWhole, k
    <2>. QED
        BY <2>9, <2>10
<1>. QED
    BY <1>6, <1>8, <1>9, <1>10, <1>11 DEF NoShadowFault

-----------------------------------------------------------------------------
(* Mode setting.                                                           *)

NoModeFault(fault) == fault # "mode" /\ NoShadowFault(fault)

\* A framebuffer that a CRTC or its plane shows now.
LEMMA ScanFact ==
    ASSUME NEW d \in Drms, NEW c \in Crtcs, NEW f \in FbOrNone,
           NEW r, r = SetCrtc(d, c, f)
    PROVE  /\ r \in Drms /\ r.fb = d.fb /\ r.bo = d.bo /\ r.plane = d.plane
           /\ r.scan[c] = f /\ \A j \in Crtcs \ {c} : r.scan[j] = d.scan[j]
<1>1. r = [fb |-> d.fb, bo |-> d.bo, scan |-> [d.scan EXCEPT ![c] = f], plane |-> d.plane]
    BY DrmParts DEF SetCrtc
<1>2. [d.scan EXCEPT ![c] = f] \in [Crtcs -> FbOrNone]
    BY DrmParts
<1>3. r \in Drms
    BY <1>1, <1>2, DrmParts, DrmFact, Zenon
<1>. QED
    BY <1>1, <1>3, DrmParts

\* What setting a mode does to its CRTC.
ModeSetBy(w, r, c, rotation, fault) ==
    LET k == w.mode.crtc[c]  l == r.mode.crtc[c]
    IN  /\ l.enabled = k.enabled /\ l.on = k.on /\ l.desired = k.desired
        /\ l.rotation = rotation
        /\ ScansOwn(w) => ScansOwn(r)
        /\ NoModeFault(fault) /\ ShadowWhole(w, c) =>
              ShadowWhole(r, c) /\ (l.data = 0 <=> l.rotation = 0) /\ Shows(r, c)

\* Setting what a CRTC scans out.
LEMMA ScanChange ==
    ASSUME NEW w \in Worlds, OthersHeld(w), NEW c \in Crtcs, NEW f \in FbOrNone,
           NEW r, r.drm = SetCrtc(w.drm, c, f), r.mode = w.mode, r.video = w.video, r \in Worlds
    PROVE  /\ OthersHeld(r) /\ CrtcFrame(w, r, c)
           /\ r.drm.scan[c] = f /\ \A j \in Crtcs \ {c} : r.drm.scan[j] = w.drm.scan[j]
<1>. DEFINE d == r.drm
<1>1. /\ d \in Drms /\ d.fb = w.drm.fb /\ d.bo = w.drm.bo /\ d.plane = w.drm.plane
      /\ d.scan[c] = f /\ \A j \in Crtcs \ {c} : d.scan[j] = w.drm.scan[j]
    BY WorldParts, ScanFact
<1>2. OthersHeld(r)
    BY <1>1, SMTT(20) DEF OthersHeld, Refs, ImagesHeld, ShadowHeld, RotatedHeld
<1>3. CrtcFrame(w, r, c)
    BY <1>1, Zenon DEF CrtcFrame, ModeFrame, SameScreen, Pixels
<1>. QED
    BY <1>1, <1>2, <1>3, Zenon

LEMMA SetModeFact ==
    ASSUME NEW w \in Worlds, OthersHeld(w), w.mode.fb_id \in FrontIds, NEW c \in Crtcs,
           NEW rotation \in Nat, NEW fault,
           NEW r, r = drmmode_set_mode_major(w, c, rotation, fault)
    PROVE  /\ r \in Worlds /\ OthersHeld(r) /\ CrtcFrame(w, r, c)
           /\ ModeSetBy(w, r, c, rotation, fault)
<1>. DEFINE k == w.mode.crtc[c]
            l == [k EXCEPT !.rotation = rotation]
            asked == [w EXCEPT !.mode.crtc[c] = l]
            x == xf86CrtcRotate(asked, c, fault)
            shadow == x.mode.crtc[c].rotate_fb
            f == IF shadow # 0 THEN shadow ELSE x.mode.fb_id
            s == [x EXCEPT !.drm = SetCrtc(@, c, f)]
<1>1. w.mode.fb_id # 0
    BY IdsFact, Zenon
<1>2. r = IF RotateFails(asked, c, fault) \/ fault = "mode" THEN x ELSE s
    BY <1>1 DEF drmmode_set_mode_major, FrontAdded, AddRefused
<1>3. w.drm \in Drms /\ Refs(w.drm) /\ k \in CrtcStates /\ ShadowHeld(w, c)
    BY WorldParts DEF OthersHeld
<1>4. /\ l \in CrtcStates
      /\ l.enabled = k.enabled /\ l.on = k.on /\ l.rotation = rotation
      /\ l.desired = k.desired /\ l.rotate_fb = k.rotate_fb /\ l.data = k.data
      /\ l.rotate_bo = k.rotate_bo /\ l.shadow = k.shadow
    BY <1>3 DEF CrtcStates
<1>5. asked = WithCrtc(w, w.drm, c, l)
    <2>. HIDE DEF l
    <2>. QED
        BY WithCrtcOnly
<1>. HIDE DEF l, asked
<1>6. asked.mode.crtc[c] = l /\ asked.drm = w.drm
    BY <1>3, <1>4, <1>5, WithCrtcFact
<1>7. ShadowHeld(asked, c)
    BY <1>3, <1>4, <1>6 DEF ShadowHeld
<1>8. asked \in Worlds /\ OthersHeld(asked) /\ CrtcFrame(w, asked, c)
    BY <1>3, <1>4, <1>5, <1>7, ShadowChange, Zenon
<1>9. x \in Worlds /\ OthersHeld(x) /\ CrtcFrame(asked, x, c) /\ TurnedBy(asked, x, c, fault)
    BY <1>8, RotateFact, Zenon
<1>10. CrtcFrame(w, x, c)
    BY <1>8, <1>9, CrtcFrameFact, Zenon
<1>11. /\ x.mode.fb_id = w.mode.fb_id
       /\ x.mode.crtc[c].rotate_fb \in ShadowIds[c] \cup {0}
       /\ x.mode.crtc[c].data = 0 <=> x.mode.crtc[c].rotate_fb = 0
       /\ f \in FrontIds \cup ShadowIds[c]
    BY <1>9, <1>10 DEF CrtcFrame, SameScreen, OthersHeld, ShadowHeld
<1>. HIDE DEF x
<1>12. s \in Worlds /\ OthersHeld(s) /\ CrtcFrame(x, s, c) /\ s.mode = x.mode
       /\ s.drm.scan[c] = f /\ \A j \in Crtcs \ {c} : s.drm.scan[j] = x.drm.scan[j]
    <2>1. f \in FbOrNone
        BY <1>11, IdsFact, Zenon DEF FbOrNone
    <2>. HIDE DEF f
    <2>. DEFINE d == SetCrtc(x.drm, c, f)
    <2>2. s = [x EXCEPT !.drm = d]
        OBVIOUS
    <2>3. d \in Drms
        BY <1>9, <2>1, WorldParts, ScanFact
    <2>. HIDE DEF s, d
    <2>4. s = [drm |-> d, mode |-> x.mode, video |-> x.video] /\ s \in Worlds
        BY <1>9, <2>2, <2>3, WithDrmFact
    <2>5. s.drm = SetCrtc(x.drm, c, f) /\ s.mode = x.mode /\ s.video = x.video
        BY <2>4, Zenon DEF d
    <2>. QED
        BY <1>9, <2>1, <2>4, <2>5, ScanChange
<1>13. CrtcFrame(w, s, c)
    BY <1>10, <1>12, CrtcFrameFact, Zenon
<1>14. r.mode = x.mode
    BY <1>2, <1>12, Zenon
<1>15. /\ x.mode.crtc[c].enabled = k.enabled /\ x.mode.crtc[c].on = k.on
       /\ x.mode.crtc[c].desired = k.desired /\ x.mode.crtc[c].rotation = rotation
    BY <1>4, <1>6, <1>9 DEF TurnedBy
<1>16. ScansOwn(w) => ScansOwn(r)
    <2>1. ASSUME ScansOwn(w) PROVE ScansOwn(x)
        <3>1. ASSUME NEW j \in Crtcs
              PROVE  x.drm.scan[j] \in {w.drm.scan[j], 0}
            BY <1>6, <1>9, Zenon DEF TurnedBy
        <3>. QED
            BY <2>1, <3>1 DEF ScansOwn
    <2>2. ASSUME ScansOwn(x) PROVE ScansOwn(s)
        <3>1. ASSUME NEW j \in Crtcs
              PROVE  s.drm.scan[j] \in FrontIds \cup ShadowIds[j] \cup {0}
            <4>. HIDE DEF s, f
            <4>. QED
                BY <1>11, <1>12, <2>2, Zenon DEF ScansOwn
        <3>. QED
            BY <3>1, Zenon DEF ScansOwn
    <2>. QED
        BY <1>2, <2>1, <2>2
<1>17. ASSUME NoModeFault(fault), ShadowWhole(w, c)
       PROVE  /\ ShadowWhole(r, c) /\ Shows(r, c)
              /\ r.mode.crtc[c].data = 0 <=> r.mode.crtc[c].rotation = 0
    <2>1. r = s
        BY <1>2, <1>17 DEF NoModeFault, NoShadowFault, RotateFails
    <2>2. ShadowWhole(asked, c)
        BY <1>4, <1>6, <1>17 DEF ShadowWhole
    <2>3. ShadowWhole(x, c) /\ (x.mode.crtc[c].data = 0 <=> x.mode.crtc[c].rotation = 0)
        BY <1>9, <1>17, <2>2, Zenon DEF TurnedBy, NoModeFault
    <2>4. Shows(s, c)
        BY <1>11, <1>12, <2>3, Zenon DEF Shows
    <2>. QED
        BY <1>12, <2>1, <2>3, <2>4, Zenon DEF ShadowWhole
<1>18. ModeSetBy(w, r, c, rotation, fault)
    <2>. HIDE DEF k, s
    <2>. QED
        BY <1>14, <1>15, <1>16, <1>17 DEF ModeSetBy, k
<1>. QED
    BY <1>2, <1>9, <1>10, <1>12, <1>13, <1>18, Zenon

\* A CRTC that is as the server wants it.
Done(w, c) ==
    /\ ShadowWhole(w, c) /\ ShadowThere(w, c)
    /\ w.mode.crtc[c].enabled => Shows(w, c)

SameCrtc(w, r, c) ==
    LET k == w.mode.crtc[c]  l == r.mode.crtc[c]
    IN  /\ l.enabled = k.enabled /\ l.on = k.on /\ l.desired = k.desired
        /\ l.rotation \in {k.rotation, k.desired}

\* One step of the loops: turn is for the desired rotation.
Sets(w, r, c, turn, fault) ==
    /\ r \in Worlds /\ OthersHeld(r) /\ CrtcFrame(w, r, c) /\ SameCrtc(w, r, c)
    /\ turn /\ r.mode.crtc[c].enabled => r.mode.crtc[c].rotation = r.mode.crtc[c].desired
    /\ ScansOwn(w) => ScansOwn(r)
    /\ NoModeFault(fault) /\ ShadowWhole(w, c) => Done(r, c)

\* And a whole loop.
AllSet(w, r, turn, fault) ==
    /\ r \in Worlds /\ OthersHeld(r) /\ ModeFrame(w, r) /\ SameScreen(w, r)
    /\ \A f \in FrontIds : r.drm.fb[f] = w.drm.fb[f]
    /\ \A c \in Crtcs : SameCrtc(w, r, c)
    /\ turn => \A c \in Crtcs :
          r.mode.crtc[c].enabled => r.mode.crtc[c].rotation = r.mode.crtc[c].desired
    /\ ScansOwn(w) => ScansOwn(r)
    /\ NoModeFault(fault) /\ ScansOwn(w) /\ (\A c \in Crtcs : ShadowWhole(w, c)) =>
          \A c \in Crtcs : Done(r, c)

LEMMA CrtcsFact ==
    /\ 0 \in Crtcs /\ Crtcs \subseteq {0, 1}
    /\ 1 \notin Crtcs => Crtcs = {0}
    /\ 1 \in Crtcs => Crtcs = {0, 1}
BY FramebuffersAssumption

LEMMA AllSetFact ==
    ASSUME NEW w \in Worlds, NEW turn \in BOOLEAN, NEW fault, NEW x, NEW r,
           Sets(w, x, 0, turn, fault),
           IF 1 \in Crtcs THEN Sets(x, r, 1, turn, fault) ELSE r = x
    PROVE  AllSet(w, r, turn, fault)
<1>1. CASE 1 \notin Crtcs
    <2>1. Crtcs = {0} /\ r = x
        BY <1>1, CrtcsFact
    <2>. QED
        BY <2>1 DEF AllSet, Sets, CrtcFrame
<1>2. CASE 1 \in Crtcs
    <2>1. Crtcs = {0, 1} /\ Sets(x, r, 1, turn, fault)
        BY <1>2, CrtcsFact
    <2>2. ModeFrame(w, r)
        BY <2>1, ModeFrameFact DEF Sets, CrtcFrame
    <2>3. SameScreen(w, r) /\ \A f \in FrontIds : r.drm.fb[f] = w.drm.fb[f]
        BY <2>1 DEF Sets, CrtcFrame, SameScreen
    <2>4. x.mode.crtc[1] = w.mode.crtc[1] /\ r.mode.crtc[0] = x.mode.crtc[0]
        BY <2>1, SMTT(20) DEF Sets, CrtcFrame
    <2>5. \A c \in Crtcs : SameCrtc(w, r, c)
        BY <2>1, <2>4, Zenon DEF Sets, SameCrtc
    <2>6. turn => \A c \in Crtcs :
             r.mode.crtc[c].enabled => r.mode.crtc[c].rotation = r.mode.crtc[c].desired
        BY <2>1, <2>4 DEF Sets
    <2>7. ASSUME NoModeFault(fault), ScansOwn(w), \A c \in Crtcs : ShadowWhole(w, c)
          PROVE  Done(r, 0) /\ Done(r, 1)
        <3>1. ScansOwn(x) /\ Done(x, 0)
            BY <2>1, <2>7 DEF Sets
        <3>2. ShadowWhole(x, 1)
            BY <2>1, <2>4, <2>7 DEF ShadowWhole
        <3>3. Done(r, 1)
            BY <2>1, <2>7, <3>2 DEF Sets
        <3>4. x.drm.scan[0] \notin ShadowIds[1]
            BY <2>1, <3>1, ClassFact, IdsFact DEF ScansOwn
        <3>5. r.drm.scan[0] = x.drm.scan[0] /\ r.mode.fb_id = x.mode.fb_id
            BY <2>1, <3>4 DEF Sets, CrtcFrame, SameScreen
        <3>6. Done(r, 0)
            BY <2>4, <3>1, <3>5 DEF Done, ShadowWhole, ShadowThere, Shows
        <3>. QED
            BY <3>3, <3>6
    <2>8. ScansOwn(w) => ScansOwn(r)
        BY <2>1 DEF Sets
    <2>9. r \in Worlds /\ OthersHeld(r)
        BY <2>1, Zenon DEF Sets
    <2>. QED
        BY <2>1, <2>2, <2>3, <2>5, <2>6, <2>7, <2>8, <2>9 DEF AllSet
<1>. QED
    BY <1>1, <1>2

\* The two loops.
LEMMA SetsFact ==
    ASSUME NEW w \in Worlds, OthersHeld(w), w.mode.fb_id \in FrontIds, NEW c \in Crtcs,
           NEW turn \in BOOLEAN, w.mode.crtc[c].enabled, NEW fault,
           NEW r, r = drmmode_set_mode_major(w, c, IF turn THEN w.mode.crtc[c].desired
                                                   ELSE w.mode.crtc[c].rotation, fault)
    PROVE  Sets(w, r, c, turn, fault)
<1>. DEFINE rotation == IF turn THEN w.mode.crtc[c].desired ELSE w.mode.crtc[c].rotation
<1>1. rotation \in Nat
    BY WorldParts DEF CrtcStates
<1>. HIDE DEF rotation
<1>2. /\ r \in Worlds /\ OthersHeld(r) /\ CrtcFrame(w, r, c)
      /\ ModeSetBy(w, r, c, rotation, fault)
    BY <1>1, SetModeFact, Zenon DEF rotation
<1>3. SameCrtc(w, r, c)
    BY <1>2, Zenon DEF ModeSetBy, SameCrtc, rotation
<1>4. turn => r.mode.crtc[c].rotation = r.mode.crtc[c].desired
    BY <1>2, Zenon DEF ModeSetBy, rotation
<1>5. NoModeFault(fault) /\ ShadowWhole(w, c) => Done(r, c)
    BY <1>2, Zenon DEF ModeSetBy, Done, ShadowThere
<1>. QED
    BY <1>2, <1>3, <1>4, <1>5, Zenon DEF Sets, ModeSetBy

LEMMA SetsNothing ==
    ASSUME NEW w \in Worlds, OthersHeld(w), NEW c \in Crtcs, NEW turn \in BOOLEAN,
           ~w.mode.crtc[c].enabled, NEW fault
    PROVE  Sets(w, w, c, turn, fault)
BY CrtcFrameFact DEF Sets, SameCrtc, Done, ShadowThere

LEMMA SetDesiredFact ==
    ASSUME NEW w \in Worlds, OthersHeld(w), w.mode.fb_id \in FrontIds, NEW c \in Crtcs,
           NEW fault, NEW r, r = SetDesiredMode(w, c, fault)
    PROVE  Sets(w, r, c, TRUE, fault)
<1>1. CASE w.mode.crtc[c].enabled
    BY <1>1, SetsFact, Zenon DEF SetDesiredMode
<1>2. CASE ~w.mode.crtc[c].enabled
    <2>. DEFINE d == SetCrtc(w.drm, c, 0)
    <2>1. r = [w EXCEPT !.drm = d]
        BY <1>2 DEF SetDesiredMode
    <2>2. d \in Drms
        BY WorldParts, ScanFact DEF FbOrNone
    <2>. HIDE DEF d
    <2>3. r = [drm |-> d, mode |-> w.mode, video |-> w.video] /\ r \in Worlds
        BY <2>1, <2>2, WithDrmFact
    <2>4. r.drm = SetCrtc(w.drm, c, 0) /\ r.mode = w.mode /\ r.video = w.video
        BY <2>3 DEF d
    <2>5. /\ OthersHeld(r) /\ CrtcFrame(w, r, c)
          /\ r.drm.scan[c] = 0 /\ \A j \in Crtcs \ {c} : r.drm.scan[j] = w.drm.scan[j]
        BY <2>3, <2>4, ScanChange DEF FbOrNone
    <2>6. ScansOwn(w) => ScansOwn(r)
        BY <2>5 DEF ScansOwn
    <2>7. ShadowWhole(w, c) => Done(r, c)
        BY <1>2, <2>4 DEF Done, ShadowWhole, ShadowThere
    <2>. QED
        BY <1>2, <2>3, <2>4, <2>5, <2>6, <2>7 DEF Sets, SameCrtc
<1>. QED
    BY <1>1, <1>2, Zenon

LEMMA DesiredModesFact ==
    ASSUME NEW w \in Worlds, OthersHeld(w), w.mode.fb_id \in FrontIds, NEW fault,
           NEW r, r = drmmode_set_desired_modes(w, fault)
    PROVE  AllSet(w, r, TRUE, fault)
<1>. DEFINE x == SetDesiredMode(w, 0, fault)
<1>1. r = IF 1 \in Crtcs THEN SetDesiredMode(x, 1, fault) ELSE x
    BY CrtcsFact DEF drmmode_set_desired_modes, ForEach
<1>. HIDE DEF x
<1>2. Sets(w, x, 0, TRUE, fault)
    BY SetDesiredFact, CrtcsFact, Zenon DEF x
<1>3. x \in Worlds /\ OthersHeld(x) /\ x.mode.fb_id \in FrontIds
    BY <1>2 DEF Sets, CrtcFrame, SameScreen
<1>4. IF 1 \in Crtcs THEN Sets(x, r, 1, TRUE, fault) ELSE r = x
    BY <1>1, <1>3, SetDesiredFact, Zenon
<1>. QED
    BY <1>2, <1>4, AllSetFact, Zenon

\* The loop of a resize, over the enabled CRTCs.
ResizeFirst(w, fault) ==
    IF w.mode.crtc[0].enabled
    THEN drmmode_set_mode_major(w, 0, w.mode.crtc[0].rotation, fault) ELSE w

ResizeLoop(w, fault) ==
    LET x == ResizeFirst(w, fault)
    IN  IF 1 \in Crtcs /\ w.mode.crtc[1].enabled
        THEN drmmode_set_mode_major(x, 1, x.mode.crtc[1].rotation, fault) ELSE x

LEMMA ResizeLoopIs ==
    ASSUME NEW w, NEW fault
    PROVE  ResizeLoop(w, fault) =
              ForEach(EnabledCrtcs(w), LAMBDA acc, c :
                         drmmode_set_mode_major(acc, c, acc.mode.crtc[c].rotation, fault), w)
BY CrtcsFact DEF EnabledCrtcs, ForEach, ResizeLoop, ResizeFirst

LEMMA ResizeLoopFact ==
    ASSUME NEW w \in Worlds, OthersHeld(w), w.mode.fb_id \in FrontIds, NEW fault,
           NEW r, r = ResizeLoop(w, fault)
    PROVE  AllSet(w, r, FALSE, fault)
<1>. DEFINE x == ResizeFirst(w, fault)
<1>1. r = IF 1 \in Crtcs /\ w.mode.crtc[1].enabled
          THEN drmmode_set_mode_major(x, 1, x.mode.crtc[1].rotation, fault) ELSE x
    BY DEF ResizeLoop
<1>. HIDE DEF x
<1>2. Sets(w, x, 0, FALSE, fault)
    <2>1. CASE w.mode.crtc[0].enabled
        BY <2>1, SetsFact, CrtcsFact, Zenon DEF x, ResizeFirst
    <2>2. CASE ~w.mode.crtc[0].enabled
        BY <2>2, SetsNothing, CrtcsFact, Zenon DEF x, ResizeFirst
    <2>. QED
        BY <2>1, <2>2, Zenon
<1>3. x \in Worlds /\ OthersHeld(x) /\ x.mode.fb_id \in FrontIds
    BY <1>2 DEF Sets, CrtcFrame, SameScreen
<1>4. ASSUME 1 \in Crtcs PROVE x.mode.crtc[1] = w.mode.crtc[1]
    BY <1>2, <1>4 DEF Sets, CrtcFrame
<1>5. ASSUME 1 \in Crtcs PROVE Sets(x, r, 1, FALSE, fault)
    <2>1. CASE w.mode.crtc[1].enabled
        BY <1>1, <1>3, <1>4, <1>5, <2>1, SetsFact, Zenon
    <2>2. CASE ~w.mode.crtc[1].enabled
        BY <1>1, <1>3, <1>4, <1>5, <2>2, SetsNothing, Zenon
    <2>. QED
        BY <2>1, <2>2, Zenon
<1>6. 1 \notin Crtcs => r = x
    BY <1>1
<1>. QED
    BY <1>2, <1>5, <1>6, AllSetFact, Zenon

-----------------------------------------------------------------------------
(* The requests to the modes.                                              *)

ModeGood(w, r, fault) ==
    /\ r \in Worlds /\ HeldInv(r) /\ ModeFrame(w, r) /\ r.mode.open = w.mode.open
    /\ TurnsRight(w) => TurnsRight(r)
    /\ NoModeFault(fault) /\ ShownInv(w) => ShownInv(r)

LEMMA OneCrtc ==
    ASSUME NEW w \in Worlds, HeldInv(w), NEW c \in Crtcs, NEW fault,
           NEW r \in Worlds, OthersHeld(r), CrtcFrame(w, r, c),
           TurnsRight(w) => /\ r.mode.crtc[c].rotation \in Rotations[c]
                            /\ r.mode.crtc[c].desired \in Rotations[c],
           ScansOwn(w) => ScansOwn(r),
           NoModeFault(fault) /\ ShownInv(w) =>
              /\ ShadowWhole(r, c) /\ ShadowThere(r, c)
              /\ r.mode.vtSema /\ r.mode.crtc[c].enabled => Shows(r, c)
    PROVE  ModeGood(w, r, fault)
<1>1. HeldInv(r)
    BY DEF HeldInv, FrontHeld, CrtcFrame, SameScreen
<1>2. TurnsRight(w) => TurnsRight(r)
    BY DEF TurnsRight, CrtcFrame
<1>3. ASSUME NoModeFault(fault), ShownInv(w) PROVE ShownInv(r)
    <2>1. ScansOwn(r) /\ r.mode.pixmap = r.mode.front_bo
        BY <1>3 DEF ShownInv, CrtcFrame, SameScreen
    <2>2. ASSUME NEW j \in Crtcs \ {c}
          PROVE  /\ ShadowWhole(r, j) /\ ShadowThere(r, j)
                 /\ r.mode.vtSema /\ r.mode.crtc[j].enabled => Shows(r, j)
        <3>1. ShadowWhole(w, j) /\ ShadowThere(w, j)
              /\ (w.mode.vtSema /\ w.mode.crtc[j].enabled => Shows(w, j))
            BY <1>3 DEF ShownInv
        <3>2. r.mode.crtc[j] = w.mode.crtc[j] /\ r.mode.fb_id = w.mode.fb_id
              /\ r.mode.vtSema = w.mode.vtSema
            BY DEF CrtcFrame, SameScreen
        <3>3. w.drm.scan[j] \notin ShadowIds[c]
            BY <1>3, ClassFact, IdsFact DEF ShownInv, ScansOwn
        <3>4. r.drm.scan[j] = w.drm.scan[j]
            BY <3>3 DEF CrtcFrame
        <3>. QED
            BY <3>1, <3>2, <3>4 DEF ShadowWhole, ShadowThere, Shows
    <2>. QED
        BY <1>3, <2>1, <2>2 DEF ShownInv
<1>. QED
    BY <1>1, <1>2, <1>3 DEF ModeGood, CrtcFrame, SameScreen

\* A mode for a CRTC that keeps its place with the server.
LEMMA AdjustGood ==
    ASSUME NEW w \in Worlds, HeldInv(w), NEW c \in Crtcs, NEW fault,
           NEW rotation \in Nat, TurnsRight(w) => rotation \in Rotations[c],
           NEW r, r = drmmode_set_mode_major(w, c, rotation, fault)
    PROVE  ModeGood(w, r, fault)
<1>1. OthersHeld(w) /\ w.mode.fb_id \in FrontIds
    BY DEF HeldInv, FrontHeld
<1>2. /\ r \in Worlds /\ OthersHeld(r) /\ CrtcFrame(w, r, c)
      /\ ModeSetBy(w, r, c, rotation, fault)
    BY <1>1, SetModeFact
<1>3. TurnsRight(w) => r.mode.crtc[c].rotation \in Rotations[c]
                       /\ r.mode.crtc[c].desired \in Rotations[c]
    BY <1>2 DEF TurnsRight, ModeSetBy
<1>4. NoModeFault(fault) /\ ShownInv(w) =>
         /\ ShadowWhole(r, c) /\ ShadowThere(r, c)
         /\ r.mode.vtSema /\ r.mode.crtc[c].enabled => Shows(r, c)
    BY <1>2 DEF ModeSetBy, ShownInv, ShadowThere
<1>5. ScansOwn(w) => ScansOwn(r)
    BY <1>2 DEF ModeSetBy
<1>. QED
    BY <1>2, <1>3, <1>4, <1>5, OneCrtc

\* What the server keeps of a CRTC.
LEMMA NoteFact ==
    ASSUME NEW w \in Worlds, OthersHeld(w), NEW c \in Crtcs, NEW k \in CrtcStates,
           k.rotate_bo = w.mode.crtc[c].rotate_bo, k.rotate_fb = w.mode.crtc[c].rotate_fb,
           k.data = w.mode.crtc[c].data, k.shadow = w.mode.crtc[c].shadow,
           NEW r, r = WithCrtc(w, w.drm, c, k)
    PROVE  /\ r \in Worlds /\ OthersHeld(r) /\ CrtcFrame(w, r, c)
           /\ r.drm = w.drm /\ r.mode.crtc[c] = k
           /\ ShadowWhole(w, c) <=> ShadowWhole(r, c)
           /\ ScansOwn(w) <=> ScansOwn(r)
<1>1. w.drm \in Drms /\ Refs(w.drm) /\ ShadowHeld(w, c)
    BY WorldParts DEF OthersHeld
<1>2. r.drm = w.drm /\ r.mode.crtc[c] = k
    BY <1>1, WithCrtcFact
<1>3. ShadowHeld(r, c)
    BY <1>1, <1>2 DEF ShadowHeld
<1>4. r \in Worlds /\ OthersHeld(r) /\ CrtcFrame(w, r, c)
    BY <1>1, <1>3, ShadowChange
<1>. QED
    BY <1>2, <1>4 DEF ShadowWhole, ScansOwn

LEMMA ModeSetGood ==
    ASSUME NEW w \in Worlds, HeldInv(w), NEW c \in Crtcs, NEW fault,
           NEW rotation \in Rotations[c],
           NEW r, r = ModeSet(w, c, rotation, fault)
    PROVE  ModeGood(w, r, fault)
<1>. DEFINE k == w.mode.crtc[c]
            l == [k EXCEPT !.enabled = TRUE]
            on == WithCrtc(w, w.drm, c, l)
            s == drmmode_set_mode_major(on, c, rotation, fault)
            m == [s.mode.crtc[c] EXCEPT !.desired = rotation]
<1>1. OthersHeld(w) /\ w.mode.fb_id \in FrontIds /\ w.mode.fb_id # 0 /\ rotation \in Nat
    BY IdsFact, DisplayAssumption DEF HeldInv, FrontHeld
<1>2. k \in CrtcStates
    BY WorldParts
<1>3. /\ l \in CrtcStates /\ l.rotate_bo = k.rotate_bo /\ l.rotate_fb = k.rotate_fb
      /\ l.data = k.data /\ l.shadow = k.shadow
    BY <1>2, Zenon DEF CrtcStates
<1>4. r = [s EXCEPT !.mode.crtc[c] = m]
    <2>1. [w EXCEPT !.mode.crtc[c].enabled = TRUE] = on
        <3>1. [w EXCEPT !.mode.crtc[c].enabled = TRUE] = [w EXCEPT !.mode.crtc[c] = l]
            OBVIOUS
        <3>. HIDE DEF l
        <3>. QED
            BY <3>1, WithCrtcOnly
    <2>. HIDE DEF on, l
    <2>. QED
        BY <1>1, <2>1, Zenon DEF ModeSet, AddRefused
<1>5. /\ on \in Worlds /\ OthersHeld(on) /\ CrtcFrame(w, on, c)
      /\ ShadowWhole(w, c) <=> ShadowWhole(on, c)
      /\ ScansOwn(w) <=> ScansOwn(on)
    <2>. HIDE DEF l
    <2>. QED
        BY <1>1, <1>3, NoteFact
<1>. HIDE DEF on, l
<1>6. on.mode.fb_id \in FrontIds
    BY <1>1, <1>5 DEF CrtcFrame, SameScreen
<1>7. /\ s \in Worlds /\ OthersHeld(s) /\ CrtcFrame(on, s, c)
      /\ ModeSetBy(on, s, c, rotation, fault)
    BY <1>1, <1>5, <1>6, SetModeFact
<1>. DEFINE n == s.mode.crtc[c]
<1>8. n \in CrtcStates
    BY <1>7, WorldParts
<1>9. /\ m \in CrtcStates /\ m.rotate_bo = n.rotate_bo /\ m.rotate_fb = n.rotate_fb
      /\ m.data = n.data /\ m.shadow = n.shadow /\ m.rotation = n.rotation
      /\ m.desired = rotation /\ m.enabled = n.enabled
    BY <1>1, <1>8 DEF CrtcStates
<1>. HIDE DEF s, m
<1>10. r = WithCrtc(s, s.drm, c, m)
    BY <1>4, <1>7, WithCrtcOnly
<1>11. /\ r \in Worlds /\ OthersHeld(r) /\ CrtcFrame(s, r, c)
       /\ r.drm = s.drm /\ r.mode.crtc[c] = m
       /\ ShadowWhole(s, c) <=> ShadowWhole(r, c)
       /\ ScansOwn(s) <=> ScansOwn(r)
    BY <1>7, <1>9, <1>10, NoteFact
<1>12. CrtcFrame(w, r, c)
    BY <1>5, <1>7, <1>11, CrtcFrameFact
<1>13. r.mode.crtc[c].rotation \in Rotations[c] /\ r.mode.crtc[c].desired \in Rotations[c]
    BY <1>7, <1>9, <1>11 DEF ModeSetBy
<1>14. ScansOwn(w) => ScansOwn(r)
    BY <1>5, <1>7, <1>11 DEF ModeSetBy
<1>15. ASSUME NoModeFault(fault), ShownInv(w)
       PROVE  /\ ShadowWhole(r, c) /\ ShadowThere(r, c)
              /\ r.mode.vtSema /\ r.mode.crtc[c].enabled => Shows(r, c)
    <2>1. ShadowWhole(on, c)
        BY <1>5, <1>15 DEF ShownInv
    <2>2. ShadowWhole(s, c) /\ (n.data = 0 <=> n.rotation = 0) /\ Shows(s, c)
        BY <1>7, <1>15, <2>1 DEF ModeSetBy
    <2>3. r.mode.fb_id = s.mode.fb_id
        BY <1>11 DEF CrtcFrame, SameScreen
    <2>. QED
        BY <1>9, <1>11, <2>2, <2>3 DEF Shows, ShadowThere
<1>. QED
    BY <1>11, <1>12, <1>13, <1>14, <1>15, OneCrtc

LEMMA CrtcOffGood ==
    ASSUME NEW w \in Worlds, HeldInv(w), NEW c \in Crtcs, NEW fault,
           NEW r, r = CrtcOff(w, c)
    PROVE  ModeGood(w, r, fault)
<1>. DEFINE s == drmmode_shadow_destroy(w, c)
            n == s.mode.crtc[c]
            m == [n EXCEPT !.enabled = FALSE, !.on = FALSE]
<1>1. r = [s EXCEPT !.mode.crtc[c] = m]
    BY DEF CrtcOff
<1>2. s \in Worlds /\ OthersHeld(s) /\ CrtcFrame(w, s, c) /\ DestroyedBy(w, s, c)
    BY DestroyFact DEF HeldInv
<1>3. n \in CrtcStates
    BY <1>2, WorldParts
<1>4. /\ m \in CrtcStates /\ m.rotate_bo = n.rotate_bo /\ m.rotate_fb = n.rotate_fb
      /\ m.data = n.data /\ m.shadow = n.shadow /\ m.rotation = n.rotation
      /\ m.desired = n.desired /\ m.enabled = FALSE
    BY <1>3, Zenon DEF CrtcStates
<1>. HIDE DEF s, m
<1>5. r = WithCrtc(s, s.drm, c, m)
    BY <1>1, <1>2, WithCrtcOnly
<1>6. /\ r \in Worlds /\ OthersHeld(r) /\ CrtcFrame(s, r, c)
      /\ r.drm = s.drm /\ r.mode.crtc[c] = m
      /\ ShadowWhole(s, c) <=> ShadowWhole(r, c)
      /\ ScansOwn(s) <=> ScansOwn(r)
    BY <1>2, <1>4, <1>5, NoteFact
<1>7. CrtcFrame(w, r, c)
    BY <1>2, <1>6, CrtcFrameFact
<1>8. TurnsRight(w) => r.mode.crtc[c].rotation \in Rotations[c]
                       /\ r.mode.crtc[c].desired \in Rotations[c]
    BY <1>2, <1>4, <1>6 DEF TurnsRight, DestroyedBy
<1>9. ScansOwn(w) => ScansOwn(r)
    <2>1. ASSUME NEW j \in Crtcs PROVE s.drm.scan[j] \in {w.drm.scan[j], 0}
        BY <1>2, Zenon DEF DestroyedBy
    <2>. QED
        BY <1>6, <2>1 DEF ScansOwn
<1>10. ShownInv(w) => /\ ShadowWhole(r, c) /\ ShadowThere(r, c)
                      /\ r.mode.vtSema /\ r.mode.crtc[c].enabled => Shows(r, c)
    BY <1>2, <1>4, <1>6 DEF ShownInv, DestroyedBy, ShadowThere
<1>. QED
    BY <1>6, <1>7, <1>8, <1>9, <1>10, OneCrtc

LEMMA WakeUpGood ==
    ASSUME NEW w \in Worlds, HeldInv(w), NEW fault,
           NEW r, r = drmmode_crtc_dpms(w)
    PROVE  ModeGood(w, r, fault)
<1>. DEFINE crtc == [c \in Crtcs |-> [w.mode.crtc[c] EXCEPT !.on = w.mode.crtc[c].on \/ w.mode.crtc[c].enabled]]
            m == [w.mode EXCEPT !.crtc = crtc]
<1>1. w.mode \in Modes /\ w = [drm |-> w.drm, mode |-> w.mode, video |-> w.video]
    BY WorldParts
<1>2. r = [w EXCEPT !.mode = m]
    <2>. HIDE DEF m
    <2>1. r = [w EXCEPT !.mode.crtc = crtc]
        BY DEF drmmode_crtc_dpms
    <2>. HIDE DEF crtc
    <2>. USE DEF m
    <2>. QED
        BY <2>1
<1>3. r = [drm |-> w.drm, mode |-> m, video |-> w.video]
    <2>. HIDE DEF m
    <2>. QED
        BY <1>1, <1>2
<1>4. ASSUME NEW c \in Crtcs
      PROVE  LET k == w.mode.crtc[c]  l == crtc[c]
             IN  /\ l \in CrtcStates
                 /\ l.rotate_bo = k.rotate_bo /\ l.rotate_fb = k.rotate_fb /\ l.data = k.data
                 /\ l.shadow = k.shadow /\ l.enabled = k.enabled
                 /\ l.rotation = k.rotation /\ l.desired = k.desired
    <2>. DEFINE k == w.mode.crtc[c]
    <2>1. k \in CrtcStates
        BY WorldParts
    <2>2. crtc[c] = [k EXCEPT !.on = k.on \/ k.enabled] /\ (k.on \/ k.enabled) \in BOOLEAN
        BY <2>1 DEF CrtcStates
    <2>. HIDE DEF k
    <2>. DEFINE b == k.on \/ k.enabled
    <2>3. crtc[c] = [k EXCEPT !.on = b] /\ b \in BOOLEAN
        BY <2>2
    <2>. HIDE DEF b, crtc
    <2>4. /\ crtc[c] \in CrtcStates
          /\ crtc[c].rotate_bo = k.rotate_bo /\ crtc[c].rotate_fb = k.rotate_fb
          /\ crtc[c].data = k.data /\ crtc[c].shadow = k.shadow
          /\ crtc[c].enabled = k.enabled /\ crtc[c].rotation = k.rotation
          /\ crtc[c].desired = k.desired
        BY <2>1, <2>3 DEF CrtcStates
    <2>. QED
        BY <2>4 DEF k
<1>5. crtc \in [Crtcs -> CrtcStates]
    <2>. HIDE DEF crtc
    <2>1. \A c \in Crtcs : crtc[c] \in CrtcStates
        BY <1>4
    <2>. QED
        BY <2>1 DEF crtc
<1>. HIDE DEF crtc
<1>6. m \in Modes /\ m.crtc = crtc /\ m.open = w.mode.open /\ m.vtSema = w.mode.vtSema
      /\ m.fb_id = w.mode.fb_id /\ m.front_bo = w.mode.front_bo /\ m.pixmap = w.mode.pixmap
    BY <1>1, <1>5 DEF Modes
<1>. HIDE DEF m
<1>7. r \in Worlds
    BY <1>3, <1>6, WorldParts, Zenon DEF Worlds
<1>8. HeldInv(r)
    BY <1>3, <1>4, <1>6, SMTT(20) DEF HeldInv, FrontHeld, OthersHeld, ImagesHeld, ShadowHeld, RotatedHeld
<1>9. ModeFrame(w, r)
    BY <1>3 DEF ModeFrame
<1>10. TurnsRight(w) => TurnsRight(r)
    BY <1>3, <1>4, <1>6 DEF TurnsRight
<1>11. ShownInv(w) => ShownInv(r)
    BY <1>3, <1>4, <1>6 DEF ShownInv, ScansOwn, ShadowWhole, ShadowThere, Shows
<1>. QED
    BY <1>3, <1>6, <1>7, <1>8, <1>9, <1>10, <1>11 DEF ModeGood

WithSema(w, v) == [w EXCEPT !.mode.vtSema = v]

LEMMA VtSemaIs ==
    ASSUME NEW s \in Worlds, NEW v \in BOOLEAN, NEW r, r = WithSema(s, v)
    PROVE  /\ r \in Worlds /\ r.drm = s.drm /\ r.video = s.video /\ r.mode.vtSema = v
           /\ r.mode.crtc = s.mode.crtc /\ r.mode.open = s.mode.open
           /\ r.mode.fb_id = s.mode.fb_id /\ r.mode.front_bo = s.mode.front_bo
           /\ r.mode.pixmap = s.mode.pixmap
<1>1. s.mode \in Modes /\ s = [drm |-> s.drm, mode |-> s.mode, video |-> s.video]
    BY WorldParts
<1>. DEFINE m == [s.mode EXCEPT !.vtSema = v]
<1>2. r = [drm |-> s.drm, mode |-> m, video |-> s.video]
    BY <1>1 DEF WithSema
<1>3. m \in Modes /\ m.crtc = s.mode.crtc /\ m.open = s.mode.open /\ m.vtSema = v
      /\ m.fb_id = s.mode.fb_id /\ m.front_bo = s.mode.front_bo /\ m.pixmap = s.mode.pixmap
    BY <1>1 DEF Modes
<1>. HIDE DEF m
<1>4. r \in Worlds
    BY <1>2, <1>3, WorldParts DEF Worlds
<1>. QED
    BY <1>2, <1>3, <1>4

\* When the terminal comes back.
LEMMA EnterGood ==
    ASSUME NEW w \in Worlds, HeldInv(w), NEW fault, NEW s, AllSet(w, s, TRUE, fault),
           NEW r \in Worlds, r.drm = s.drm, r.video = s.video,
           r.mode.crtc = s.mode.crtc, r.mode.open = s.mode.open,
           r.mode.fb_id = s.mode.fb_id, r.mode.front_bo = s.mode.front_bo,
           r.mode.pixmap = s.mode.pixmap
    PROVE  ModeGood(w, r, fault)
<1>5. HeldInv(r)
    <2>1. OthersHeld(r)
        BY SMTT(20) DEF AllSet, OthersHeld, ImagesHeld, ShadowHeld, RotatedHeld
    <2>2. FrontHeld(r)
        BY DEF AllSet, HeldInv, FrontHeld, SameScreen
    <2>. QED
        BY <2>1, <2>2, Zenon DEF HeldInv
<1>6. ModeFrame(w, r)
    BY DEF AllSet, ModeFrame, Pixels
<1>7. TurnsRight(w) => TurnsRight(r)
    BY DEF TurnsRight, AllSet, SameCrtc
<1>8. ASSUME NoModeFault(fault), ShownInv(w) PROVE ShownInv(r)
    <2>1. ScansOwn(s) /\ \A c \in Crtcs : Done(s, c)
        BY <1>8 DEF AllSet, ShownInv
    <2>2. s.mode.pixmap = s.mode.front_bo
        BY <1>8 DEF AllSet, SameScreen, ShownInv
    <2>. QED
        BY <2>1, <2>2 DEF Done, ShownInv, ScansOwn, ShadowWhole, ShadowThere, Shows
<1>. QED
    BY <1>5, <1>6, <1>7, <1>8, Zenon DEF ModeGood, AllSet, SameScreen

-----------------------------------------------------------------------------
(* A resize.                                                               *)

\* Between the new front and the loss of the old one.
LEMMA NewFrontFact ==
    ASSUME NEW w \in Worlds, HeldInv(w),
           NEW b, b = NewBo(w.drm, FrontIds), NEW f, f = NewFb(w.drm, FrontIds),
           NEW d, d = AddFB(BoNew(w.drm, FrontIds, BlankPixels), FrontIds, b),
           NEW m, m = [open |-> w.mode.open, vtSema |-> w.mode.vtSema, fb_id |-> f,
                       front_bo |-> b, pixmap |-> b, crtc |-> w.mode.crtc],
           NEW r, r = [drm |-> d, mode |-> m, video |-> w.video]
    PROVE  /\ r \in Worlds /\ OthersHeld(r) /\ ModeFrame(w, r)
           /\ f \in FrontIds /\ f # w.mode.fb_id /\ b \in FrontIds
           /\ \A g \in FrontIds : d.fb[g] = IF g = f THEN b ELSE w.drm.fb[g]
           /\ m.crtc = w.mode.crtc /\ m.open = w.mode.open /\ m.vtSema = w.mode.vtSema
           /\ m.fb_id = f /\ m.front_bo = b /\ m.pixmap = b
           /\ d.scan = w.drm.scan
<1>1. /\ w.drm \in Drms /\ w.mode \in Modes /\ Refs(w.drm) /\ OthersHeld(w) /\ FrontHeld(w)
      /\ FrontIds \subseteq Fbs /\ Bos = Fbs /\ 0 \notin Fbs
    BY WorldParts, IdsFact DEF HeldInv, OthersHeld
<1>2. \E g \in FrontIds : w.drm.fb[g] = 0
    <2>1. PICK g \in FrontIds : g # w.mode.fb_id
        BY <1>1, FramebuffersAssumption DEF FrontHeld
    <2>. QED
        BY <1>1, <2>1 DEF FrontHeld
<1>3. \E x \in FrontIds : FreeBo(w.drm, x)
    <2>0. w.mode.front_bo \in Fbs
        BY <1>1 DEF FrontHeld
    <2>00. FrontIds \ {w.mode.front_bo} # {}
        BY <2>0, FramebuffersAssumption, Zenon
    <2>1. PICK x \in FrontIds : x # w.mode.front_bo
        BY <2>00
    <2>2. \A g \in FrontIds : w.drm.fb[g] # x
        BY <1>1, <2>1 DEF FrontHeld
    <2>. QED
        BY <1>1, <2>2, FreeOf
<1>4. BlankPixels \in Pics
    BY BlankFact DEF BlankPixels, Picture, Pics
<1>5. /\ Created(w.drm, d, f, b, BlankPixels) /\ d \in Drms /\ Refs(d)
      /\ f \in FrontIds /\ w.drm.fb[f] = 0 /\ b \in FrontIds
      /\ \A g \in Fbs : w.drm.fb[g] # 0 => d.fb[g] = w.drm.fb[g] /\ Pixels(d, g) = Pixels(w.drm, g)
    BY <1>1, <1>2, <1>3, <1>4, CreateFact
<1>6. \A g \in Fbs : d.fb[g] = IF g = f THEN b ELSE w.drm.fb[g]
    BY <1>1, <1>5, DrmParts DEF Created
<1>7. m \in Modes /\ m.crtc = w.mode.crtc /\ m.open = w.mode.open /\ m.vtSema = w.mode.vtSema
      /\ m.fb_id = f /\ m.front_bo = b /\ m.pixmap = b
    BY <1>1, <1>5 DEF Modes, BoOrNone, FbOrNone
<1>8. r \in Worlds
    BY <1>5, <1>7, WorldParts DEF Worlds
<1>9. PictureIds \subseteq Fbs \ FrontIds /\ \A c \in Crtcs : ShadowIds[c] \subseteq Fbs \ FrontIds
    BY ClassFact, IdsFact DEF PictureIds
<1>10. ModeFrame(w, r)
    BY <1>5, <1>6, <1>9, Zenon DEF ModeFrame, Created
<1>11. \A c \in Crtcs : ShadowHeld(r, c)
    <2>1. ASSUME NEW c \in Crtcs PROVE ShadowHeld(r, c)
        <3>1. ShadowHeld(w, c) /\ r.mode.crtc[c] = w.mode.crtc[c]
            BY <1>1, <1>7 DEF OthersHeld
        <3>2. \A g \in ShadowIds[c] : r.drm.fb[g] = w.drm.fb[g]
            BY <1>5, <1>6, <1>9
        <3>. QED
            BY <3>1, <3>2 DEF ShadowHeld
    <2>. QED
        BY <2>1
<1>12. \A g \in FrontIds : d.fb[g] \in FrontIds \cup {0}
    BY <1>1, <1>5, <1>6 DEF OthersHeld
<1>13. OthersHeld(r)
    BY <1>1, <1>5, <1>10, <1>11, <1>12, ModeFrameHeld DEF OthersHeld
<1>14. f # w.mode.fb_id
    BY <1>1, <1>5 DEF FrontHeld
<1>. QED
    BY <1>1, <1>5, <1>6, <1>7, <1>8, <1>10, <1>13, <1>14 DEF Created

\* The end of it.
LEMMA OldFrontFact ==
    ASSUME NEW s \in Worlds, OthersHeld(s), NEW f \in FrontIds, NEW b \in FrontIds,
           s.drm.fb[f] = b, f # s.mode.fb_id,
           s.mode.fb_id \in FrontIds, s.mode.front_bo \in FrontIds,
           \A g \in FrontIds \ {f} : s.drm.fb[g] = IF g = s.mode.fb_id THEN s.mode.front_bo ELSE 0,
           NEW d, d = BoUnref(RmFB(s.drm, f), b),
           NEW r, r = [drm |-> d, mode |-> s.mode, video |-> s.video]
    PROVE  /\ r \in Worlds /\ HeldInv(r) /\ ModeFrame(s, r)
           /\ \A c \in Crtcs : r.drm.scan[c] = IF s.drm.scan[c] = f THEN 0 ELSE s.drm.scan[c]
<1>1. /\ s.drm \in Drms /\ Refs(s.drm) /\ f \in Fbs /\ f # 0 /\ b # 0
      /\ FrontIds \subseteq Fbs
    BY WorldParts, IdsFact DEF OthersHeld
<1>2. /\ Freed(s.drm, d, f) /\ d \in Drms /\ Refs(d)
      /\ \A g \in Fbs \ {f} : s.drm.fb[g] # 0 =>
            d.fb[g] = s.drm.fb[g] /\ Pixels(d, g) = Pixels(s.drm, g)
    BY <1>1, FreeFact
<1>3. \A g \in Fbs : d.fb[g] = IF g = f THEN 0 ELSE s.drm.fb[g]
    BY <1>1, <1>2, DrmParts DEF Freed
<1>4. r \in Worlds
    BY <1>2, WorldParts DEF Worlds
<1>5. PictureIds \subseteq Fbs \ FrontIds /\ \A c \in Crtcs : ShadowIds[c] \subseteq Fbs \ FrontIds
    BY ClassFact, IdsFact DEF PictureIds
<1>6. ModeFrame(s, r)
    <2>1. \A c \in Crtcs : s.drm.plane[c] \in PictureIds \cup {0} => r.drm.plane[c] = s.drm.plane[c]
        BY <1>1, <1>2, <1>5 DEF Freed
    <2>. QED
        BY <1>2, <1>3, <1>5, <2>1 DEF ModeFrame
<1>7. \A c \in Crtcs : ShadowHeld(r, c)
    <2>1. ASSUME NEW c \in Crtcs PROVE ShadowHeld(r, c)
        <3>1. ShadowHeld(s, c)
            BY DEF OthersHeld
        <3>2. \A g \in ShadowIds[c] : r.drm.fb[g] = s.drm.fb[g]
            BY <1>3, <1>5
        <3>. QED
            BY <3>1, <3>2 DEF ShadowHeld
    <2>. QED
        BY <2>1
<1>8. \A g \in FrontIds : d.fb[g] = IF g = s.mode.fb_id THEN s.mode.front_bo ELSE 0
    BY <1>1, <1>3
<1>9. FrontHeld(r) /\ \A g \in FrontIds : d.fb[g] \in FrontIds \cup {0}
    BY <1>8 DEF FrontHeld
<1>10. OthersHeld(r)
    BY <1>2, <1>6, <1>7, <1>9, ModeFrameHeld DEF OthersHeld
<1>. QED
    BY <1>2, <1>4, <1>6, <1>9, <1>10 DEF HeldInv, Freed

LEMMA ModeGoodNothing ==
    ASSUME NEW w \in Worlds, HeldInv(w), NEW fault
    PROVE  ModeGood(w, w, fault)
BY ModeFrameFact DEF ModeGood

LEMMA ResizeGood ==
    ASSUME NEW w \in Worlds, HeldInv(w), NEW fault, fault # "front_map",
           NEW r, r = drmmode_xf86crtc_resize(w, fault)
    PROVE  ModeGood(w, r, fault)
<1>. DEFINE b == NewBo(w.drm, FrontIds)
            f == NewFb(w.drm, FrontIds)
            made == BoNew(w.drm, FrontIds, BlankPixels)
            d == AddFB(made, FrontIds, b)
            m == [w.mode EXCEPT !.front_bo = b, !.pixmap = b, !.fb_id = f]
            new == [drm |-> d, mode |-> m, video |-> w.video]
            set == ResizeLoop(new, fault)
            e == BoUnref(RmFB(set.drm, w.mode.fb_id), w.mode.front_bo)
<1>1. /\ w.drm \in Drms /\ Refs(w.drm) /\ w.mode \in Modes /\ OthersHeld(w) /\ FrontHeld(w)
      /\ FrontIds \subseteq Fbs /\ 0 \notin Fbs /\ w.mode.fb_id # 0
      /\ w = [drm |-> w.drm, mode |-> w.mode, video |-> w.video]
    BY WorldParts, IdsFact DEF HeldInv, OthersHeld, FrontHeld
<1>2. BlankPixels \in Pics
    BY BlankFact DEF BlankPixels, Picture, Pics
<1>3. made = dumb_bo_create(w.drm, FrontIds)
    BY DEF dumb_bo_create, BlankPixels
<1>4. CASE fault = "front_bo"
    <2>1. r = w
        BY <1>4 DEF drmmode_xf86crtc_resize
    <2>. QED
        BY <2>1, ModeGoodNothing
<1>5. CASE fault = "front_fb"
    <2>. DEFINE g == BoUnref(made, b)
    <2>1. r = [w EXCEPT !.drm = g]
        BY <1>3, <1>5 DEF drmmode_xf86crtc_resize, dumb_bo_destroy
    <2>2. \E x \in FrontIds : FreeBo(w.drm, x)
        <3>1. PICK x \in FrontIds : x # w.mode.front_bo
            BY <1>1, FramebuffersAssumption DEF FrontHeld
        <3>2. \A h \in FrontIds : w.drm.fb[h] # x
            BY <1>1, <3>1 DEF FrontHeld
        <3>. QED
            BY <1>1, <3>2, FreeOf
    <2>3. /\ g.fb = w.drm.fb /\ g.scan = w.drm.scan /\ g.plane = w.drm.plane
          /\ g \in Drms /\ Refs(g)
          /\ \A h \in Fbs : w.drm.fb[h] # 0 => Pixels(g, h) = Pixels(w.drm, h)
        BY <1>1, <1>2, <2>2, DropFact
    <2>. HIDE DEF g
    <2>4. r = [drm |-> g, mode |-> w.mode, video |-> w.video] /\ r \in Worlds
        BY <2>1, <2>3, WithDrmFact, Zenon
    <2>5. ModeFrame(w, r)
        BY <2>3, <2>4, IdsFact, SMTT(20) DEF ModeFrame, PictureIds
    <2>6. HeldInv(r)
        BY <1>1, <2>3, <2>4 DEF HeldInv, FrontHeld, OthersHeld, ImagesHeld, ShadowHeld, RotatedHeld
    <2>7. ShownInv(w) => ShownInv(r)
        BY <2>3, <2>4, SMTT(20) DEF ShownInv, ScansOwn, ShadowWhole, ShadowThere, Shows
    <2>. QED
        BY <2>4, <2>5, <2>6, <2>7 DEF ModeGood, TurnsRight
<1>6. CASE fault \notin {"front_bo", "front_fb"}
    <2>1. r = [set EXCEPT !.drm = e]
        <3>1. NewFb(made, FrontIds) = f
            BY <1>1 DEF NewFb, BoNew, Drms
        <3>2. new = [w EXCEPT !.drm = d,
                       !.mode = [@ EXCEPT !.front_bo = b, !.pixmap = b, !.fb_id = NewFb(made, FrontIds)]]
            <4>1. m = [w.mode EXCEPT !.front_bo = b, !.pixmap = b, !.fb_id = NewFb(made, FrontIds)]
                BY <3>1
            <4>. HIDE DEF m, d
            <4>. DEFINE y == [w EXCEPT !.drm = d]
            <4>2. y = [drm |-> d, mode |-> w.mode, video |-> w.video]
                BY <1>1
            <4>3. [w EXCEPT !.drm = d, !.mode = m] = [y EXCEPT !.mode = m]
                OBVIOUS
            <4>. HIDE DEF y
            <4>4. [y EXCEPT !.mode = m] = new
                BY <4>2
            <4>. QED
                BY <4>1, <4>3, <4>4
        <3>. HIDE DEF new
        <3>3. set = ForEach(EnabledCrtcs(new), LAMBDA acc, c :
                         drmmode_set_mode_major(acc, c, acc.mode.crtc[c].rotation, fault), new)
            BY ResizeLoopIs, Zenon
        <3>. HIDE DEF set
        <3>. QED
            BY <1>1, <1>3, <1>6, <3>2, <3>3, Zenon DEF drmmode_xf86crtc_resize, dumb_bo_destroy
    <2>2. /\ new \in Worlds /\ OthersHeld(new) /\ ModeFrame(w, new)
          /\ f \in FrontIds /\ f # w.mode.fb_id /\ b \in FrontIds
          /\ \A g \in FrontIds : d.fb[g] = IF g = f THEN b ELSE w.drm.fb[g]
          /\ m.crtc = w.mode.crtc /\ m.open = w.mode.open /\ m.vtSema = w.mode.vtSema
          /\ m.fb_id = f /\ m.front_bo = b /\ m.pixmap = b
          /\ d.scan = w.drm.scan
        <3>1. /\ b = NewBo(w.drm, FrontIds) /\ f = NewFb(w.drm, FrontIds)
              /\ d = AddFB(BoNew(w.drm, FrontIds, BlankPixels), FrontIds, b)
            OBVIOUS
        <3>. HIDE DEF b, f, d
        <3>2. m = [open |-> w.mode.open, vtSema |-> w.mode.vtSema, fb_id |-> f,
                   front_bo |-> b, pixmap |-> b, crtc |-> w.mode.crtc]
            <4>1. w.mode = [open |-> w.mode.open, vtSema |-> w.mode.vtSema,
                            fb_id |-> w.mode.fb_id, front_bo |-> w.mode.front_bo,
                            pixmap |-> w.mode.pixmap, crtc |-> w.mode.crtc]
                BY <1>1 DEF Modes
            <4>. DEFINE y == [w.mode EXCEPT !.front_bo = b]
                        z == [y EXCEPT !.pixmap = b]
            <4>2. y = [open |-> w.mode.open, vtSema |-> w.mode.vtSema,
                       fb_id |-> w.mode.fb_id, front_bo |-> b,
                       pixmap |-> w.mode.pixmap, crtc |-> w.mode.crtc]
                BY <4>1
            <4>3. m = [z EXCEPT !.fb_id = f]
                OBVIOUS
            <4>. HIDE DEF y
            <4>4. z = [open |-> w.mode.open, vtSema |-> w.mode.vtSema,
                       fb_id |-> w.mode.fb_id, front_bo |-> b,
                       pixmap |-> b, crtc |-> w.mode.crtc]
                BY <4>2
            <4>. HIDE DEF z
            <4>. QED
                BY <4>3, <4>4
        <3>. HIDE DEF m
        <3>3. new = [drm |-> d, mode |-> m, video |-> w.video]
            OBVIOUS
        <3>. HIDE DEF new
        <3>. QED
            BY <3>1, <3>2, <3>3, NewFrontFact
    <2>3. new.mode = m /\ new.drm = d /\ new.video = w.video
        OBVIOUS
    <2>. HIDE DEF new, m, d, b, f, made
    <2>4. AllSet(new, set, FALSE, fault)
        BY <2>2, <2>3, ResizeLoopFact, Zenon
    <2>. HIDE DEF set
    <2>5. /\ set \in Worlds /\ OthersHeld(set) /\ ModeFrame(new, set)
          /\ set.mode.fb_id = f /\ set.mode.front_bo = b /\ set.mode.pixmap = b
          /\ set.mode.open = w.mode.open /\ set.mode.vtSema = w.mode.vtSema
          /\ \A g \in FrontIds : set.drm.fb[g] = IF g = f THEN b ELSE w.drm.fb[g]
        BY <2>2, <2>3, <2>4 DEF AllSet, SameScreen
    <2>6. set.drm.fb[w.mode.fb_id] = w.mode.front_bo /\ w.mode.front_bo \in FrontIds
          /\ w.mode.fb_id \in FrontIds
          /\ \A g \in FrontIds \ {w.mode.fb_id} :
                set.drm.fb[g] = IF g = set.mode.fb_id THEN set.mode.front_bo ELSE 0
        BY <1>1, <2>2, <2>5 DEF FrontHeld
    <2>7. e \in Drms
        BY <1>1, <2>5, <2>6, FreeFact, WorldParts DEF OthersHeld
    <2>8. r = [drm |-> e, mode |-> set.mode, video |-> set.video]
        <3>. HIDE DEF e
        <3>. QED
            BY <2>1, <2>5, <2>7, WithDrmFact
    <2>9. /\ r \in Worlds /\ HeldInv(r) /\ ModeFrame(set, r)
          /\ \A c \in Crtcs : r.drm.scan[c] =
                IF set.drm.scan[c] = w.mode.fb_id THEN 0 ELSE set.drm.scan[c]
        BY <2>2, <2>5, <2>6, <2>8, OldFrontFact, SMTT(20)
    <2>10. ModeFrame(w, r)
        BY <2>2, <2>5, <2>9, ModeFrameFact
    <2>. HIDE DEF e
    <2>11. r.mode = set.mode
        BY <2>8
    <2>12. TurnsRight(w) => TurnsRight(r)
        BY <2>2, <2>3, <2>4, <2>11 DEF TurnsRight, AllSet, SameCrtc
    <2>13. ASSUME NoModeFault(fault), ShownInv(w) PROVE ShownInv(r)
        <3>1. ScansOwn(new) /\ \A c \in Crtcs : ShadowWhole(new, c)
            BY <2>2, <2>3, <2>13 DEF ShownInv, ScansOwn, ShadowWhole
        <3>2. ScansOwn(set) /\ \A c \in Crtcs : Done(set, c)
            BY <2>4, <2>13, <3>1 DEF AllSet
        <3>3. ScansOwn(r)
            BY <2>9, <3>2 DEF ScansOwn
        <3>4. ASSUME NEW c \in Crtcs
              PROVE  /\ ShadowWhole(r, c) /\ ShadowThere(r, c)
                     /\ r.mode.crtc[c].enabled => Shows(r, c)
            <4>1. ShadowWhole(r, c) /\ ShadowThere(r, c)
                BY <2>11, <3>2 DEF Done, ShadowWhole, ShadowThere
            <4>2. ASSUME r.mode.crtc[c].enabled PROVE Shows(r, c)
                <5>1. Shows(set, c) /\ ShadowHeld(set, c)
                    BY <2>5, <2>11, <3>2, <4>2 DEF Done, OthersHeld
                <5>2. set.drm.scan[c] # w.mode.fb_id
                    <6>1. w.mode.fb_id \notin ShadowIds[c] \cup {0}
                        BY <1>1, <2>6, ClassFact
                    <6>. QED
                        BY <2>2, <2>5, <5>1, <6>1 DEF Shows, ShadowHeld
                <5>. QED
                    BY <2>9, <2>11, <5>1, <5>2 DEF Shows
            <4>. QED
                BY <4>1, <4>2
        <3>. QED
            BY <2>5, <2>11, <3>3, <3>4 DEF ShownInv
    <2>. QED
        BY <2>5, <2>9, <2>10, <2>11, <2>12, <2>13, Zenon DEF ModeGood
<1>. QED
    BY <1>4, <1>5, <1>6

-----------------------------------------------------------------------------
(* The screen as it starts.                                                *)

FirstBo == NewBo(NothingYet.drm, FrontIds)
FirstFb == NewFb(NothingYet.drm, FrontIds)

\* The first mode that is set adds the front.
FirstFront ==
    [drm   |-> AddFB(BoNew(NothingYet.drm, FrontIds, BlankPixels), FrontIds, FirstBo),
     mode  |-> [open |-> TRUE, vtSema |-> TRUE, fb_id |-> FirstFb, front_bo |-> FirstBo,
                pixmap |-> 0, crtc |-> [c \in Crtcs |-> NewCrtc(c)]],
     video |-> TegraXvInit]

LEMMA NothingFact ==
    /\ NothingYet.drm \in Drms /\ Refs(NothingYet.drm)
    /\ \A f \in Fbs : NothingYet.drm.fb[f] = 0
    /\ \A b \in Fbs : FreeBo(NothingYet.drm, b)
    /\ \A c \in Crtcs : NothingYet.drm.scan[c] = 0 /\ NothingYet.drm.plane[c] = 0
<1>. DEFINE d == NothingYet.drm
<1>1. d = [fb |-> [f \in Fbs |-> 0], bo |-> [b \in Bos |-> NoBo],
           scan |-> [c \in Crtcs |-> 0], plane |-> [c \in Crtcs |-> 0]]
    BY DEF NothingYet
<1>. HIDE DEF d
<1>2. NoBo \in [refs : Nat, pixels : [image : Images, rotation : Nat]] /\ NoBo.refs = 0
    BY BlankFact DEF NoBo, Pics
<1>3. d \in Drms
    BY <1>1, <1>2 DEF Drms, BoOrNone, FbOrNone
<1>4. /\ \A f \in Fbs : d.fb[f] = 0 /\ \A b \in Fbs : d.bo[b] = NoBo
      /\ \A c \in Crtcs : d.scan[c] = 0 /\ d.plane[c] = 0
    BY <1>1 DEF Bos
<1>5. \A b \in Fbs : FreeBo(d, b)
    BY <1>2, <1>4, IdsFact, Zenon DEF FreeBo
<1>6. Refs(d)
    <2>1. ASSUME NEW b \in Bos PROVE d.bo[b].refs = Cardinality({f \in Fbs : d.fb[f] = b})
        <3>1. {f \in Fbs : d.fb[f] = b} = {}
            BY <1>4, IdsFact, Zenon
        <3>2. d.bo[b].refs = 0
            BY <1>2, <1>4, IdsFact
        <3>. QED
            BY <3>1, <3>2, FS_EmptySet
    <2>. QED
        BY <2>1 DEF Refs
<1>. QED
    BY <1>3, <1>4, <1>5, <1>6 DEF d

LEMMA NewCrtcFact ==
    ASSUME NEW c \in Crtcs
    PROVE  LET k == NewCrtc(c)
           IN  /\ k \in CrtcStates /\ k.enabled /\ k.rotation = 0 /\ k.desired \in Rotations[c]
               /\ k.rotate_bo = 0 /\ k.rotate_fb = 0 /\ k.data = 0 /\ k.shadow = 0
<1>1. Min(Rotations[c]) \in Rotations[c] /\ Min(Rotations[c]) \in Nat
    BY DisplayAssumption, MinFact
<1>. QED
    BY <1>1 DEF NewCrtc, CrtcStates, BoOrNone, FbOrNone

LEMMA XvInitFact ==
    /\ TegraXvInit \in Videos
    /\ TegraXvInit.fb = 0 /\ TegraXvInit.old_fb = 0 /\ TegraXvInit.port = FALSE
    /\ \A c \in Crtcs : LET o == TegraXvInit.overlay[c]
                        IN  o.fb = 0 /\ o.fb_rotated = 0 /\ o.old_fb_rotated = 0
<1>1. NewOverlay \in OverlayStates /\ NewOverlay.fb = 0 /\ NewOverlay.fb_rotated = 0
      /\ NewOverlay.old_fb_rotated = 0
    BY DEF NewOverlay, OverlayStates, FbOrNone
<1>2. TegraXvInit \in Videos
    BY <1>1, BlankFact DEF TegraXvInit, Videos, FbOrNone
<1>. QED
    BY <1>1, <1>2 DEF TegraXvInit

LEMMA FirstFrontFact ==
    /\ FirstFront \in Worlds /\ OthersHeld(FirstFront) /\ FrontHeld(FirstFront)
    /\ ScansOwn(FirstFront) /\ PictureInv(FirstFront) /\ Rests(FirstFront)
    /\ \A c \in Crtcs : /\ ShadowWhole(FirstFront, c)
                        /\ FirstFront.mode.crtc[c] = NewCrtc(c)
<1>. DEFINE w == FirstFront
            d == w.drm
            z == NothingYet.drm
<1>1. /\ d = AddFB(BoNew(z, FrontIds, BlankPixels), FrontIds, FirstBo)
      /\ w.mode = [open |-> TRUE, vtSema |-> TRUE, fb_id |-> FirstFb, front_bo |-> FirstBo,
                   pixmap |-> 0, crtc |-> [c \in Crtcs |-> NewCrtc(c)]]
      /\ w.video = TegraXvInit /\ w = [drm |-> d, mode |-> w.mode, video |-> w.video]
    BY DEF FirstFront
<1>2. BlankPixels \in Pics /\ FrontIds \subseteq Fbs /\ 0 \notin Fbs /\ FrontIds # {} /\ Fbs = Bos
    <2>0. PICK f \in ShadowIds[0] : f \in Fbs
        BY CrtcsFact, IdsFact, FramebuffersAssumption
    <2>1. FrontIds \ {f} # {}
        BY <2>0, FramebuffersAssumption
    <2>. QED
        BY <2>1, IdsFact, BlankFact DEF BlankPixels, Picture, Pics
<1>3. /\ Created(z, d, FirstFb, FirstBo, BlankPixels) /\ d \in Drms /\ Refs(d)
      /\ FirstFb \in FrontIds /\ FirstBo \in FrontIds
    BY <1>1, <1>2, NothingFact, CreateFact DEF FirstBo, FirstFb
<1>. HIDE DEF w, d
<1>4. /\ \A f \in Fbs : d.fb[f] = IF f = FirstFb THEN FirstBo ELSE 0
      /\ \A c \in Crtcs : d.scan[c] = 0 /\ d.plane[c] = 0
    BY <1>2, <1>3, NothingFact, DrmParts DEF Created
<1>5. \A c \in Crtcs : w.mode.crtc[c] = NewCrtc(c)
    BY <1>1
<1>6. w \in Worlds
    <2>1. w.mode \in Modes
        BY <1>1, <1>2, <1>3, NewCrtcFact DEF Modes, BoOrNone, FbOrNone
    <2>. QED
        <3>1. w.video \in Videos /\ w = [drm |-> d, mode |-> w.mode, video |-> w.video]
            BY <1>1, XvInitFact
        <3>. QED
            BY <1>3, <2>1, <3>1 DEF Worlds
<1>7. FrontHeld(w)
    BY <1>1, <1>2, <1>3, <1>4 DEF FrontHeld, d
<1>8. ImagesHeld(w)
    BY <1>1, <1>3, <1>4, ClassFact, IdsFact, XvInitFact DEF ImagesHeld, d
<1>9. \A c \in Crtcs : ShadowHeld(w, c)
    <2>1. ASSUME NEW c \in Crtcs PROVE ShadowHeld(w, c)
        <3>0. \A f \in ShadowIds[c] : f \in Fbs /\ f # 0 /\ f \notin FrontIds
            BY ClassFact, IdsFact
        <3>1. \A f \in ShadowIds[c] : f # 0 /\ d.fb[f] = 0
            BY <1>3, <1>4, <3>0
        <3>. QED
            BY <1>5, <3>1, NewCrtcFact DEF ShadowHeld, d
    <2>. QED
        BY <2>1
<1>10. \A c \in Crtcs : RotatedHeld(w, c)
    BY <1>1, <1>3, <1>4, ClassFact, IdsFact, XvInitFact DEF RotatedHeld, d
<1>11. OthersHeld(w)
    BY <1>2, <1>3, <1>4, <1>8, <1>9, <1>10 DEF OthersHeld, d
<1>12. ScansOwn(w) /\ \A c \in Crtcs : ShadowWhole(w, c)
    BY <1>4, <1>5, NewCrtcFact DEF ScansOwn, ShadowWhole, d
<1>13. PictureInv(w) /\ Rests(w)
    BY <1>1, <1>4, XvInitFact DEF PictureInv, CopyInv, PlaneOwn, CopyRight, Rests, d
<1>. QED
    BY <1>5, <1>6, <1>7, <1>11, <1>12, <1>13 DEF w

StartMode(up, f, b, crtc) ==
    [open |-> up, vtSema |-> up, fb_id |-> f, front_bo |-> b, pixmap |-> 0, crtc |-> crtc]

LEMMA StartBoIs ==
    ASSUME NEW up, NEW z, NEW q, NEW v, NEW n,
           n = [drm |-> z, mode |-> StartMode(up, 0, 0, q), video |-> v],
           NEW d, d = dumb_bo_create(z, FrontIds), NEW b, b = NewBo(z, FrontIds)
    PROVE  drmmode_create_initial_bos(n) = [drm |-> d, mode |-> StartMode(up, 0, b, q), video |-> v]
<1>. DEFINE m == StartMode(up, 0, 0, q)
            x == [n EXCEPT !.drm = d]
<1>1. drmmode_create_initial_bos(n) = [x EXCEPT !.mode.front_bo = b]
    BY DEF drmmode_create_initial_bos
<1>2. [m EXCEPT !.front_bo = b] = StartMode(up, 0, b, q)
    BY DEF StartMode
<1>3. x = [drm |-> d, mode |-> m, video |-> v]
    OBVIOUS
<1>. HIDE DEF x, m
<1>4. [x EXCEPT !.mode.front_bo = b] = [drm |-> d, mode |-> [m EXCEPT !.front_bo = b], video |-> v]
    BY <1>3
<1>. QED
    BY <1>1, <1>2, <1>4

LEMMA StartFbIs ==
    ASSUME NEW up, NEW d, NEW q, NEW v, NEW b, NEW w,
           w = [drm |-> d, mode |-> StartMode(up, 0, b, q), video |-> v],
           NEW e, e = AddFB(d, FrontIds, b), NEW f, f = NewFb(d, FrontIds)
    PROVE  FrontAdded(w) = [drm |-> e, mode |-> StartMode(up, f, b, q), video |-> v]
<1>. DEFINE m == StartMode(up, 0, b, q)
            x == [w EXCEPT !.drm = e]
<1>0. w.drm = d /\ w.mode.fb_id = 0 /\ w.mode.front_bo = b
    BY DEF StartMode
<1>1. FrontAdded(w) = [x EXCEPT !.mode.fb_id = f]
    BY <1>0, Zenon DEF FrontAdded
<1>2. [m EXCEPT !.fb_id = f] = StartMode(up, f, b, q)
    BY DEF StartMode
<1>3. x = [drm |-> e, mode |-> m, video |-> v]
    OBVIOUS
<1>. HIDE DEF x, m
<1>4. [x EXCEPT !.mode.fb_id = f] = [drm |-> e, mode |-> [m EXCEPT !.fb_id = f], video |-> v]
    BY <1>3
<1>. QED
    BY <1>1, <1>2, <1>4

\* The first call of the first loop starts from there.
LEMMA FirstSetFact ==
    ASSUME NEW w, w = drmmode_create_initial_bos(NothingYet)
    PROVE  drmmode_set_desired_modes(w, "none") = drmmode_set_desired_modes(FirstFront, "none")
<1>u. PICK up : up = TRUE
    BY Zenon
<1>. DEFINE z == NothingYet.drm
            d == BoNew(z, FrontIds, BlankPixels)
            q == [c \in Crtcs |-> NewCrtc(c)]
            m == StartMode(up, 0, FirstBo, q)
            k == NewCrtc(0)
<1>0. /\ NothingYet = [drm |-> z, mode |-> StartMode(up, 0, 0, q), video |-> TegraXvInit]
      /\ FirstFront = [drm |-> AddFB(d, FrontIds, FirstBo),
                       mode |-> StartMode(up, FirstFb, FirstBo, q), video |-> TegraXvInit]
    BY <1>u DEF NothingYet, FirstFront, StartMode
<1>00. \A c \in Crtcs : q[c] = NewCrtc(c)
    OBVIOUS
<1>000. d = dumb_bo_create(NothingYet.drm, FrontIds)
    BY DEF dumb_bo_create, BlankPixels
<1>. HIDE DEF q, z, d
<1>1. w = [drm |-> d, mode |-> m, video |-> TegraXvInit]
    <2>1. d = dumb_bo_create(z, FrontIds) /\ FirstBo = NewBo(z, FrontIds)
        BY <1>000 DEF FirstBo, z
    <2>. QED
        BY <1>0, <2>1, StartBoIs
<1>2. FrontAdded(w) = FirstFront
    <2>1. NewFb(d, FrontIds) = FirstFb
        BY NothingFact DEF NewFb, BoNew, FirstFb, Drms, d, z
    <2>. QED
        BY <1>0, <1>1, <2>1, StartFbIs
<1>3. FirstFront.mode.fb_id # 0 /\ FrontAdded(FirstFront) = FirstFront
    BY FirstFrontFact, IdsFact DEF FrontHeld, FrontAdded
<1>4. \A c \in Crtcs : w.mode.crtc[c] = NewCrtc(c) /\ FirstFront.mode.crtc[c] = NewCrtc(c)
    BY <1>1, <1>00, FirstFrontFact DEF StartMode
<1>. HIDE DEF m
<1>5. drmmode_set_mode_major(w, 0, k.desired, "none")
         = drmmode_set_mode_major(FirstFront, 0, k.desired, "none")
    BY <1>2, <1>3 DEF drmmode_set_mode_major, AddRefused
<1>6. SetDesiredMode(w, 0, "none") = SetDesiredMode(FirstFront, 0, "none")
    BY <1>4, <1>5, CrtcsFact, NewCrtcFact DEF SetDesiredMode
<1>7. ASSUME NEW x
      PROVE  drmmode_set_desired_modes(x, "none") =
                IF 1 \in Crtcs THEN SetDesiredMode(SetDesiredMode(x, 0, "none"), 1, "none")
                ELSE SetDesiredMode(x, 0, "none")
    BY CrtcsFact DEF drmmode_set_desired_modes, ForEach
<1>. QED
    BY <1>6, <1>7

LEMMA InitFact ==
    ASSUME NEW r, r = TegraScreenInit(NothingYet)
    PROVE  /\ r \in Worlds /\ HeldInv(r) /\ Rests(r) /\ ShownInv(r) /\ PictureInv(r)
           /\ TurnsRight(r) /\ r.mode.open
<1>. DEFINE w == FirstFront
            x == drmmode_set_desired_modes(w, "none")
            y == drmmode_set_desired_modes(x, "none")
<1>1. r = [y EXCEPT !.mode.pixmap = y.mode.front_bo]
    BY FirstSetFact DEF TegraScreenInit, TegraCreateScreenResources, drmmode_map_front_bo
<1>2. w \in Worlds /\ OthersHeld(w) /\ FrontHeld(w)
    BY FirstFrontFact
<1>. HIDE DEF w
<1>3. AllSet(w, x, TRUE, "none")
    BY <1>2, DesiredModesFact, Zenon DEF FrontHeld
<1>. HIDE DEF x
<1>4. x \in Worlds /\ OthersHeld(x) /\ FrontHeld(x)
    BY <1>2, <1>3 DEF AllSet, FrontHeld, SameScreen
<1>5. AllSet(x, y, TRUE, "none")
    BY <1>4, DesiredModesFact, Zenon DEF FrontHeld
<1>. HIDE DEF y
<1>. DEFINE m == [y.mode EXCEPT !.pixmap = y.mode.front_bo]
<1>6. y \in Worlds /\ OthersHeld(y) /\ FrontHeld(y)
    BY <1>4, <1>5 DEF AllSet, FrontHeld, SameScreen
<1>7. y.mode \in Modes /\ y = [drm |-> y.drm, mode |-> y.mode, video |-> y.video]
    BY <1>6, WorldParts
<1>8. r = [drm |-> y.drm, mode |-> m, video |-> y.video]
    BY <1>1, <1>7
<1>9. m \in Modes /\ m.crtc = y.mode.crtc /\ m.open = y.mode.open /\ m.vtSema = y.mode.vtSema
      /\ m.fb_id = y.mode.fb_id /\ m.front_bo = y.mode.front_bo /\ m.pixmap = y.mode.front_bo
    BY <1>7, Zenon DEF Modes
<1>. HIDE DEF m
<1>10. r \in Worlds
    BY <1>6, <1>8, <1>9, WorldParts, Zenon DEF Worlds
<1>11. HeldInv(r)
    BY <1>6, <1>8, <1>9 DEF HeldInv, FrontHeld, OthersHeld, ImagesHeld, ShadowHeld, RotatedHeld
<1>12. ModeFrame(w, y)
    BY <1>3, <1>5, ModeFrameFact DEF AllSet
<1>13. ModeFrame(y, r)
    BY <1>8 DEF ModeFrame
<1>14. ModeFrame(w, r)
    BY <1>12, <1>13, ModeFrameFact
<1>15. PictureInv(w) /\ Rests(w) /\ ScansOwn(w) /\ \A c \in Crtcs : ShadowWhole(w, c)
    BY FirstFrontFact DEF w
<1>16. PictureInv(r) /\ Rests(r)
    BY <1>2, <1>14, <1>15, ModeFramePicture DEF Rests, ModeFrame
<1>17. NoModeFault("none")
    BY DEF NoModeFault, NoShadowFault
<1>18. ScansOwn(y) /\ \A c \in Crtcs : Done(y, c)
    <2>1. ScansOwn(x) /\ \A c \in Crtcs : Done(x, c)
        BY <1>3, <1>15, <1>17 DEF AllSet
    <2>2. \A c \in Crtcs : ShadowWhole(x, c)
        BY <2>1 DEF Done
    <2>. QED
        BY <1>5, <1>17, <2>1, <2>2 DEF AllSet
<1>19. ShownInv(r)
    BY <1>8, <1>9, <1>18 DEF Done, ShownInv, ScansOwn, ShadowWhole, ShadowThere, Shows
<1>20. ASSUME NEW c \in Crtcs
       PROVE  r.mode.crtc[c].rotation \in Rotations[c] /\ r.mode.crtc[c].desired \in Rotations[c]
    <2>1. w.mode.crtc[c] = NewCrtc(c)
        BY FirstFrontFact, Zenon DEF w
    <2>2. w.mode.crtc[c].enabled /\ w.mode.crtc[c].desired \in Rotations[c]
        BY <2>1, NewCrtcFact, Zenon
    <2>3. y.mode.crtc[c].enabled /\ y.mode.crtc[c].desired \in Rotations[c]
        BY <1>3, <1>5, <2>2 DEF AllSet, SameCrtc
    <2>4. y.mode.crtc[c].rotation = y.mode.crtc[c].desired
        BY <1>5, <2>3 DEF AllSet
    <2>. QED
        BY <1>8, <1>9, <2>3, <2>4
<1>21. r.mode.open
    <2>1. w.mode.open = TRUE
        BY DEF w, FirstFront
    <2>2. y.mode.open = w.mode.open
        BY <1>3, <1>5 DEF AllSet, SameScreen
    <2>. QED
        BY <1>8, <1>9, <2>1, <2>2
<1>. QED
    BY <1>10, <1>11, <1>16, <1>19, <1>20, <1>21 DEF TurnsRight


-----------------------------------------------------------------------------
(* A change of one overlay.                                                *)

LEMMA WithOverlayIs ==
    ASSUME NEW w \in Worlds, NEW d, NEW c \in Crtcs, NEW o,
           NEW r, r = [w EXCEPT !.drm = d, !.video.overlay[c] = o]
    PROVE  r = WithOverlay(w, d, c, o)
<1>1. w = [drm |-> w.drm, mode |-> w.mode, video |-> w.video]
    BY WorldParts
<1>. DEFINE x == [w EXCEPT !.drm = d]
<1>2. x = [drm |-> d, mode |-> w.mode, video |-> w.video]
    BY <1>1
<1>3. r = [x EXCEPT !.video.overlay[c] = o]
    OBVIOUS
<1>. HIDE DEF x
<1>. QED
    BY <1>2, <1>3, Zenon DEF WithOverlay

LEMMA WithOverlayOnly ==
    ASSUME NEW w \in Worlds, NEW c \in Crtcs, NEW o,
           NEW r, r = [w EXCEPT !.video.overlay[c] = o]
    PROVE  r = WithOverlay(w, w.drm, c, o)
<1>1. w = [drm |-> w.drm, mode |-> w.mode, video |-> w.video]
    BY WorldParts
<1>. QED
    BY <1>1 DEF WithOverlay

LEMMA WithOverlayTwice ==
    ASSUME NEW w \in Worlds, NEW d, NEW e, NEW c \in Crtcs, NEW o, NEW q
    PROVE  WithOverlay(WithOverlay(w, d, c, o), e, c, q) = WithOverlay(w, e, c, q)
<1>1. w.video \in Videos
    BY WorldParts
<1>. DEFINE x == [w.video EXCEPT !.overlay = [@ EXCEPT ![c] = o]]
<1>2. [x EXCEPT !.overlay = [@ EXCEPT ![c] = q]] = [w.video EXCEPT !.overlay = [@ EXCEPT ![c] = q]]
    BY <1>1, Zenon DEF Videos
<1>. HIDE DEF x
<1>3. WithOverlay(w, d, c, o).video = x /\ WithOverlay(w, d, c, o).mode = w.mode
    BY DEF WithOverlay, x
<1>. QED
    BY <1>2, <1>3, Zenon DEF WithOverlay

\* A framebuffer that goes takes nothing with it but what it is shown on.
Gone(d, r, f) ==
    /\ \A g \in Fbs : r.fb[g] = IF g = f THEN 0 ELSE d.fb[g]
    /\ \A g \in Fbs \ {f} : d.fb[g] # 0 => Pixels(r, g) = Pixels(d, g)
    /\ \A c \in Crtcs : /\ r.scan[c] = IF d.scan[c] = f THEN 0 ELSE d.scan[c]
                        /\ r.plane[c] = IF d.plane[c] = f THEN 0 ELSE d.plane[c]

LEMMA FreeOverlayFact ==
    ASSUME NEW d \in Drms, Refs(d), NEW f \in FbOrNone, f # 0 => d.fb[f] # 0,
           NEW r, r = drm_free_overlay_fb(d, f)
    PROVE  r \in Drms /\ Refs(r) /\ Gone(d, r, f)
<1>1. 0 \notin Fbs
    BY IdsFact
<1>2. CASE f = 0
    <2>1. r = d
        BY <1>2 DEF drm_free_overlay_fb
    <2>2. \A g \in Fbs : g # f
        BY <1>1, <1>2
    <2>. QED
        BY <1>2, <2>1, <2>2 DEF Gone
<1>3. CASE f # 0
    <2>1. f \in Fbs /\ r = BoUnref(RmFB(d, f), d.fb[f])
        BY <1>3 DEF drm_free_overlay_fb, FbOrNone
    <2>2. /\ Freed(d, r, f) /\ r \in Drms /\ Refs(r)
          /\ \A g \in Fbs \ {f} : d.fb[g] # 0 => r.fb[g] = d.fb[g] /\ Pixels(r, g) = Pixels(d, g)
        BY <1>3, <2>1, FreeFact
    <2>3. \A g \in Fbs : r.fb[g] = IF g = f THEN 0 ELSE d.fb[g]
        BY <2>2, DrmParts DEF Freed
    <2>. QED
        BY <2>2, <2>3 DEF Gone, Freed
<1>. QED
    BY <1>2, <1>3

LEMMA SetPlaneFact ==
    ASSUME NEW d \in Drms, NEW c \in Crtcs, NEW f \in FbOrNone, NEW r, r = SetPlane(d, c, f)
    PROVE  /\ r \in Drms /\ r.fb = d.fb /\ r.bo = d.bo /\ r.scan = d.scan
           /\ \A j \in Crtcs : r.plane[j] = IF j = c THEN f ELSE d.plane[j]
<1>1. r = [fb |-> d.fb, bo |-> d.bo, scan |-> d.scan, plane |-> [d.plane EXCEPT ![c] = f]]
    BY Zenon DEF SetPlane, Drms
<1>2. [d.plane EXCEPT ![c] = f] \in [Crtcs -> FbOrNone]
    BY DrmParts
<1>. QED
    BY <1>1, <1>2, DrmParts, DrmFact

SameVideo(w, r) ==
    /\ r.video.fb = w.video.fb /\ r.video.old_fb = w.video.old_fb
    /\ r.video.passthrough = w.video.passthrough
    /\ r.video.passthrough_data = w.video.passthrough_data
    /\ r.video.port = w.video.port /\ r.video.success = w.video.success

\* What a change of one overlay leaves alone.
OverlayFrame(w, r, c) ==
    /\ VideoFrame(w, r) /\ SameVideo(w, r)
    /\ \A f \in ImageIds : /\ r.drm.fb[f] = w.drm.fb[f]
                           /\ w.drm.fb[f] # 0 => Pixels(r.drm, f) = Pixels(w.drm, f)
    /\ \A j \in Crtcs \ {c} :
          /\ r.video.overlay[j] = w.video.overlay[j]
          /\ w.drm.plane[j] \notin RotatedIds[c] => r.drm.plane[j] = w.drm.plane[j]
          /\ \A f \in RotatedIds[j] : /\ r.drm.fb[f] = w.drm.fb[f]
                                      /\ w.drm.fb[f] # 0 => Pixels(r.drm, f) = Pixels(w.drm, f)

OverlayGood(w, r, c) == r \in Worlds /\ HeldInv(r) /\ OverlayFrame(w, r, c)

LEMMA OverlayFrameFact ==
    ASSUME NEW c \in Crtcs
    PROVE  \A w : OverlayFrame(w, w, c)
BY VideoFrameFact DEF OverlayFrame, SameVideo

LEMMA OverlayChange ==
    ASSUME NEW w \in Worlds, HeldInv(w), NEW c \in Crtcs, NEW d \in Drms, Refs(d),
           NEW o \in OverlayStates, NEW r, r = WithOverlay(w, d, c, o),
           \A f \in Fbs \ RotatedIds[c] :
              /\ d.fb[f] = w.drm.fb[f]
              /\ w.drm.fb[f] # 0 => Pixels(d, f) = Pixels(w.drm, f),
           \A j \in Crtcs : w.drm.scan[j] \notin RotatedIds[c] => d.scan[j] = w.drm.scan[j],
           \A j \in Crtcs \ {c} :
              w.drm.plane[j] \notin RotatedIds[c] => d.plane[j] = w.drm.plane[j],
           RotatedHeld(r, c)
    PROVE  OverlayGood(w, r, c)
<1>1. /\ r \in Worlds
      /\ r.drm = d /\ r.mode = w.mode /\ r.video.overlay[c] = o
      /\ \A j \in Crtcs \ {c} : r.video.overlay[j] = w.video.overlay[j]
      /\ SameVideo(w, r)
    BY WithOverlayFact DEF SameVideo
<1>2. /\ ImageIds \subseteq Fbs \ RotatedIds[c]
      /\ FrontIds \subseteq Fbs \ RotatedIds[c]
      /\ \A j \in Crtcs : ShadowIds[j] \subseteq Fbs \ RotatedIds[c]
      /\ \A j \in Crtcs \ {c} : RotatedIds[j] \subseteq Fbs \ RotatedIds[c]
      /\ 0 \notin RotatedIds[c]
    BY ClassFact, IdsFact
<1>3. VideoFrame(w, r)
    BY <1>1, <1>2 DEF VideoFrame
<1>4. OverlayFrame(w, r, c)
    BY <1>1, <1>2, <1>3 DEF OverlayFrame
<1>5. ImagesHeld(r)
    <2>1. ImagesHeld(w)
        BY DEF HeldInv, OthersHeld
    <2>. QED
        BY <1>4, <2>1 DEF OverlayFrame, SameVideo, ImagesHeld
<1>6. \A j \in Crtcs : RotatedHeld(r, j)
    <2>1. ASSUME NEW j \in Crtcs \ {c} PROVE RotatedHeld(r, j)
        <3>1. RotatedHeld(w, j)
            BY DEF HeldInv, OthersHeld
        <3>. QED
            BY <1>4, <3>1, SMTT(20) DEF OverlayFrame, RotatedHeld
    <2>. QED
        BY <2>1
<1>7. FrontHeld(r) /\ \A j \in Crtcs : ShadowHeld(r, j)
    BY <1>3, VideoFrameHeld DEF HeldInv, OthersHeld
<1>8. HeldInv(r)
    BY <1>1, <1>3, <1>5, <1>6, <1>7 DEF HeldInv, OthersHeld, VideoFrame
<1>. QED
    BY <1>1, <1>4, <1>8 DEF OverlayGood

\* The copies of one overlay, the one before left out.
CopyLeft(w, c) ==
    LET o == w.video.overlay[c]
    IN  /\ PlaneOwn(w, c)
        /\ o.fb \in {0, w.video.fb, w.video.old_fb}
        /\ o.fb_rotated # 0 => o.fb # 0
        /\ o.fb_rotated # 0 /\ o.fb = w.video.fb =>
              Pixels(w.drm, o.fb_rotated) = Picture(Image(w, w.video.fb), o.rotation)

OldRight(w, c) ==
    LET o == w.video.overlay[c]
    IN  o.old_fb_rotated # 0 /\ w.video.old_fb = 0 =>
              w.video.fb # 0 /\ Image(w, o.old_fb_rotated) = Image(w, w.video.fb)

LEMMA CopyParts ==
    ASSUME NEW w
    PROVE  CopyInv(w) <=> \A c \in Crtcs : CopyLeft(w, c) /\ OldRight(w, c)
<1>1. ASSUME NEW c \in Crtcs
      PROVE  PlaneOwn(w, c) /\ CopyRight(w, c) <=> CopyLeft(w, c) /\ OldRight(w, c)
    BY DEF CopyRight, CopyLeft, OldRight
<1>. QED
    BY <1>1 DEF CopyInv

\* What the other overlay shows stays as it is.
LEMMA OverlayFrameCopies ==
    ASSUME NEW w, HeldInv(w), NEW c \in Crtcs, NEW r, OverlayFrame(w, r, c),
           NEW j \in Crtcs \ {c}
    PROVE  /\ CopyLeft(w, j) => CopyLeft(r, j)
           /\ OldRight(w, j) => OldRight(r, j)
<1>. DEFINE o == w.video.overlay[j]
<1>1. /\ r.video.overlay[j] = o
      /\ r.video.fb = w.video.fb /\ r.video.old_fb = w.video.old_fb
    BY DEF OverlayFrame, SameVideo
<1>2. /\ w.video.fb \in ImageIds \cup {0} /\ w.video.old_fb \in ImageIds \cup {0}
      /\ w.video.fb # 0 => w.drm.fb[w.video.fb] # 0
    BY DEF HeldInv, OthersHeld, ImagesHeld
<1>3. /\ o.fb_rotated \in RotatedIds[j] \cup {0} /\ o.old_fb_rotated \in RotatedIds[j] \cup {0}
      /\ o.fb_rotated # 0 => w.drm.fb[o.fb_rotated] # 0
      /\ o.old_fb_rotated # 0 => w.drm.fb[o.old_fb_rotated] # 0
    BY DEF HeldInv, OthersHeld, RotatedHeld
<1>. HIDE DEF o
<1>4. w.video.fb # 0 => Image(r, w.video.fb) = Image(w, w.video.fb)
    BY <1>2 DEF OverlayFrame, Image
<1>5. /\ o.fb_rotated # 0 => Pixels(r.drm, o.fb_rotated) = Pixels(w.drm, o.fb_rotated)
      /\ o.old_fb_rotated # 0 => Pixels(r.drm, o.old_fb_rotated) = Pixels(w.drm, o.old_fb_rotated)
    BY <1>3 DEF OverlayFrame
<1>6. ASSUME PlaneOwn(w, j) PROVE PlaneOwn(r, j)
    <2>1. 0 \notin RotatedIds[c] /\ RotatedIds[j] \cap RotatedIds[c] = {}
          /\ ImageIds \cap RotatedIds[c] = {}
        BY ClassFact, IdsFact
    <2>2. w.drm.plane[j] \notin RotatedIds[c]
        BY <1>2, <1>3, <1>6, <2>1 DEF PlaneOwn, o
    <2>3. r.drm.plane[j] = w.drm.plane[j]
        BY <2>2 DEF OverlayFrame
    <2>. QED
        BY <1>1, <1>6, <2>3 DEF PlaneOwn, o
<1>7. CopyLeft(w, j) => CopyLeft(r, j)
    BY <1>1, <1>4, <1>5, <1>6 DEF CopyLeft, o
<1>8. OldRight(w, j) => OldRight(r, j)
    BY <1>1, <1>4, <1>5 DEF OldRight, Image, o
<1>. QED
    BY <1>7, <1>8


-----------------------------------------------------------------------------
(* An overlay is closed.                                                   *)

LEMMA TwoGone ==
    ASSUME NEW d \in Drms, Refs(d), NEW f \in FbOrNone, NEW g \in FbOrNone,
           f = g => f = 0, f # 0 => d.fb[f] # 0, g # 0 => d.fb[g] # 0,
           NEW r, r = drm_free_overlay_fb(drm_free_overlay_fb(d, f), g)
    PROVE  /\ r \in Drms /\ Refs(r)
           /\ \A h \in Fbs : r.fb[h] = IF h \in {f, g} THEN 0 ELSE d.fb[h]
           /\ \A h \in Fbs \ {f, g} : d.fb[h] # 0 => Pixels(r, h) = Pixels(d, h)
           /\ \A c \in Crtcs : /\ r.scan[c] = IF d.scan[c] \in {f, g} THEN 0 ELSE d.scan[c]
                               /\ r.plane[c] = IF d.plane[c] \in {f, g} THEN 0 ELSE d.plane[c]
<1>1. PICK x : x = drm_free_overlay_fb(d, f)
    OBVIOUS
<1>2. x \in Drms /\ Refs(x) /\ Gone(d, x, f)
    BY <1>1, FreeOverlayFact
<1>3. g # 0 => x.fb[g] # 0
    BY <1>2, IdsFact DEF Gone, FbOrNone
<1>4. r \in Drms /\ Refs(r) /\ Gone(x, r, g)
    BY <1>1, <1>2, <1>3, FreeOverlayFact
<1>. QED
    BY <1>2, <1>4 DEF Gone

LEMMA CloseIs ==
    ASSUME NEW w \in Worlds, NEW c \in Crtcs, NEW fault, NEW o, o = w.video.overlay[c],
           NEW e, e = IF fault = "close" THEN w.drm ELSE SetPlane(w.drm, c, 0),
           NEW r, r = TegraVideoOverlayClose(w, c, fault)
    PROVE  r = WithOverlay(w, drm_free_overlay_fb(
                                 drm_free_overlay_fb(e, o.fb_rotated), o.old_fb_rotated),
                           c, NewOverlay)
<1>0. o \in OverlayStates
    BY WorldParts
<1>. DEFINE off == IF fault = "close" THEN w ELSE [w EXCEPT !.drm = SetPlane(@, c, 0)]
            q == [o EXCEPT !.visible = FALSE, !.fb = 0, !.rotation = 0, !.place = {}]
            x == [off EXCEPT !.video.overlay[c] = q]
            g == drm_free_overlay_fb(drm_free_overlay_fb(e, o.fb_rotated), o.old_fb_rotated)
<1>1. off = [drm |-> e, mode |-> w.mode, video |-> w.video]
    <2>1. CASE fault = "close"
        BY <2>1, WorldParts
    <2>2. CASE fault # "close"
        BY <2>2, WithDrmFact
    <2>. QED
        BY <2>1, <2>2
<1>2. r = DestroyRotated(x, c)
    <2>1. off.video.overlay[c] = o
        BY <1>1
    <2>. HIDE DEF off
    <2>2. x = [off EXCEPT !.video.overlay[c] = [@ EXCEPT !.visible = FALSE, !.fb = 0,
                                                        !.rotation = 0, !.place = {}]]
        BY <2>1
    <2>3. r = DestroyRotated([off EXCEPT !.video.overlay[c] =
                                [@ EXCEPT !.visible = FALSE, !.fb = 0,
                                          !.rotation = 0, !.place = {}]], c)
        BY DEF TegraVideoOverlayClose, off
    <2>. HIDE DEF x
    <2>. QED
        BY <2>2, <2>3
<1>3. x = WithOverlay(w, e, c, q)
    <2>. HIDE DEF off, q
    <2>1. x = [off EXCEPT !.video.overlay[c] = q]
        OBVIOUS
    <2>. HIDE DEF x
    <2>. QED
        BY <1>1, <2>1 DEF WithOverlay
<1>4. x.video.overlay[c] = q /\ x.drm = e /\ x.mode = w.mode
    <2>1. w.video \in Videos
        BY WorldParts
    <2>. HIDE DEF x, q
    <2>. QED
        BY <1>3, <2>1 DEF WithOverlay, Videos
<1>5. q.fb_rotated = o.fb_rotated /\ q.old_fb_rotated = o.old_fb_rotated
      /\ [q EXCEPT !.fb_rotated = 0, !.old_fb_rotated = 0] = NewOverlay
    <2>. DEFINE n == [q EXCEPT !.fb_rotated = 0, !.old_fb_rotated = 0]
    <2>1. /\ q \in OverlayStates /\ q.fb_rotated = o.fb_rotated
          /\ q.old_fb_rotated = o.old_fb_rotated
          /\ q.fb = 0 /\ q.rotation = 0 /\ q.place = {} /\ q.visible = FALSE
        BY <1>0, Zenon DEF OverlayStates, FbOrNone
    <2>. HIDE DEF q
    <2>2. /\ n \in OverlayStates /\ n.fb_rotated = 0 /\ n.old_fb_rotated = 0
          /\ n.fb = 0 /\ n.rotation = 0 /\ n.place = {} /\ n.visible = FALSE
        BY <2>1, Zenon DEF OverlayStates, FbOrNone
    <2>. HIDE DEF n
    <2>3. n = NewOverlay
        BY <2>2 DEF OverlayStates, NewOverlay
    <2>. QED
        BY <2>1, <2>3 DEF n
<1>. HIDE DEF q, x, g
<1>6. r = [x EXCEPT !.drm = g, !.video.overlay[c] = NewOverlay]
    BY <1>2, <1>4, <1>5, Zenon DEF DestroyRotated, g
<1>7. r = WithOverlay(w, g, c, NewOverlay)
    <2>. DEFINE y == [x EXCEPT !.drm = g]
    <2>1. y = WithOverlay(w, g, c, q)
        BY <1>3 DEF WithOverlay
    <2>2. r = [y EXCEPT !.video.overlay[c] = NewOverlay]
        BY <1>6
    <2>. HIDE DEF y
    <2>3. r = WithOverlay(y, g, c, NewOverlay)
        BY <2>1, <2>2 DEF WithOverlay
    <2>. QED
        BY <2>1, <2>3, WithOverlayTwice
<1>. QED
    BY <1>7 DEF g

\* Its plane shows nothing, or what it showed before.
Closes(w, r, c, fault) ==
    /\ OverlayGood(w, r, c)
    /\ r.video.overlay[c] = NewOverlay
    /\ r.drm.plane[c] \in {w.drm.plane[c], 0}
    /\ w.drm.plane[c] \in RotatedIds[c] => (PlaneOwn(w, c) => r.drm.plane[c] = 0)

LEMMA CloseFact ==
    ASSUME NEW w \in Worlds, HeldInv(w), NEW c \in Crtcs, NEW fault,
           NEW r, r = TegraVideoOverlayClose(w, c, fault)
    PROVE  Closes(w, r, c, fault)
<1>. DEFINE o == w.video.overlay[c]
            e == IF fault = "close" THEN w.drm ELSE SetPlane(w.drm, c, 0)
            g == drm_free_overlay_fb(drm_free_overlay_fb(e, o.fb_rotated), o.old_fb_rotated)
<1>1. w.drm \in Drms /\ Refs(w.drm) /\ RotatedHeld(w, c)
    BY WorldParts DEF HeldInv, OthersHeld
<1>2. RotatedIds[c] \subseteq Fbs /\ 0 \notin Fbs
    BY IdsFact
<1>3. r = WithOverlay(w, g, c, NewOverlay)
    BY CloseIs
<1>4. /\ e \in Drms /\ Refs(e) /\ e.fb = w.drm.fb /\ e.bo = w.drm.bo /\ e.scan = w.drm.scan
      /\ \A j \in Crtcs \ {c} : e.plane[j] = w.drm.plane[j]
      /\ e.plane[c] \in {w.drm.plane[c], 0}
    <2>1. CASE fault = "close"
        BY <1>1, <2>1
    <2>2. CASE fault # "close"
        <3>1. /\ e \in Drms /\ e.fb = w.drm.fb /\ e.bo = w.drm.bo /\ e.scan = w.drm.scan
              /\ \A j \in Crtcs : e.plane[j] = IF j = c THEN 0 ELSE w.drm.plane[j]
            BY <1>1, <2>2, SetPlaneFact DEF FbOrNone
        <3>. HIDE DEF e
        <3>. QED
            BY <1>1, <3>1 DEF Refs
    <2>. QED
        BY <2>1, <2>2
<1>5. /\ o.fb_rotated \in RotatedIds[c] \cup {0} /\ o.old_fb_rotated \in RotatedIds[c] \cup {0}
      /\ o.fb_rotated = o.old_fb_rotated => o.fb_rotated = 0
      /\ o.fb_rotated # 0 => w.drm.fb[o.fb_rotated] # 0
      /\ o.old_fb_rotated # 0 => w.drm.fb[o.old_fb_rotated] # 0
      /\ \A f \in RotatedIds[c] : f \notin {o.fb_rotated, o.old_fb_rotated} => w.drm.fb[f] = 0
    BY <1>1 DEF RotatedHeld
<1>6. PlaneOwn(w, c) /\ w.drm.plane[c] \in RotatedIds[c] =>
          w.drm.plane[c] \in {o.fb_rotated, o.old_fb_rotated}
    BY <1>2, ClassFact DEF PlaneOwn, HeldInv, OthersHeld, ImagesHeld
<1>. HIDE DEF e, o
<1>7. /\ g \in Drms /\ Refs(g)
      /\ \A h \in Fbs : g.fb[h] = IF h \in {o.fb_rotated, o.old_fb_rotated} THEN 0 ELSE e.fb[h]
      /\ \A h \in Fbs \ {o.fb_rotated, o.old_fb_rotated} :
            e.fb[h] # 0 => Pixels(g, h) = Pixels(e, h)
      /\ \A j \in Crtcs :
            /\ g.scan[j] = IF e.scan[j] \in {o.fb_rotated, o.old_fb_rotated} THEN 0 ELSE e.scan[j]
            /\ g.plane[j] = IF e.plane[j] \in {o.fb_rotated, o.old_fb_rotated} THEN 0 ELSE e.plane[j]
    <2>. DEFINE x == o.fb_rotated
                y == o.old_fb_rotated
    <2>1. /\ x \in FbOrNone /\ y \in FbOrNone /\ (x = y => x = 0)
          /\ x # 0 => e.fb[x] # 0
          /\ y # 0 => e.fb[y] # 0
        BY <1>2, <1>4, <1>5 DEF FbOrNone
    <2>2. g = drm_free_overlay_fb(drm_free_overlay_fb(e, x), y)
        OBVIOUS
    <2>. HIDE DEF x, y, g
    <2>3. /\ g \in Drms /\ Refs(g)
          /\ \A h \in Fbs : g.fb[h] = IF h \in {x, y} THEN 0 ELSE e.fb[h]
          /\ \A h \in Fbs \ {x, y} : e.fb[h] # 0 => Pixels(g, h) = Pixels(e, h)
          /\ \A j \in Crtcs :
                /\ g.scan[j] = IF e.scan[j] \in {x, y} THEN 0 ELSE e.scan[j]
                /\ g.plane[j] = IF e.plane[j] \in {x, y} THEN 0 ELSE e.plane[j]
        BY <1>4, <2>1, <2>2, TwoGone
    <2>. QED
        BY <2>3 DEF x, y
<1>. HIDE DEF g
<1>8. \A h \in Fbs : Pixels(e, h) = Pixels(w.drm, h)
    BY <1>4 DEF Pixels
<1>9. NewOverlay \in OverlayStates /\ NewOverlay.fb_rotated = 0 /\ NewOverlay.old_fb_rotated = 0
    BY DEF NewOverlay, OverlayStates, FbOrNone
<1>10. r.drm = g /\ r.video.overlay[c] = NewOverlay
    BY <1>3, <1>7, <1>9, WithOverlayFact
<1>11. RotatedHeld(r, c)
    <2>1. \A f \in RotatedIds[c] : g.fb[f] = 0 /\ f # 0
        BY <1>2, <1>4, <1>5, <1>7
    <2>. QED
        BY <1>9, <1>10, <2>1 DEF RotatedHeld
<1>12. OverlayGood(w, r, c)
    <2>1. \A f \in Fbs \ RotatedIds[c] :
             /\ g.fb[f] = w.drm.fb[f]
             /\ w.drm.fb[f] # 0 => Pixels(g, f) = Pixels(w.drm, f)
        BY <1>2, <1>4, <1>5, <1>7, <1>8
    <2>2. \A j \in Crtcs : w.drm.scan[j] \notin RotatedIds[c] => g.scan[j] = w.drm.scan[j]
        BY <1>4, <1>5, <1>7
    <2>3. \A j \in Crtcs \ {c} :
             w.drm.plane[j] \notin RotatedIds[c] => g.plane[j] = w.drm.plane[j]
        BY <1>4, <1>5, <1>7
    <2>. QED
        BY <1>3, <1>7, <1>9, <1>11, <2>1, <2>2, <2>3, OverlayChange
<1>13. r.drm.plane[c] \in {w.drm.plane[c], 0}
    BY <1>4, <1>7, <1>10
<1>14. w.drm.plane[c] \in RotatedIds[c] => (PlaneOwn(w, c) => r.drm.plane[c] = 0)
    BY <1>4, <1>6, <1>7, <1>10
<1>. QED
    BY <1>10, <1>12, <1>13, <1>14 DEF Closes

LEMMA ClosesCopies ==
    ASSUME NEW w, HeldInv(w), NEW c \in Crtcs, NEW fault, NEW r, Closes(w, r, c, fault)
    PROVE  PlaneOwn(w, c) => CopyLeft(r, c) /\ OldRight(r, c)
<1>1. /\ NewOverlay.fb = 0 /\ NewOverlay.fb_rotated = 0 /\ NewOverlay.old_fb_rotated = 0
    BY DEF NewOverlay
<1>2. /\ r.video.overlay[c] = NewOverlay
      /\ r.video.fb = w.video.fb /\ r.video.old_fb = w.video.old_fb
    BY DEF Closes, OverlayGood, OverlayFrame, SameVideo
<1>3. /\ w.video.overlay[c].fb_rotated \in RotatedIds[c] \cup {0}
      /\ w.video.overlay[c].old_fb_rotated \in RotatedIds[c] \cup {0}
    BY DEF HeldInv, OthersHeld, RotatedHeld
<1>4. PlaneOwn(w, c) => PlaneOwn(r, c)
    BY <1>1, <1>2, <1>3 DEF PlaneOwn, Closes
<1>. QED
    BY <1>1, <1>2, <1>4 DEF CopyLeft, OldRight


\* A step of a loop over the overlays that shows nothing new.
Covers(w, r, c) ==
    LET o == w.video.overlay[c]
        p == r.video.overlay[c]
    IN  /\ OverlayGood(w, r, c)
        /\ r.drm.plane[c] \in {w.drm.plane[c], 0}
        /\ CopyLeft(w, c) => CopyLeft(r, c)
        /\ CopyLeft(w, c) /\ OldRight(w, c) => OldRight(r, c)
        /\ p.fb \in {o.fb, 0} /\ p.old_fb_rotated \in {o.old_fb_rotated, 0}
        /\ p.visible \/ p.fb = 0

\* And what the loop comes to.
AllCovered(w, r) ==
    /\ r \in Worlds /\ HeldInv(r) /\ VideoFrame(w, r) /\ SameVideo(w, r)
    /\ \A f \in ImageIds : /\ r.drm.fb[f] = w.drm.fb[f]
                           /\ w.drm.fb[f] # 0 => Pixels(r.drm, f) = Pixels(w.drm, f)
    /\ CopyInv(w) => CopyInv(r) /\ \A c \in Crtcs : r.drm.plane[c] \in {w.drm.plane[c], 0}
    /\ \A c \in Crtcs :
          LET o == w.video.overlay[c]
              p == r.video.overlay[c]
          IN  /\ p.fb \in {o.fb, 0} /\ p.old_fb_rotated \in {o.old_fb_rotated, 0}
              /\ p.visible \/ p.fb = 0

LEMMA PlaneElsewhere ==
    ASSUME NEW w, HeldInv(w), NEW c \in Crtcs, NEW j \in Crtcs \ {c}, PlaneOwn(w, j)
    PROVE  w.drm.plane[j] \notin RotatedIds[c]
<1>1. 0 \notin RotatedIds[c] /\ RotatedIds[j] \cap RotatedIds[c] = {}
      /\ ImageIds \cap RotatedIds[c] = {}
    BY ClassFact, IdsFact, Zenon
<1>2. /\ w.video.fb \in ImageIds \cup {0} /\ w.video.old_fb \in ImageIds \cup {0}
      /\ w.video.overlay[j].fb_rotated \in RotatedIds[j] \cup {0}
      /\ w.video.overlay[j].old_fb_rotated \in RotatedIds[j] \cup {0}
    BY Zenon DEF HeldInv, OthersHeld, ImagesHeld, RotatedHeld
<1>. QED
    BY <1>1, <1>2 DEF PlaneOwn

LEMMA CoversOne ==
    ASSUME NEW w, HeldInv(w), NEW c \in Crtcs, Crtcs = {c}, NEW r, Covers(w, r, c)
    PROVE  AllCovered(w, r)
<1>1. CopyInv(w) => CopyLeft(w, c) /\ OldRight(w, c)
    BY CopyParts, Zenon
<1>2. CopyLeft(r, c) /\ OldRight(r, c) => CopyInv(r)
    BY CopyParts, Zenon
<1>. QED
    BY <1>1, <1>2, Zenon DEF AllCovered, Covers, OverlayGood, OverlayFrame

LEMMA CoversTwo ==
    ASSUME NEW w, HeldInv(w), NEW c \in Crtcs, NEW j \in Crtcs, j # c, Crtcs = {c, j},
           NEW x, Covers(w, x, c), NEW r, Covers(x, r, j)
    PROVE  /\ AllCovered(w, r)
           /\ r.video.overlay[c] = x.video.overlay[c]
<1>1. OverlayGood(w, x, c) /\ OverlayGood(x, r, j)
    BY DEF Covers
<1>2. HeldInv(x) /\ HeldInv(r) /\ OverlayFrame(w, x, c) /\ OverlayFrame(x, r, j)
    BY <1>1 DEF OverlayGood
<1>3. VideoFrame(w, r)
    BY <1>2, VideoFrameFact DEF OverlayFrame
<1>4. SameVideo(w, r)
    BY <1>2 DEF OverlayFrame, SameVideo
<1>5. \A f \in ImageIds : /\ r.drm.fb[f] = w.drm.fb[f]
                          /\ w.drm.fb[f] # 0 => Pixels(r.drm, f) = Pixels(w.drm, f)
    BY <1>2, ZenonT(40) DEF OverlayFrame
<1>6. x.video.overlay[j] = w.video.overlay[j] /\ r.video.overlay[c] = x.video.overlay[c]
    BY <1>2, Zenon DEF OverlayFrame
<1>7. ASSUME CopyInv(w)
      PROVE  CopyInv(r) /\ \A k \in Crtcs : r.drm.plane[k] \in {w.drm.plane[k], 0}
    <2>1. CopyLeft(w, c) /\ OldRight(w, c) /\ CopyLeft(w, j) /\ OldRight(w, j)
        BY <1>7, CopyParts, Zenon
    <2>2. CopyLeft(x, c) /\ OldRight(x, c)
        BY <2>1, Zenon DEF Covers
    <2>3. CopyLeft(x, j) /\ OldRight(x, j)
        BY <1>2, <2>1, OverlayFrameCopies, Zenon
    <2>4. CopyLeft(r, c) /\ OldRight(r, c)
        BY <1>2, <2>2, OverlayFrameCopies, Zenon
    <2>5. CopyLeft(r, j) /\ OldRight(r, j)
        BY <2>3 DEF Covers
    <2>6. CopyInv(r)
        <3>1. \A k \in Crtcs : CopyLeft(r, k) /\ OldRight(r, k)
            BY <2>4, <2>5
        <3>. QED
            BY <3>1, CopyParts
    <2>7. x.drm.plane[j] = w.drm.plane[j] /\ r.drm.plane[c] = x.drm.plane[c]
        <3>1. w.drm.plane[j] \notin RotatedIds[c] /\ x.drm.plane[c] \notin RotatedIds[j]
            BY <1>2, <2>1, <2>2, PlaneElsewhere, Zenon DEF CopyLeft
        <3>. QED
            BY <1>2, <3>1 DEF OverlayFrame
    <2>. QED
        BY <2>6, <2>7, Zenon DEF Covers
<1>8. \A k \in Crtcs :
         LET o == w.video.overlay[k]
             p == r.video.overlay[k]
         IN  /\ p.fb \in {o.fb, 0} /\ p.old_fb_rotated \in {o.old_fb_rotated, 0}
             /\ p.visible \/ p.fb = 0
    BY <1>6, Zenon DEF Covers
<1>. QED
    BY <1>1, <1>2, <1>3, <1>4, <1>5, <1>6, <1>7, <1>8, Zenon DEF AllCovered, OverlayGood

LEMMA CloseCovers ==
    ASSUME NEW w, HeldInv(w), NEW c \in Crtcs, NEW fault, NEW r, Closes(w, r, c, fault)
    PROVE  Covers(w, r, c)
<1>1. r.video.overlay[c] = NewOverlay /\ NewOverlay.fb = 0 /\ NewOverlay.old_fb_rotated = 0
    BY DEF Closes, NewOverlay
<1>2. CopyLeft(w, c) => PlaneOwn(w, c)
    BY DEF CopyLeft
<1>. QED
    BY <1>1, <1>2, ClosesCopies DEF Covers, Closes

LEMMA CoveredFact ==
    ASSUME NEW w \in Worlds, HeldInv(w), NEW c \in Crtcs, NEW place, NEW fault,
           NEW r, r = Covered(w, c, place, fault)
    PROVE  Covers(w, r, c)
<1>1. CASE c \in place /\ tegra_crtc_on(w, c)
    <2>. DEFINE o == w.video.overlay[c]
                p == [o EXCEPT !.visible = TRUE]
    <2>1. r = [w EXCEPT !.video.overlay[c] = p]
        BY <1>1 DEF Covered
    <2>2. o \in OverlayStates /\ w.drm \in Drms /\ Refs(w.drm)
        BY WorldParts DEF HeldInv, OthersHeld
    <2>3. /\ p \in OverlayStates /\ p.visible /\ p.fb = o.fb /\ p.rotation = o.rotation
          /\ p.fb_rotated = o.fb_rotated /\ p.old_fb_rotated = o.old_fb_rotated
        BY <2>2, Zenon DEF OverlayStates
    <2>. HIDE DEF p
    <2>4. r = WithOverlay(w, w.drm, c, p)
        BY <2>1, WithOverlayOnly
    <2>5. /\ r.drm = w.drm /\ r.video.overlay[c] = p
          /\ r.video.fb = w.video.fb /\ r.video.old_fb = w.video.old_fb
        BY <2>2, <2>3, <2>4, WithOverlayFact
    <2>6. RotatedHeld(r, c)
        BY <2>3, <2>5 DEF HeldInv, OthersHeld, RotatedHeld
    <2>7. OverlayGood(w, r, c)
        BY <2>2, <2>3, <2>4, <2>6, OverlayChange
    <2>8. PlaneOwn(w, c) => PlaneOwn(r, c)
        BY <2>3, <2>5 DEF PlaneOwn
    <2>9. CopyLeft(w, c) => CopyLeft(r, c)
        BY <2>3, <2>5, <2>8 DEF CopyLeft, Image
    <2>10. OldRight(w, c) => OldRight(r, c)
        BY <2>3, <2>5 DEF OldRight, Image
    <2>. QED
        BY <2>3, <2>5, <2>7, <2>9, <2>10 DEF Covers
<1>2. CASE ~ (c \in place /\ tegra_crtc_on(w, c))
    <2>1. r = TegraVideoOverlayClose(w, c, fault)
        BY <1>2 DEF Covered
    <2>. QED
        BY <2>1, CloseFact, CloseCovers
<1>. QED
    BY <1>1, <1>2

LEMMA CoverageFact ==
    ASSUME NEW w \in Worlds, HeldInv(w), NEW place, NEW fault,
           NEW r, r = TegraVideoUpdateOverlayCoverage(w, place, fault)
    PROVE  AllCovered(w, r)
<1>1. CASE Crtcs = {0}
    <2>1. r = Covered(w, 0, place, fault)
        BY <1>1 DEF TegraVideoUpdateOverlayCoverage, ForEach
    <2>. QED
        BY <1>1, <2>1, CoveredFact, CoversOne
<1>2. CASE Crtcs = {0, 1}
    <2>1. PICK x : x = Covered(w, 0, place, fault)
        OBVIOUS
    <2>2. r = Covered(x, 1, place, fault)
        BY <1>2, <2>1, Zenon DEF TegraVideoUpdateOverlayCoverage, ForEach
    <2>3. Covers(w, x, 0)
        BY <1>2, <2>1, CoveredFact, SMTT(20)
    <2>4. Covers(x, r, 1)
        BY <1>2, <2>2, <2>3, CoveredFact, SMTT(20) DEF Covers, OverlayGood
    <2>. QED
        BY <1>2, <2>3, <2>4, CoversTwo
<1>. QED
    BY <1>1, <1>2, CrtcsFact

CloseAll(w, fault) ==
    ForEach(Crtcs, LAMBDA acc, c : TegraVideoOverlayClose(acc, c, fault), w)

LEMMA CloseAllFact ==
    ASSUME NEW w \in Worlds, HeldInv(w), NEW fault,
           NEW r, r = CloseAll(w, fault)
    PROVE  AllCovered(w, r) /\ \A c \in Crtcs : r.video.overlay[c] = NewOverlay
<1>1. CASE Crtcs = {0}
    <2>1. r = TegraVideoOverlayClose(w, 0, fault)
        BY <1>1 DEF CloseAll, ForEach
    <2>2. Closes(w, r, 0, fault)
        BY <1>1, <2>1, CloseFact
    <2>3. Covers(w, r, 0)
        BY <1>1, <2>2, CloseCovers
    <2>. QED
        BY <1>1, <2>2, <2>3, CoversOne DEF Closes
<1>2. CASE Crtcs = {0, 1}
    <2>1. PICK x : x = TegraVideoOverlayClose(w, 0, fault)
        OBVIOUS
    <2>2. r = TegraVideoOverlayClose(x, 1, fault)
        BY <1>2, <2>1 DEF CloseAll, ForEach
    <2>3. Closes(w, x, 0, fault)
        BY <1>2, <2>1, CloseFact, Zenon
    <2>4. Covers(w, x, 0)
        BY <1>2, <2>3, CloseCovers
    <2>5. Closes(x, r, 1, fault)
        BY <1>2, <2>2, <2>4, CloseFact, Zenon DEF Covers, OverlayGood
    <2>6. Covers(x, r, 1)
        BY <1>2, <2>4, <2>5, CloseCovers, SMTT(20) DEF Covers, OverlayGood
    <2>7. AllCovered(w, r) /\ r.video.overlay[0] = x.video.overlay[0]
        BY <1>2, <2>4, <2>6, CoversTwo
    <2>. QED
        BY <1>2, <2>3, <2>5, <2>7 DEF Closes
<1>. QED
    BY <1>1, <1>2, CrtcsFact


-----------------------------------------------------------------------------
(* The pictures.                                                           *)

VideoGood(w, r) == r \in Worlds /\ HeldInv(r) /\ VideoFrame(w, r)

LEMMA CoveredGood ==
    ASSUME NEW w, NEW r, AllCovered(w, r)
    PROVE  VideoGood(w, r)
BY DEF AllCovered, VideoGood

\* A change of the pictures leaves the overlays alone.
LEMMA ImageChange ==
    ASSUME NEW w \in Worlds, HeldInv(w), NEW d \in Drms, Refs(d),
           NEW v \in Videos, v.overlay = w.video.overlay,
           NEW r, r = [drm |-> d, mode |-> w.mode, video |-> v],
           \A f \in Fbs \ ImageIds : d.fb[f] = w.drm.fb[f],
           \A j \in Crtcs : w.drm.scan[j] \notin ImageIds => d.scan[j] = w.drm.scan[j],
           ImagesHeld(r)
    PROVE  VideoGood(w, r)
<1>1. r \in Worlds
    BY WorldParts DEF Worlds
<1>2. /\ FrontIds \subseteq Fbs \ ImageIds
      /\ \A j \in Crtcs : ShadowIds[j] \subseteq Fbs \ ImageIds
      /\ \A j \in Crtcs : RotatedIds[j] \subseteq Fbs \ ImageIds
      /\ 0 \notin ImageIds
    BY ClassFact, IdsFact, Zenon
<1>3. VideoFrame(w, r)
    BY <1>2 DEF VideoFrame
<1>4. \A j \in Crtcs : RotatedHeld(r, j)
    <2>1. ASSUME NEW j \in Crtcs PROVE RotatedHeld(r, j)
        <3>1. RotatedHeld(w, j)
            BY DEF HeldInv, OthersHeld
        <3>2. r.video.overlay[j] = w.video.overlay[j]
            OBVIOUS
        <3>3. \A f \in RotatedIds[j] : r.drm.fb[f] = w.drm.fb[f]
            BY <1>2
        <3>. QED
            BY <3>1, <3>2, <3>3 DEF RotatedHeld
    <2>. QED
        BY <2>1
<1>5. FrontHeld(r) /\ \A j \in Crtcs : ShadowHeld(r, j)
    BY <1>3, VideoFrameHeld DEF HeldInv, OthersHeld
<1>6. \A f \in FrontIds : r.drm.fb[f] \in FrontIds \cup {0}
    BY <1>3 DEF HeldInv, OthersHeld, VideoFrame
<1>7. HeldInv(r)
    BY <1>4, <1>5, <1>6 DEF HeldInv, OthersHeld
<1>. QED
    BY <1>1, <1>3, <1>7 DEF VideoGood

LEMMA WithVideoIs ==
    ASSUME NEW w \in Worlds, NEW d, NEW f, NEW r, r = [w EXCEPT !.drm = d, !.video.fb = f]
    PROVE  r = [drm |-> d, mode |-> w.mode, video |-> [w.video EXCEPT !.fb = f]]
<1>. DEFINE x == [w EXCEPT !.drm = d]
<1>1. x = [drm |-> d, mode |-> w.mode, video |-> w.video]
    BY WithDrmFact
<1>2. r = [x EXCEPT !.video.fb = f]
    OBVIOUS
<1>. HIDE DEF x
<1>. QED
    BY <1>1, <1>2, Zenon

\* The video ends.
LEMMA StopFact ==
    ASSUME NEW w \in Worlds, HeldInv(w), NEW cleanup \in BOOLEAN, NEW fault,
           NEW r, r = TegraVideoOverlayStop(w, cleanup, fault)
    PROVE  /\ VideoGood(w, r)
           /\ r.video.old_fb = w.video.old_fb /\ r.video.port = w.video.port
           /\ ~cleanup => r.video.fb = w.video.fb
           /\ CopyInv(w) /\ w.video.old_fb = 0 =>
                 /\ CopyInv(r)
                 /\ cleanup => \A c \in Crtcs : r.drm.plane[c] = 0
<1>1. PICK x : x = CloseAll(w, fault)
    OBVIOUS
<1>2. AllCovered(w, x) /\ \A c \in Crtcs : x.video.overlay[c] = NewOverlay
    BY <1>1, CloseAllFact, ZenonT(40)
<1>3. CASE ~cleanup
    <2>1. r = x
        BY <1>1, <1>3, Zenon DEF TegraVideoOverlayStop, CloseAll
    <2>. QED
        BY <1>2, <1>3, <2>1, CoveredGood DEF AllCovered, SameVideo
<1>4. CASE cleanup
    <2>. DEFINE f == x.video.fb
                d == drm_free_overlay_fb(x.drm, f)
                v == [x.video EXCEPT !.fb = 0]
    <2>1. r = [x EXCEPT !.drm = d, !.video.fb = 0]
        BY <1>1, <1>4, Zenon DEF TegraVideoOverlayStop, CloseAll
    <2>2. /\ x \in Worlds /\ HeldInv(x) /\ x.drm \in Drms /\ Refs(x.drm) /\ x.video \in Videos
          /\ ImagesHeld(x)
        BY <1>2, WorldParts DEF AllCovered, HeldInv, OthersHeld
    <2>. HIDE DEF d
    <2>3. r = [drm |-> d, mode |-> x.mode, video |-> v]
        BY <2>1, <2>2, WithVideoIs, Zenon
    <2>4. /\ v \in Videos /\ v.fb = 0 /\ v.overlay = x.video.overlay
          /\ v.old_fb = x.video.old_fb /\ v.port = x.video.port
        BY <2>2 DEF Videos, FbOrNone
    <2>5. f \in ImageIds \cup {0} /\ (f # 0 => x.drm.fb[f] # 0)
        BY <2>2 DEF ImagesHeld
    <2>. HIDE DEF v, f
    <2>6. d \in Drms /\ Refs(d) /\ Gone(x.drm, d, f)
        <3>1. f \in FbOrNone
            BY <2>5, IdsFact DEF FbOrNone
        <3>. QED
            BY <2>2, <2>5, <3>1, FreeOverlayFact DEF d
    <2>7. ImagesHeld(r)
        <3>1. \A g \in ImageIds : d.fb[g] = IF g = f THEN 0 ELSE x.drm.fb[g]
            BY <2>6, IdsFact, Zenon DEF Gone
        <3>2. 0 \notin ImageIds
            BY IdsFact
        <3>3. \A g \in ImageIds : d.fb[g] \in ImageIds \cup {0} /\ (d.fb[g] # 0 <=> g = x.video.old_fb)
            BY <2>2, <3>1, <3>2 DEF ImagesHeld, f
        <3>. QED
            BY <2>2, <2>3, <2>4, <3>2, <3>3 DEF ImagesHeld
    <2>8. VideoGood(x, r)
        <3>1. \A g \in Fbs \ ImageIds : d.fb[g] = x.drm.fb[g]
            BY <2>5, <2>6, IdsFact DEF Gone
        <3>2. \A j \in Crtcs : x.drm.scan[j] \notin ImageIds => d.scan[j] = x.drm.scan[j]
            BY <2>5, <2>6, Zenon DEF Gone
        <3>. QED
            BY <2>2, <2>3, <2>4, <2>6, <2>7, <3>1, <3>2, ImageChange
    <2>9. VideoGood(w, r)
        BY <1>2, <2>8, VideoFrameFact, Zenon DEF VideoGood, AllCovered
    <2>10. r.video.old_fb = w.video.old_fb /\ r.video.port = w.video.port
        BY <1>2, <2>3, <2>4 DEF AllCovered, SameVideo
    <2>11. ASSUME CopyInv(w), w.video.old_fb = 0
           PROVE  CopyInv(r) /\ \A c \in Crtcs : r.drm.plane[c] = 0
        <3>1. CopyInv(x) /\ x.video.old_fb = 0
            BY <1>2, <2>11 DEF AllCovered, SameVideo
        <3>2. /\ NewOverlay.fb = 0 /\ NewOverlay.fb_rotated = 0 /\ NewOverlay.old_fb_rotated = 0
            BY DEF NewOverlay
        <3>3. ASSUME NEW c \in Crtcs PROVE r.drm.plane[c] = 0
            <4>1. x.drm.plane[c] \in {0, f}
                BY <1>2, <3>1, <3>2 DEF CopyInv, PlaneOwn, f
            <4>. QED
                BY <2>3, <2>6, <4>1 DEF Gone
        <3>4. \A c \in Crtcs : r.video.overlay[c] = NewOverlay
            BY <1>2, <2>3, <2>4
        <3>. QED
            BY <3>2, <3>3, <3>4, Zenon DEF CopyInv, PlaneOwn, CopyRight
    <2>. QED
        BY <1>4, <2>9, <2>10, <2>11, Zenon
<1>. QED
    BY <1>3, <1>4

\* Answers and the port are all that is left to the server.
SameButPort(w, r) ==
    /\ r.drm = w.drm /\ r.mode = w.mode
    /\ r.video.fb = w.video.fb /\ r.video.old_fb = w.video.old_fb
    /\ r.video.overlay = w.video.overlay

LEMMA SameFact ==
    ASSUME NEW w, NEW r, SameButPort(w, r)
    PROVE  /\ HeldInv(w) => HeldInv(r)
           /\ ShownInv(w) => ShownInv(r)
           /\ CopyInv(w) => CopyInv(r)
           /\ TurnsRight(w) => TurnsRight(r)
<1>1. HeldInv(w) => HeldInv(r)
    BY DEF SameButPort, HeldInv, FrontHeld, OthersHeld, ImagesHeld, ShadowHeld, RotatedHeld
<1>2. ShownInv(w) => ShownInv(r)
    BY SMTT(20) DEF SameButPort, ShownInv, ScansOwn, ShadowWhole, ShadowThere, Shows
<1>3. CopyInv(w) => CopyInv(r)
    BY DEF SameButPort, CopyInv, PlaneOwn, CopyRight, Image
<1>. QED
    BY <1>1, <1>2, <1>3, Zenon DEF SameButPort, TurnsRight


-----------------------------------------------------------------------------
(* A picture is made.                                                      *)

ImagePixels(kind, image) == IF kind = 0 THEN Picture(Blank, 0) ELSE Picture(image, 0)

NewVideo(w, f, kind, data) ==
    [w.video EXCEPT !.old_fb = w.video.fb, !.fb = f, !.passthrough = kind,
                    !.passthrough_data = data]

LEMMA CreateIs ==
    ASSUME NEW w \in Worlds, NEW kind, NEW image, NEW fault,
           ~ SamePicture(w, kind, image), ~ CreateRefused(fault),
           NEW b, b = NewBo(w.drm, ImageIds), NEW f, f = NewFb(w.drm, ImageIds),
           NEW r, r = TegraVideoOverlayCreateFB(w, kind, image, fault)
    PROVE  r = [drm   |-> AddFB(BoNew(w.drm, ImageIds, ImagePixels(kind, image)), ImageIds, b),
                mode  |-> w.mode,
                video |-> NewVideo(w, f, kind, IF kind = 0 THEN Blank ELSE image)]
<1>. DEFINE p == ImagePixels(kind, image)
            d == AddFB(BoNew(w.drm, ImageIds, p), ImageIds, b)
            v == NewVideo(w, f, kind, IF kind = 0 THEN Blank ELSE image)
            x == [w EXCEPT !.drm = d]
<1>1. d = IF kind = 0 THEN drm_create_fb(w.drm, ImageIds, p)
          ELSE drm_create_fb_from_handle(w.drm, ImageIds, p, FALSE)
    BY DEF drm_create_fb, drm_create_fb_from_handle
<1>2. x = [drm |-> d, mode |-> w.mode, video |-> w.video]
    BY WithDrmFact
<1>3. r = [w EXCEPT !.drm = d, !.video = v]
    <2>. HIDE DEF d, x
    <2>. QED
        BY <1>1 DEF TegraVideoOverlayCreateFB, NewVideo, ImagePixels
<1>. HIDE DEF d, v
<1>4. r = [x EXCEPT !.video = v]
    BY <1>3
<1>. HIDE DEF x
<1>5. r = [drm |-> d, mode |-> w.mode, video |-> v]
    BY <1>2, <1>4
<1>. QED
    BY <1>5 DEF d, v

\* No overlay has anything of the new picture yet.
Fresh(w) ==
    \A c \in Crtcs :
        /\ w.video.overlay[c].fb # w.video.fb
        /\ w.video.old_fb = 0 => w.video.overlay[c].old_fb_rotated = 0

LEMMA ImageCreated ==
    ASSUME NEW w \in Worlds, HeldInv(w), w.video.old_fb = 0,
           NEW kind \in 0..2, NEW image \in Images, NEW fault,
           ~ SamePicture(w, kind, image), ~ CreateRefused(fault),
           NEW r, r = TegraVideoOverlayCreateFB(w, kind, image, fault)
    PROVE  /\ VideoGood(w, r)
           /\ r.video.overlay = w.video.overlay /\ r.video.old_fb = w.video.fb
           /\ r.video.port = w.video.port
           /\ r.video.fb \in ImageIds /\ r.video.fb # w.video.fb
           /\ r.drm.plane = w.drm.plane
           /\ Pixels(r.drm, r.video.fb) = ImagePixels(kind, image)
           /\ CopyInv(w) => CopyInv(r) /\ Fresh(r)
<1>. DEFINE b == NewBo(w.drm, ImageIds)
            f == NewFb(w.drm, ImageIds)
            p == ImagePixels(kind, image)
            d == AddFB(BoNew(w.drm, ImageIds, p), ImageIds, b)
            data == IF kind = 0 THEN Blank ELSE image
            v == NewVideo(w, f, kind, data)
<1>1. w.drm \in Drms /\ Refs(w.drm) /\ w.video \in Videos /\ ImagesHeld(w)
    BY WorldParts DEF HeldInv, OthersHeld
<1>2. ImageIds \subseteq Fbs /\ 0 \notin Fbs /\ Fbs = Bos
    BY IdsFact
<1>3. p \in Pics /\ data \in Images
    BY BlankFact DEF ImagePixels, Picture, Pics
<1>4. \E g \in ImageIds : w.drm.fb[g] = 0
    <2>1. \E g \in ImageIds : g # w.video.fb
        <3>1. CASE w.video.fb \in Fbs
            <4>1. ImageIds \ {w.video.fb} # {}
                BY <3>1, FramebuffersAssumption, Zenon
            <4>. QED
                BY <4>1
        <3>2. CASE w.video.fb \notin Fbs
            <4>1. PICK e \in ShadowIds[0] : e \in Fbs
                BY CrtcsFact, IdsFact, FramebuffersAssumption
            <4>2. ImageIds \ {e} # {}
                BY <4>1, FramebuffersAssumption
            <4>. QED
                BY <1>2, <3>2, <4>2
        <3>. QED
            BY <3>1, <3>2
    <2>. QED
        BY <1>1, <1>2, <2>1 DEF ImagesHeld
<1>5. \E g \in ImageIds : FreeBo(w.drm, g)
    <2>1. \E g \in ImageIds : \A h \in ImageIds : w.drm.fb[h] # g
        <3>1. \A h \in ImageIds : w.drm.fb[h] # 0 => h = w.video.fb
            BY <1>1, <1>2 DEF ImagesHeld
        <3>2. CASE w.video.fb \in ImageIds /\ w.drm.fb[w.video.fb] \in Fbs
            <4>1. ImageIds \ {w.drm.fb[w.video.fb]} # {}
                BY <3>2, FramebuffersAssumption, Zenon
            <4>. QED
                BY <1>2, <3>1, <4>1
        <3>3. CASE ~ (w.video.fb \in ImageIds /\ w.drm.fb[w.video.fb] \in Fbs)
            BY <1>2, <1>4, <3>1, <3>3
        <3>. QED
            BY <3>2, <3>3
    <2>. QED
        BY <2>1, FreeOf DEF HeldInv
<1>6. r = [drm |-> d, mode |-> w.mode, video |-> v]
    BY CreateIs
<1>. HIDE DEF p, data, v
<1>7. /\ Created(w.drm, d, f, b, p) /\ d \in Drms /\ Refs(d)
      /\ f \in ImageIds /\ w.drm.fb[f] = 0 /\ b \in ImageIds /\ FreeBo(w.drm, b)
      /\ \A g \in Fbs : w.drm.fb[g] # 0 => d.fb[g] = w.drm.fb[g] /\ Pixels(d, g) = Pixels(w.drm, g)
      /\ Pixels(d, f) = p
    BY <1>1, <1>2, <1>3, <1>4, <1>5, CreateFact
<1>. HIDE DEF d, f, b
<1>8. /\ \A g \in Fbs : d.fb[g] = IF g = f THEN b ELSE w.drm.fb[g]
      /\ d.scan = w.drm.scan /\ d.plane = w.drm.plane
    BY <1>1, <1>7, DrmParts DEF Created
<1>9. /\ v \in Videos /\ v.overlay = w.video.overlay /\ v.old_fb = w.video.fb /\ v.fb = f
      /\ v.port = w.video.port
    BY <1>1, <1>2, <1>3, <1>7, Zenon DEF NewVideo, Videos, FbOrNone, v
<1>10. f # 0 /\ b # 0 /\ f # w.video.fb
    BY <1>1, <1>2, <1>7 DEF ImagesHeld
<1>11. ImagesHeld(r)
    <2>1. \A g \in ImageIds : d.fb[g] = IF g = f THEN b ELSE w.drm.fb[g]
        BY <1>2, <1>8
    <2>. QED
        BY <1>1, <1>2, <1>6, <1>7, <1>9, <1>10, <2>1 DEF ImagesHeld
<1>12. VideoGood(w, r)
    <2>1. \A g \in Fbs \ ImageIds : d.fb[g] = w.drm.fb[g]
        BY <1>7, <1>8
    <2>. QED
        BY <1>6, <1>7, <1>8, <1>9, <1>11, <2>1, ImageChange
<1>13. ASSUME CopyInv(w) PROVE CopyInv(r) /\ Fresh(r)
    <2>1. ASSUME NEW c \in Crtcs
          PROVE  /\ PlaneOwn(r, c) /\ CopyRight(r, c)
                 /\ r.video.overlay[c].fb # r.video.fb
                 /\ r.video.old_fb = 0 => r.video.overlay[c].old_fb_rotated = 0
        <3>1. PlaneOwn(w, c) /\ CopyRight(w, c)
            BY <1>13 DEF CopyInv
        <3>2. PlaneOwn(r, c)
            BY <1>6, <1>8, <1>9, <3>1 DEF PlaneOwn
        <3>3. r.video.overlay[c].fb \in {0, w.video.fb}
            BY <1>6, <1>9, <3>1 DEF CopyRight
        <3>4. w.video.overlay[c].old_fb_rotated # 0 => w.video.fb # 0
            BY <3>1 DEF CopyRight
        <3>5. CopyRight(r, c)
            BY <1>6, <1>9, <1>10, <3>1, <3>3, <3>4 DEF CopyRight
        <3>. QED
            BY <1>6, <1>9, <1>10, <3>2, <3>3, <3>4, <3>5
    <2>. QED
        BY <2>1 DEF CopyInv, Fresh
<1>. QED
    BY <1>6, <1>7, <1>8, <1>9, <1>10, <1>12, <1>13 DEF p


WithData(w, image) == [w EXCEPT !.drm = drm_copy_data_to_fb(@, w.video.fb, image)]

LEMMA DataCopied ==
    ASSUME NEW w \in Worlds, HeldInv(w), w.video.fb # 0, NEW image \in Images,
           NEW r, r = WithData(w, image)
    PROVE  /\ VideoGood(w, r)
           /\ r.video = w.video /\ r.drm.plane = w.drm.plane
           /\ Pixels(r.drm, r.video.fb) = Picture(image, 0)
           /\ CopyInv(w) /\ Fresh(w) => CopyInv(r) /\ Fresh(r)
<1>. DEFINE f == w.video.fb
            b == w.drm.fb[f]
            d == drm_copy_data_to_fb(w.drm, f, image)
<1>1. w.drm \in Drms /\ Refs(w.drm) /\ w.video \in Videos /\ ImagesHeld(w)
    BY WorldParts DEF HeldInv, OthersHeld
<1>2. f \in Fbs /\ b \in Bos
    BY <1>1, IdsFact, DrmParts DEF ImagesHeld, BoOrNone
<1>3. r = [drm |-> d, mode |-> w.mode, video |-> w.video]
    <2>1. r = [w EXCEPT !.drm = d]
        BY Zenon DEF WithData
    <2>. HIDE DEF d
    <2>. QED
        BY <2>1, WithDrmFact, Zenon
<1>4. d = [fb |-> w.drm.fb, bo |-> [w.drm.bo EXCEPT ![b].pixels = Picture(image, 0)],
           scan |-> w.drm.scan, plane |-> w.drm.plane]
    <2>1. PICK x : x = w.drm
        OBVIOUS
    <2>2. x = [fb |-> x.fb, bo |-> x.bo, scan |-> x.scan, plane |-> x.plane]
        BY <1>1, <2>1, DrmParts
    <2>3. PICK p : p = Picture(image, 0)
        OBVIOUS
    <2>4. [x EXCEPT !.bo[b].pixels = p] =
             [fb |-> x.fb, bo |-> [x.bo EXCEPT ![b].pixels = p], scan |-> x.scan, plane |-> x.plane]
        <3>. HIDE DEF b
        <3>. QED
            BY <2>2
    <2>. QED
        BY <2>1, <2>3, <2>4, Zenon DEF drm_copy_data_to_fb
<1>. HIDE DEF d, f, b
<1>5. d.bo = [w.drm.bo EXCEPT ![b].pixels = Picture(image, 0)]
      /\ d.fb = w.drm.fb /\ d.scan = w.drm.scan /\ d.plane = w.drm.plane
    BY <1>4
<1>6. d \in Drms
    <2>1. Picture(image, 0) \in [image : Images, rotation : Nat]
        BY DEF Picture
    <2>2. d.bo \in [Bos -> [refs : Nat, pixels : [image : Images, rotation : Nat]]]
        BY <1>1, <1>2, <1>5, <2>1, DrmParts, SMTT(20)
    <2>. QED
        BY <1>1, <1>4, <1>5, <2>2, DrmFact, DrmParts, Zenon
<1>7. Refs(d)
    <2>1. \A x \in Bos : d.bo[x].refs = w.drm.bo[x].refs
        BY <1>1, <1>2, <1>5, DrmParts
    <2>. QED
        BY <1>1, <1>5, <2>1 DEF Refs
<1>8. d.bo[b].pixels = Picture(image, 0)
    BY <1>1, <1>2, <1>5, DrmParts
<1>9. ImagesHeld(r)
    BY <1>1, <1>3, <1>5 DEF ImagesHeld
<1>10. VideoGood(w, r)
    BY <1>1, <1>3, <1>5, <1>6, <1>7, <1>9, ImageChange
<1>11. ASSUME CopyInv(w), Fresh(w) PROVE CopyInv(r) /\ Fresh(r)
    <2>1. ASSUME NEW c \in Crtcs PROVE PlaneOwn(r, c) /\ CopyRight(r, c)
        <3>1. PlaneOwn(w, c) /\ CopyRight(w, c)
            BY <1>11 DEF CopyInv
        <3>2. /\ w.video.overlay[c].fb # w.video.fb
              /\ w.video.old_fb = 0 => w.video.overlay[c].old_fb_rotated = 0
            BY <1>11 DEF Fresh
        <3>. QED
            BY <1>3, <1>5, <3>1, <3>2 DEF PlaneOwn, CopyRight
    <2>. QED
        BY <1>3, <1>11, <2>1, SMTT(20) DEF CopyInv, Fresh
<1>12. Pixels(r.drm, r.video.fb) = Picture(image, 0)
    <2>1. r.drm = d /\ r.video.fb = f
        BY <1>3 DEF f
    <2>2. d.fb[f] = b
        BY <1>5 DEF b
    <2>3. Pixels(d, f) = Picture(image, 0)
        BY <1>8, <2>2 DEF Pixels
    <2>. QED
        BY <2>1, <2>3
<1>. QED
    BY <1>3, <1>5, <1>10, <1>11, <1>12

-----------------------------------------------------------------------------
(* A rotated copy is made.                                                 *)

CopyMade(w, c, rotation) ==
    IF rotation = 0 THEN w.drm
    ELSE IF CanClone(w, c, rotation)
         THEN drm_clone_fb(w.drm, RotatedIds[c], Sibling(w, c).fb_rotated)
         ELSE drm_create_fb(w.drm, RotatedIds[c], Picture(Pixels(w.drm, w.video.fb).image, rotation))

LEMMA IdLeft ==
    ASSUME NEW c \in Crtcs, NEW f, NEW g, NEW h, NEW k
    PROVE  \E x \in RotatedIds[c] : x \notin {f, g, h, k}
<1>1. Fbs # {}
    <2>1. ShadowIds[0] # {} /\ ShadowIds[0] \subseteq Fbs
        BY CrtcsFact, IdsFact, FramebuffersAssumption
    <2>. QED
        BY <2>1
<1>2. PICK f1 \in Fbs : f \in Fbs => f1 = f
    BY <1>1
<1>3. PICK g1 \in Fbs : g \in Fbs => g1 = g
    BY <1>1
<1>4. PICK h1 \in Fbs : h \in Fbs => h1 = h
    BY <1>1
<1>5. PICK k1 \in Fbs : k \in Fbs => k1 = k
    BY <1>1
<1>6. RotatedIds[c] \ {f1, g1, h1, k1} # {}
    BY FramebuffersAssumption, SMTT(20)
<1>. QED
    BY <1>2, <1>3, <1>4, <1>5, <1>6, IdsFact

LEMMA FreeCopy ==
    ASSUME NEW w \in Worlds, HeldInv(w), NEW c \in Crtcs
    PROVE  /\ \E g \in RotatedIds[c] : w.drm.fb[g] = 0
           /\ \E g \in RotatedIds[c] : FreeBo(w.drm, g)
<1>. DEFINE o == w.video.overlay
            fb == w.drm.fb
<1>1. PICK j \in Crtcs : \A k \in Crtcs : k \in {c, j}
    BY FramebuffersAssumption
<1>2. 0 \notin Fbs /\ \A k \in Crtcs : RotatedIds[k] \subseteq Fbs
    BY IdsFact
<1>3. \A k \in Crtcs : RotatedHeld(w, k)
    BY DEF HeldInv, OthersHeld
<1>4. PICK g \in RotatedIds[c] : g \notin {o[c].fb_rotated, o[c].old_fb_rotated, 0, 0}
    BY IdLeft, Zenon
<1>5. fb[g] = 0
    BY <1>2, <1>3, <1>4 DEF RotatedHeld
<1>6. PICK b \in RotatedIds[c] :
        b \notin {fb[o[c].fb_rotated], fb[o[c].old_fb_rotated],
                  fb[o[j].fb_rotated], fb[o[j].old_fb_rotated]}
    BY IdLeft, Zenon
<1>7. ASSUME NEW f \in RotatedBos PROVE fb[f] # b
    <2>1. b # 0 /\ b \in Fbs
        BY <1>2, <1>6
    <2>2. PICK k \in Crtcs : f \in RotatedIds[k]
        BY DEF RotatedBos
    <2>3. CASE fb[f] = 0
        BY <2>1, <2>3
    <2>4. CASE fb[f] # 0
        <3>1. f \in {o[k].fb_rotated, o[k].old_fb_rotated}
            BY <1>3, <2>2, <2>4 DEF RotatedHeld
        <3>2. k = c \/ k = j
            BY <1>1
        <3>. QED
            BY <1>6, <3>1, <3>2
    <2>. QED
        BY <2>3, <2>4
<1>8. b \in RotatedBos
    BY <1>6 DEF RotatedBos
<1>9. FreeBo(w.drm, b)
    BY <1>7, <1>8, FreeOf DEF HeldInv
<1>. QED
    BY <1>4, <1>5, <1>6, <1>9

LEMMA CopyMadeFact ==
    ASSUME NEW w \in Worlds, HeldInv(w), NEW c \in Crtcs, NEW rotation \in Nat,
           w.video.fb # 0,
           NEW n, n = NewFb(w.drm, RotatedIds[c]), NEW d, d = CopyMade(w, c, rotation)
    PROVE  /\ d \in Drms /\ Refs(d) /\ d.scan = w.drm.scan /\ d.plane = w.drm.plane
           /\ \A g \in Fbs : w.drm.fb[g] # 0 =>
                 d.fb[g] = w.drm.fb[g] /\ Pixels(d, g) = Pixels(w.drm, g)
           /\ rotation = 0 => d = w.drm
           /\ rotation # 0 =>
                 /\ n \in RotatedIds[c] /\ w.drm.fb[n] = 0 /\ d.fb[n] \in RotatedBos
                 /\ \A g \in Fbs \ {n} : d.fb[g] = w.drm.fb[g]
                 /\ Pixels(d, n) =
                      IF CanClone(w, c, rotation)
                      THEN Pixels(w.drm, Sibling(w, c).fb_rotated)
                      ELSE Picture(Image(w, w.video.fb), rotation)
<1>1. w.drm \in Drms /\ Refs(w.drm) /\ ImagesHeld(w) /\ \A j \in Crtcs : RotatedHeld(w, j)
    BY WorldParts DEF HeldInv, OthersHeld
<1>2. RotatedIds[c] \subseteq Fbs /\ 0 \notin Fbs /\ RotatedIds[c] \subseteq RotatedBos
    BY IdsFact, ClassFact
<1>3. /\ \E g \in RotatedIds[c] : w.drm.fb[g] = 0
      /\ \E g \in RotatedIds[c] : FreeBo(w.drm, g)
    BY FreeCopy, Zenon
<1>4. CASE rotation = 0
    BY <1>1, <1>4, Zenon DEF CopyMade
<1>5. CASE rotation # 0 /\ CanClone(w, c, rotation)
    <2>. DEFINE g == Sibling(w, c).fb_rotated
    <2>1. g \in Fbs /\ w.drm.fb[g] # 0 /\ w.drm.fb[g] \in RotatedBos
        <3>1. g # 0
            BY <1>5 DEF CanClone
        <3>2. 1 - c \in Crtcs /\ g = w.video.overlay[1 - c].fb_rotated
            BY <3>1, Zenon DEF Sibling, NewOverlay
        <3>3. RotatedHeld(w, 1 - c)
            BY <1>1, <3>2, Zenon
        <3>4. g \in RotatedIds[1 - c] /\ w.drm.fb[g] # 0 /\ w.drm.fb[g] \in RotatedBos \cup {0}
            BY <3>1, <3>2, <3>3 DEF RotatedHeld
        <3>. QED
            BY <3>2, <3>4, IdsFact
    <2>2. d = drm_clone_fb(w.drm, RotatedIds[c], g)
        BY <1>5 DEF CopyMade
    <2>. HIDE DEF g
    <2>3. /\ Cloned(w.drm, d, n, w.drm.fb[g])
          /\ d \in Drms /\ Refs(d)
          /\ n \in RotatedIds[c] /\ w.drm.fb[n] = 0
          /\ \A h \in Fbs : w.drm.fb[h] # 0 =>
                d.fb[h] = w.drm.fb[h] /\ Pixels(d, h) = Pixels(w.drm, h)
          /\ Pixels(d, n) = Pixels(w.drm, g)
        BY <1>1, <1>2, <1>3, <2>1, <2>2, CloneFact, SMTT(20)
    <2>4. \A h \in Fbs : d.fb[h] = IF h = n THEN w.drm.fb[g] ELSE w.drm.fb[h]
        BY <1>1, <1>2, <2>3, DrmParts DEF Cloned
    <2>. QED
        BY <1>2, <1>5, <2>1, <2>3, <2>4, Zenon DEF Cloned, g
<1>6. CASE rotation # 0 /\ ~ CanClone(w, c, rotation)
    <2>. DEFINE p == Picture(Pixels(w.drm, w.video.fb).image, rotation)
                b == NewBo(w.drm, RotatedIds[c])
    <2>1. p \in Pics
        <3>1. w.video.fb \in Fbs /\ w.drm.fb[w.video.fb] \in Bos
            BY <1>1, IdsFact, DrmParts, Zenon DEF ImagesHeld, BoOrNone
        <3>2. Pixels(w.drm, w.video.fb).image \in Images
            BY <1>1, <3>1, DrmParts DEF Pixels
        <3>. QED
            BY <3>2 DEF Picture, Pics
    <2>2. d = AddFB(BoNew(w.drm, RotatedIds[c], p), RotatedIds[c], b)
        BY <1>6 DEF CopyMade, drm_create_fb
    <2>3. p = Picture(Image(w, w.video.fb), rotation)
        BY DEF Image
    <2>. HIDE DEF p
    <2>4. /\ Created(w.drm, d, n, b, p) /\ d \in Drms /\ Refs(d)
          /\ n \in RotatedIds[c] /\ w.drm.fb[n] = 0 /\ b \in RotatedIds[c]
          /\ \A h \in Fbs : w.drm.fb[h] # 0 =>
                d.fb[h] = w.drm.fb[h] /\ Pixels(d, h) = Pixels(w.drm, h)
          /\ Pixels(d, n) = p
        BY <1>1, <1>2, <1>3, <2>1, <2>2, CreateFact
    <2>. HIDE DEF b
    <2>5. \A h \in Fbs : d.fb[h] = IF h = n THEN b ELSE w.drm.fb[h]
        BY <1>1, <1>2, <2>4, DrmParts DEF Created
    <2>. QED
        BY <1>2, <1>6, <2>3, <2>4, <2>5 DEF Created
<1>. QED
    BY <1>4, <1>5, <1>6


Recopied(o, n) == [o EXCEPT !.old_fb_rotated = o.fb_rotated, !.fb_rotated = n]

LEMMA UpdateIs ==
    ASSUME NEW w \in Worlds, NEW c \in Crtcs, NEW rotation,
           NEW o, o = w.video.overlay[c],
           NEW n, n = IF rotation = 0 THEN 0 ELSE NewFb(w.drm, RotatedIds[c]),
           NEW r, r = TegraVideoOverlayUpdateRotatedFb(w, c, rotation)
    PROVE  r = WithOverlay(w, drm_free_overlay_fb(CopyMade(w, c, rotation), o.old_fb_rotated), c,
                           Recopied(o, n))
<1>. DEFINE d == drm_free_overlay_fb(CopyMade(w, c, rotation), o.old_fb_rotated)
            p == Recopied(o, n)
<1>1. r = [w EXCEPT !.drm = drm_free_overlay_fb(CopyMade(w, c, rotation), o.old_fb_rotated),
                    !.video.overlay[c] =
                        [@ EXCEPT !.old_fb_rotated = o.fb_rotated,
                                  !.fb_rotated = IF rotation = 0 THEN 0
                                                 ELSE NewFb(w.drm, RotatedIds[c])]]
    <2>1. CASE rotation = 0
        BY <2>1 DEF TegraVideoOverlayUpdateRotatedFb, CopyMade
    <2>2. CASE rotation # 0 /\ CanClone(w, c, rotation)
        BY <2>2 DEF TegraVideoOverlayUpdateRotatedFb, CopyMade
    <2>3. CASE rotation # 0 /\ ~ CanClone(w, c, rotation)
        BY <2>3 DEF TegraVideoOverlayUpdateRotatedFb, CopyMade
    <2>. QED
        BY <2>1, <2>2, <2>3
<1>2. r = [w EXCEPT !.drm = d, !.video.overlay[c] = p]
    BY <1>1 DEF Recopied
<1>. HIDE DEF d, p
<1>3. r = WithOverlay(w, d, c, p)
    BY <1>2, WithOverlayIs, Zenon
<1>. QED
    BY <1>3 DEF d, p

Wishes == FbOrNone \cup {NoWish}

Turn(w, c) == w.mode.crtc[c].rotation

Anew(w, c) ==
    w.video.overlay[c].fb # w.video.fb \/ w.video.overlay[c].rotation # Turn(w, c)

\* The overlay c, asked to show the picture, or its rotated copy n.
Showing(o, fb, rotation, place) ==
    [o EXCEPT !.fb = fb, !.rotation = rotation, !.place = place]

Wished(w, req, c, n) == [req EXCEPT ![c] = IF n # 0 THEN n ELSE w.video.fb]

Asked(w, req, q, d, c, place, o, n) ==
    /\ q.w = WithOverlay(w, d, c, Showing(o, w.video.fb, Turn(w, c), place))
    /\ q.req = Wished(w, req, c, n)

LEMMA PutIs ==
    ASSUME NEW w \in Worlds, NEW req, NEW ok \in BOOLEAN, NEW c \in Crtcs, NEW place, NEW fault,
           NEW r, r = [w |-> w, req |-> req, ok |-> ok],
           NEW q, q = TegraVideoOverlayPutImageOnOverlay(r, c, place, fault),
           NEW o, o = w.video.overlay[c],
           NEW n, n = IF Turn(w, c) = 0 THEN 0 ELSE NewFb(w.drm, RotatedIds[c])
    PROVE  /\ ~ok \/ ~o.visible => q = r
           /\ ok /\ o.visible /\ Anew(w, c) =>
                 \/ RotateRefused(Turn(w, c), fault) /\ q.w = w /\ q.req = req /\ ~ q.ok
                 \/ /\ ~ RotateRefused(Turn(w, c), fault) /\ q.ok
                    /\ Asked(w, req, q,
                             drm_free_overlay_fb(CopyMade(w, c, Turn(w, c)), o.old_fb_rotated), c, place,
                             Recopied(o, n), n)
           /\ ok /\ o.visible /\ ~ Anew(w, c) =>
                 q = r \/ (q.ok /\ Asked(w, req, q, w.drm, c, place, o, o.fb_rotated))
           /\ q = [w |-> q.w, req |-> q.req, ok |-> q.ok] /\ q.ok \in BOOLEAN
<1>. DEFINE rotation == Turn(w, c)
            fb == w.video.fb
            anew == o.fb # fb \/ o.rotation # rotation
            u == IF anew THEN TegraVideoOverlayUpdateRotatedFb(w, c, rotation) ELSE w
            turned == u.video.overlay[c].fb_rotated
<1>0. r.w = w /\ r.req = req /\ r.ok = ok
    OBVIOUS
<1>00. anew <=> Anew(w, c)
    BY Zenon DEF Anew
<1>1. q = IF ~ok \/ ~o.visible THEN r
          ELSE IF anew /\ RotateRefused(rotation, fault) THEN [r EXCEPT !.ok = FALSE]
          ELSE IF ~anew /\ o.place = place THEN r
          ELSE [r EXCEPT
                 !.w = [u EXCEPT !.video.overlay[c] =
                           [@ EXCEPT !.fb = fb, !.rotation = rotation, !.place = place]],
                 !.req[c] = IF turned # 0 THEN turned ELSE fb]
    BY <1>0, ZenonT(40) DEF TegraVideoOverlayPutImageOnOverlay, Turn
<1>. HIDE DEF anew, u, rotation
<1>2. CASE ~ok \/ ~o.visible
    <2>1. q = r
        BY <1>1, <1>2
    <2>. QED
        BY <1>2, <2>1
<1>3. CASE ok /\ o.visible /\ anew /\ RotateRefused(rotation, fault)
    <2>1. q = [r EXCEPT !.ok = FALSE]
        BY <1>1, <1>3, Zenon
    <2>2. q.w = w /\ q.req = req /\ q.ok = FALSE /\ q = [w |-> q.w, req |-> q.req, ok |-> q.ok]
        BY <2>1
    <2>. QED
        BY <1>3, <1>00, <2>2, Zenon DEF rotation
<1>4. CASE ok /\ o.visible /\ ~anew /\ o.place = place
    <2>1. q = r
        BY <1>1, <1>4, Zenon
    <2>2. q = [w |-> q.w, req |-> q.req, ok |-> q.ok] /\ q.ok = ok
        BY <1>0, <2>1
    <2>3. ~ Anew(w, c)
        BY <1>4, <1>00
    <2>. QED
        BY <1>4, <2>1, <2>2, <2>3, Zenon
<1>5. CASE /\ ok /\ o.visible /\ ~ (anew /\ RotateRefused(rotation, fault))
           /\ ~ (~anew /\ o.place = place)
    <2>. DEFINE x == [u EXCEPT !.video.overlay[c] =
                         [@ EXCEPT !.fb = fb, !.rotation = rotation, !.place = place]]
                a == u.video.overlay[c]
                p == [a EXCEPT !.fb = fb, !.rotation = rotation, !.place = place]
    <2>1. q = [r EXCEPT !.w = x, !.req[c] = IF turned # 0 THEN turned ELSE fb]
        BY <1>1, <1>5
    <2>2. /\ q.w = x /\ q.req = [req EXCEPT ![c] = IF turned # 0 THEN turned ELSE fb] /\ q.ok = ok
          /\ q = [w |-> q.w, req |-> q.req, ok |-> q.ok]
        <3>. HIDE DEF x, turned
        <3>. QED
            BY <2>1, <1>5, Zenon
    <2>3. x = [u EXCEPT !.video.overlay[c] = p]
        OBVIOUS
    <2>. HIDE DEF x, p
    <2>4. CASE anew
        <3>. DEFINE d == drm_free_overlay_fb(CopyMade(w, c, rotation), o.old_fb_rotated)
                    b == Recopied(o, n)
        <3>1. u = WithOverlay(w, d, c, b)
            <4>1. u = TegraVideoOverlayUpdateRotatedFb(w, c, rotation)
                BY <2>4 DEF u
            <4>2. n = IF rotation = 0 THEN 0 ELSE NewFb(w.drm, RotatedIds[c])
                BY DEF rotation
            <4>. HIDE DEF rotation
            <4>. QED
                BY <4>1, <4>2, UpdateIs
        <3>2. o \in OverlayStates /\ w.video \in Videos
            BY WorldParts
        <3>3. b.fb_rotated = n
            BY <3>2 DEF OverlayStates, Recopied
        <3>. HIDE DEF d, b
        <3>4. a = b
            BY <3>1, <3>2 DEF WithOverlay, Videos
        <3>5. x = WithOverlay(u, d, c, p)
            BY <2>3, <3>1 DEF WithOverlay
        <3>6. x = WithOverlay(w, d, c, p)
            BY <3>1, <3>5, WithOverlayTwice
        <3>7. Asked(w, req, q, d, c, place, b, n)
            BY <2>2, <3>3, <3>4, <3>6, Zenon DEF Asked, Wished, Showing, p, rotation
        <3>. QED
            BY <1>5, <1>00, <2>2, <2>4, <3>7, Zenon DEF d, b, rotation
    <2>5. CASE ~anew
        <3>1. u = w /\ a = o
            BY <2>5 DEF u
        <3>2. x = WithOverlay(w, w.drm, c, p)
            BY <2>3, <3>1, WithOverlayOnly
        <3>3. Asked(w, req, q, w.drm, c, place, o, o.fb_rotated)
            BY <2>2, <3>1, <3>2, Zenon DEF Asked, Wished, Showing, p, rotation
        <3>. QED
            BY <1>5, <1>00, <2>2, <2>5, <3>3, Zenon
    <2>. QED
        BY <2>4, <2>5
<1>. QED
    BY <1>2, <1>3, <1>4, <1>5


\* The picture, or its copy, is put on the overlay anew.
LEMMA PutNew ==
    ASSUME NEW w \in Worlds, HeldInv(w), NEW c \in Crtcs, NEW place \in Places,
           w.video.fb # 0,
           NEW o, o = w.video.overlay[c],
           NEW n, n = IF Turn(w, c) = 0 THEN 0 ELSE NewFb(w.drm, RotatedIds[c]),
           NEW d, d = drm_free_overlay_fb(CopyMade(w, c, Turn(w, c)), o.old_fb_rotated),
           NEW p, p = Showing(Recopied(o, n), w.video.fb, Turn(w, c), place),
           NEW r, r = WithOverlay(w, d, c, p)
    PROVE  /\ OverlayGood(w, r, c) /\ r.video.overlay[c] = p
           /\ p.fb_rotated = n /\ n \in FbOrNone /\ p.fb = w.video.fb
           /\ p.rotation = Turn(w, c) /\ p.visible = o.visible
           /\ r.drm.plane[c] \in {w.drm.plane[c], 0}
           /\ n # 0 <=> Turn(w, c) # 0
           /\ CopyInv(w) => CopyLeft(r, c) /\ OldRight(r, c)
<1>. DEFINE turn == Turn(w, c)
            m == CopyMade(w, c, turn)
            fb == w.video.fb
<1>1. /\ w.drm \in Drms /\ Refs(w.drm) /\ ImagesHeld(w) /\ RotatedHeld(w, c)
      /\ o \in OverlayStates /\ turn \in Nat
    BY WorldParts, Zenon DEF HeldInv, OthersHeld, Turn, CrtcStates
<1>2. RotatedIds[c] \subseteq Fbs /\ 0 \notin Fbs /\ ImageIds \subseteq Fbs
      /\ ImageIds \cap RotatedIds[c] = {}
    BY IdsFact, FramebuffersAssumption, Zenon
<1>3. /\ o.fb_rotated \in RotatedIds[c] \cup {0} /\ o.old_fb_rotated \in RotatedIds[c] \cup {0}
      /\ o.fb_rotated = o.old_fb_rotated => o.fb_rotated = 0
      /\ o.fb_rotated # 0 => w.drm.fb[o.fb_rotated] # 0
      /\ o.old_fb_rotated # 0 => w.drm.fb[o.old_fb_rotated] # 0
      /\ \A f \in RotatedIds[c] : /\ f \notin {o.fb_rotated, o.old_fb_rotated} => w.drm.fb[f] = 0
                                  /\ w.drm.fb[f] \in RotatedBos \cup {0}
    BY <1>1 DEF RotatedHeld
<1>4. fb \in ImageIds /\ w.drm.fb[fb] # 0
    BY <1>1 DEF ImagesHeld
<1>. d = drm_free_overlay_fb(m, o.old_fb_rotated)
    OBVIOUS
<1>n. n = IF turn = 0 THEN 0 ELSE NewFb(w.drm, RotatedIds[c])
    OBVIOUS
<1>. HIDE DEF turn, m
<1>5. /\ m \in Drms /\ Refs(m) /\ m.scan = w.drm.scan /\ m.plane = w.drm.plane
      /\ \A g \in Fbs : w.drm.fb[g] # 0 => m.fb[g] = w.drm.fb[g] /\ Pixels(m, g) = Pixels(w.drm, g)
      /\ turn = 0 => m = w.drm
      /\ turn # 0 =>
            /\ n \in RotatedIds[c] /\ w.drm.fb[n] = 0 /\ m.fb[n] \in RotatedBos
            /\ \A g \in Fbs \ {n} : m.fb[g] = w.drm.fb[g]
            /\ Pixels(m, n) = IF CanClone(w, c, turn)
                              THEN Pixels(w.drm, Sibling(w, c).fb_rotated)
                              ELSE Picture(Image(w, fb), turn)
    <2>. DEFINE n0 == NewFb(w.drm, RotatedIds[c])
    <2>1. /\ m \in Drms /\ Refs(m) /\ m.scan = w.drm.scan /\ m.plane = w.drm.plane
          /\ \A g \in Fbs : w.drm.fb[g] # 0 => m.fb[g] = w.drm.fb[g] /\ Pixels(m, g) = Pixels(w.drm, g)
          /\ turn = 0 => m = w.drm
          /\ turn # 0 =>
                /\ n0 \in RotatedIds[c] /\ w.drm.fb[n0] = 0 /\ m.fb[n0] \in RotatedBos
                /\ \A g \in Fbs \ {n0} : m.fb[g] = w.drm.fb[g]
                /\ Pixels(m, n0) = IF CanClone(w, c, turn)
                                   THEN Pixels(w.drm, Sibling(w, c).fb_rotated)
                                   ELSE Picture(Image(w, fb), turn)
        BY <1>1, CopyMadeFact DEF m
    <2>2. turn # 0 => n0 = n
        BY <1>n
    <2>. HIDE DEF n0
    <2>. QED
        BY <2>1, <2>2
<1>6. n \in RotatedIds[c] \cup {0} /\ (n # 0 <=> turn # 0)
    BY <1>2, <1>5, <1>n, Zenon
<1>7. d \in Drms /\ Refs(d) /\ Gone(m, d, o.old_fb_rotated)
    <2>1. o.old_fb_rotated # 0 => m.fb[o.old_fb_rotated] # 0
        BY <1>2, <1>3, <1>5, Zenon
    <2>2. o.old_fb_rotated \in FbOrNone
        BY <1>2, <1>3, SMTT(20) DEF FbOrNone
    <2>. QED
        BY <1>5, <2>1, <2>2, FreeOverlayFact, Zenon
<1>8. /\ p \in OverlayStates /\ p.fb = fb /\ p.fb_rotated = n /\ p.old_fb_rotated = o.fb_rotated
      /\ p.rotation = turn /\ p.visible = o.visible
    <2>. DEFINE a == Recopied(o, n)
    <2>1. /\ a \in OverlayStates /\ a.fb_rotated = n /\ a.old_fb_rotated = o.fb_rotated
          /\ a.visible = o.visible
        BY <1>1, <1>2, <1>6, ZenonT(40) DEF Recopied, OverlayStates, FbOrNone
    <2>. HIDE DEF a
    <2>2. p = Showing(a, fb, turn, place)
        BY DEF turn, a
    <2>. QED
        BY <1>1, <1>2, <1>4, <2>1, <2>2, Zenon DEF Showing, OverlayStates, FbOrNone
<1>9. /\ r.drm = d /\ r.video.overlay[c] = p
      /\ r.video.fb = fb /\ r.video.old_fb = w.video.old_fb
    <2>1. d \in Drms /\ p \in OverlayStates
        BY <1>7, <1>8, Zenon
    <2>2. /\ r.drm = d /\ r.video.overlay[c] = p
          /\ r.video.fb = w.video.fb /\ r.video.old_fb = w.video.old_fb
        <3>. HIDE <1>n
        <3>. HIDE DEF fb
        <3>. QED
            BY <2>1, WithOverlayFact, SMTT(20)
    <2>. QED
        BY <2>2
<1>10. n # 0 => w.drm.fb[n] = 0 /\ n # o.old_fb_rotated /\ n # o.fb_rotated
    BY <1>3, <1>5, <1>6, Zenon
<1>11. RotatedHeld(r, c)
    <2>1. ASSUME NEW f \in RotatedIds[c]
          PROVE  d.fb[f] \in RotatedBos \cup {0} /\ (d.fb[f] # 0 <=> f \in {n, o.fb_rotated})
        <3>1. f # 0 /\ f \in Fbs /\ 0 \notin RotatedBos
            BY <1>2, IdsFact, Zenon
        <3>2. d.fb[f] = IF f = o.old_fb_rotated THEN 0 ELSE m.fb[f]
            BY <1>7, <3>1, Zenon DEF Gone
        <3>3. CASE f = n
            BY <1>5, <1>6, <1>10, <3>1, <3>2, <3>3, ZenonT(40)
        <3>4. CASE f # n
            <4>1. m.fb[f] = w.drm.fb[f]
                BY <1>5, <3>1, <3>4
            <4>. QED
                BY <1>3, <3>1, <3>2, <3>4, <4>1
        <3>. QED
            BY <3>3, <3>4, Zenon
    <2>2. n = o.fb_rotated => n = 0
        BY <1>10, Zenon
    <2>. QED
        <3>. DEFINE a == r.video.overlay[c]
        <3>1. a.fb_rotated = n /\ a.old_fb_rotated = o.fb_rotated
            BY <1>8, <1>9, Zenon
        <3>2. \A f \in RotatedIds[c] :
                 /\ r.drm.fb[f] \in RotatedBos \cup {0}
                 /\ r.drm.fb[f] # 0 <=> f \in {a.fb_rotated, a.old_fb_rotated}
            BY <1>9, <2>1, <3>1, ZenonT(40)
        <3>3. /\ a.fb_rotated \in RotatedIds[c] \cup {0} /\ a.old_fb_rotated \in RotatedIds[c] \cup {0}
              /\ a.fb_rotated = a.old_fb_rotated => a.fb_rotated = 0
            BY <1>3, <1>6, <2>2, <3>1, Zenon
        <3>. QED
            BY <3>2, <3>3, Zenon DEF RotatedHeld
<1>12. OverlayGood(w, r, c)
    <2>1. ASSUME NEW f \in Fbs \ RotatedIds[c]
          PROVE  d.fb[f] = w.drm.fb[f] /\ (w.drm.fb[f] # 0 => Pixels(d, f) = Pixels(w.drm, f))
        <3>1. f # n /\ f # o.old_fb_rotated
            BY <1>2, <1>3, <1>6
        <3>2. m.fb[f] = w.drm.fb[f]
            BY <1>5, <3>1, ZenonT(40)
        <3>. QED
            BY <1>5, <1>7, <3>1, <3>2, ZenonT(40) DEF Gone
    <2>2. \A j \in Crtcs : w.drm.scan[j] \notin RotatedIds[c] => d.scan[j] = w.drm.scan[j]
        <3>1. \A j \in Crtcs : d.scan[j] = IF m.scan[j] = o.old_fb_rotated THEN 0 ELSE m.scan[j]
            BY <1>7, ZenonT(40) DEF Gone
        <3>. QED
            BY <1>3, <1>5, <3>1, SMTT(20)
    <2>3. \A j \in Crtcs : w.drm.plane[j] \notin RotatedIds[c] => d.plane[j] = w.drm.plane[j]
        <3>1. \A j \in Crtcs : d.plane[j] = IF m.plane[j] = o.old_fb_rotated THEN 0 ELSE m.plane[j]
            BY <1>7, ZenonT(40) DEF Gone
        <3>. QED
            BY <1>3, <1>5, <3>1, SMTT(20)
    <2>. QED
        BY <1>7, <1>8, <1>11, <2>1, <2>2, <2>3, OverlayChange, Zenon
<1>13. d.plane[c] = IF w.drm.plane[c] = o.old_fb_rotated THEN 0 ELSE w.drm.plane[c]
    BY <1>5, <1>7 DEF Gone
<1>14. ASSUME CopyInv(w) PROVE CopyLeft(r, c) /\ OldRight(r, c)
    <2>1. \A j \in Crtcs : CopyLeft(w, j) /\ OldRight(w, j)
        BY <1>14, CopyParts, Zenon
    <2>2. PlaneOwn(r, c)
        <3>1. w.drm.plane[c] \in {0, fb, w.video.old_fb, o.fb_rotated, o.old_fb_rotated}
            BY <2>1, Zenon DEF CopyLeft, PlaneOwn
        <3>2. r.drm.plane[c] \in {0, fb, w.video.old_fb, o.fb_rotated}
            BY <1>9, <1>13, <3>1, Zenon
        <3>3. r.video.overlay[c].old_fb_rotated = o.fb_rotated
            BY <1>8, <1>9, Zenon
        <3>4. r.drm.plane[c] \in {0, r.video.fb, r.video.old_fb,
                               r.video.overlay[c].fb_rotated, r.video.overlay[c].old_fb_rotated}
            BY <1>9, <3>2, <3>3, Zenon
        <3>. QED
            BY <3>4, Zenon DEF PlaneOwn
    <2>3. Image(r, fb) = Image(w, fb)
        <3>1. Pixels(r.drm, fb) = Pixels(w.drm, fb)
            BY <1>4, <1>12, Zenon DEF OverlayGood, OverlayFrame
        <3>. QED
            BY <3>1, Zenon DEF Image
    <2>4. ASSUME n # 0
          PROVE  Pixels(r.drm, n) = Picture(Image(w, fb), turn)
        <3>1. n \in Fbs /\ m.fb[n] # 0 /\ turn # 0
            BY <1>2, <1>5, <1>6, <2>4, IdsFact, ZenonT(40)
        <3>2. Pixels(d, n) = Pixels(m, n)
            BY <1>7, <1>10, <2>4, <3>1, Zenon DEF Gone
        <3>3. CASE CanClone(w, c, turn)
            <4>. DEFINE s == Sibling(w, c)
            <4>1. s.fb_rotated # 0 /\ s.fb = fb /\ s.rotation = turn
                BY <3>3 DEF CanClone
            <4>2. 1 - c \in Crtcs /\ s = w.video.overlay[1 - c]
                BY <4>1, Zenon DEF Sibling, NewOverlay
            <4>. HIDE DEF s
            <4>3. Pixels(w.drm, s.fb_rotated) = Picture(Image(w, fb), turn)
                BY <2>1, <4>1, <4>2 DEF CopyLeft
            <4>4. Pixels(m, n) = Pixels(w.drm, s.fb_rotated)
                BY <1>5, <3>1, <3>3, Zenon DEF s
            <4>. QED
                BY <1>9, <3>2, <4>3, <4>4
        <3>4. CASE ~ CanClone(w, c, turn)
            BY <1>5, <1>9, <3>1, <3>2, <3>4, Zenon
        <3>. QED
            BY <3>3, <3>4
    <2>5. CopyLeft(r, c)
        BY <1>4, <1>8, <1>9, <2>2, <2>3, <2>4, ZenonT(40) DEF CopyLeft
    <2>6. ASSUME o.fb_rotated # 0, w.video.old_fb = 0
          PROVE  Image(r, o.fb_rotated) = Image(w, fb)
        <3>1. o.fb = fb
            BY <2>1, <2>6, Zenon DEF CopyLeft
        <3>2. Pixels(w.drm, o.fb_rotated) = Picture(Image(w, fb), o.rotation)
            BY <2>1, <2>6, <3>1, Zenon DEF CopyLeft
        <3>3. o.fb_rotated \in Fbs /\ w.drm.fb[o.fb_rotated] # 0
            BY <1>2, <1>3, <2>6, Zenon
        <3>4. Pixels(m, o.fb_rotated) = Pixels(w.drm, o.fb_rotated)
              /\ m.fb[o.fb_rotated] # 0
            BY <1>5, <3>3, Zenon
        <3>5. Pixels(d, o.fb_rotated) = Pixels(m, o.fb_rotated)
            BY <1>3, <1>7, <2>6, <3>3, <3>4, Zenon DEF Gone
        <3>. QED
            BY <1>9, <3>2, <3>4, <3>5, SMTT(20) DEF Image, Picture
    <2>7. OldRight(r, c)
        BY <1>4, <1>8, <1>9, <2>3, <2>6, <1>2, ZenonT(40) DEF OldRight
    <2>. QED
        BY <2>5, <2>7, Zenon
<1>15. d.plane[c] \in {w.drm.plane[c], 0}
    BY <1>13, Zenon
<1>16. n \in FbOrNone
    BY <1>2, <1>6 DEF FbOrNone
<1>. QED
    BY <1>6, <1>8, <1>9, <1>12, <1>14, <1>15, <1>16, Zenon DEF turn

\* The overlay has moved only.
LEMMA PutMoved ==
    ASSUME NEW w \in Worlds, HeldInv(w), NEW c \in Crtcs, NEW place \in Places,
           NEW o, o = w.video.overlay[c], ~ Anew(w, c),
           NEW p, p = Showing(o, w.video.fb, Turn(w, c), place),
           NEW r, r = WithOverlay(w, w.drm, c, p)
    PROVE  /\ OverlayGood(w, r, c) /\ r.video.overlay[c] = p
           /\ p.fb_rotated = o.fb_rotated /\ o.fb_rotated \in FbOrNone /\ p.fb = w.video.fb
           /\ p.visible = o.visible
           /\ r.drm = w.drm
           /\ CopyInv(w) => CopyLeft(r, c) /\ OldRight(r, c)
<1>1. /\ w.drm \in Drms /\ Refs(w.drm) /\ RotatedHeld(w, c)
      /\ o \in OverlayStates /\ Turn(w, c) \in Nat
    BY WorldParts DEF HeldInv, OthersHeld, Turn, CrtcStates
<1>2. o.fb = w.video.fb /\ o.rotation = Turn(w, c)
    BY DEF Anew
<1>3. /\ p \in OverlayStates /\ p.fb = o.fb /\ p.rotation = o.rotation /\ p.visible = o.visible
      /\ p.fb_rotated = o.fb_rotated /\ p.old_fb_rotated = o.old_fb_rotated
    BY <1>1, <1>2, Zenon DEF Showing, OverlayStates
<1>4. /\ r.drm = w.drm /\ r.video.overlay[c] = p
      /\ r.video.fb = w.video.fb /\ r.video.old_fb = w.video.old_fb
    BY <1>1, <1>3, WithOverlayFact
<1>5. RotatedHeld(r, c)
    BY <1>1, <1>3, <1>4 DEF RotatedHeld
<1>6. OverlayGood(w, r, c)
    BY <1>1, <1>3, <1>5, OverlayChange, Zenon
<1>7. ASSUME CopyInv(w) PROVE CopyLeft(r, c) /\ OldRight(r, c)
    <2>1. CopyLeft(w, c) /\ OldRight(w, c)
        BY <1>7, CopyParts, Zenon
    <2>2. PlaneOwn(r, c)
        BY <1>3, <1>4, <2>1 DEF CopyLeft, PlaneOwn
    <2>. QED
        BY <1>3, <1>4, <2>1, <2>2, SMTT(20) DEF CopyLeft, OldRight, Image
<1>. QED
    BY <1>1, <1>2, <1>3, <1>4, <1>6, <1>7 DEF OverlayStates


\* A step of the loop that puts the picture on the overlays.
Puts(w, req, ok, q, c, fault) ==
    LET o == w.video.overlay[c]
        p == q.w.video.overlay[c]
    IN  /\ OverlayGood(w, q.w, c)
        /\ q = [w |-> q.w, req |-> q.req, ok |-> q.ok] /\ q.ok \in BOOLEAN
        /\ q.req \in [Crtcs -> Wishes] /\ \A j \in Crtcs \ {c} : q.req[j] = req[j]
        /\ q.req[c] \in {req[c], w.video.fb, p.fb_rotated}
        /\ q.w.drm.plane[c] \in {w.drm.plane[c], 0}
        /\ CopyInv(w) => CopyLeft(q.w, c) /\ OldRight(q.w, c)
        /\ p.visible = o.visible
        /\ q.ok => ok
        /\ q.ok /\ o.visible => p.fb = w.video.fb
        /\ ~o.visible => p = o
        /\ ok /\ fault # "rotated_fb" => q.ok
        /\ ok /\ o.visible /\ Anew(w, c) /\ fault # "rotated_fb" =>
              /\ p.rotation = Turn(w, c) /\ (p.fb_rotated # 0 <=> Turn(w, c) # 0)
              /\ q.req[c] = IF p.fb_rotated # 0 THEN p.fb_rotated ELSE w.video.fb

LEMMA PutsSame ==
    ASSUME NEW w \in Worlds, HeldInv(w), NEW req \in [Crtcs -> Wishes], NEW ok \in BOOLEAN,
           NEW c \in Crtcs, NEW fault, NEW q,
           q = [w |-> q.w, req |-> q.req, ok |-> q.ok], q.ok \in BOOLEAN,
           q.w = w, q.req = req, q.ok => ok,
           q.ok /\ w.video.overlay[c].visible => ~ Anew(w, c),
           ok /\ ~ q.ok => fault = "rotated_fb"
    PROVE  Puts(w, req, ok, q, c, fault)
<1>1. OverlayGood(w, q.w, c)
    BY OverlayFrameFact DEF OverlayGood
<1>2. CopyInv(w) => CopyLeft(q.w, c) /\ OldRight(q.w, c)
    BY CopyParts
<1>3. q.ok /\ w.video.overlay[c].visible => w.video.overlay[c].fb = w.video.fb
    BY DEF Anew
<1>. QED
    BY <1>1, <1>2, <1>3 DEF Puts

\* What was asked for is a framebuffer.
LEMMA AskedFact ==
    ASSUME NEW w \in Worlds, NEW req \in [Crtcs -> Wishes], NEW c \in Crtcs,
           NEW n \in FbOrNone, NEW q, q = Wished(w, req, c, n)
    PROVE  /\ q \in [Crtcs -> Wishes] /\ \A j \in Crtcs \ {c} : q[j] = req[j]
           /\ q[c] = IF n # 0 THEN n ELSE w.video.fb
<1>1. w.video.fb \in FbOrNone
    BY WorldParts DEF Videos
<1>. QED
    BY <1>1 DEF Wishes, Wished

LEMMA PutOne ==
    ASSUME NEW w \in Worlds, HeldInv(w), w.video.fb # 0,
           NEW req \in [Crtcs -> Wishes], NEW ok \in BOOLEAN,
           NEW c \in Crtcs, NEW place \in Places, NEW fault,
           NEW r, r = [w |-> w, req |-> req, ok |-> ok],
           NEW q, q = TegraVideoOverlayPutImageOnOverlay(r, c, place, fault)
    PROVE  Puts(w, req, ok, q, c, fault)
<1>1. PICK o : o = w.video.overlay[c]
    OBVIOUS
<1>2. PICK n : n = IF Turn(w, c) = 0 THEN 0 ELSE NewFb(w.drm, RotatedIds[c])
    OBVIOUS
<1>3. PICK d : d = drm_free_overlay_fb(CopyMade(w, c, Turn(w, c)), o.old_fb_rotated)
    OBVIOUS
<1>4. /\ ~ok \/ ~o.visible => q = r
      /\ ok /\ o.visible /\ Anew(w, c) =>
            \/ RotateRefused(Turn(w, c), fault) /\ q.w = w /\ q.req = req /\ ~ q.ok
            \/ /\ ~ RotateRefused(Turn(w, c), fault) /\ q.ok
               /\ Asked(w, req, q, d, c, place, Recopied(o, n), n)
      /\ ok /\ o.visible /\ ~ Anew(w, c) =>
            q = r \/ (q.ok /\ Asked(w, req, q, w.drm, c, place, o, o.fb_rotated))
      /\ q = [w |-> q.w, req |-> q.req, ok |-> q.ok] /\ q.ok \in BOOLEAN
    BY <1>1, <1>2, <1>3, PutIs
<1>5. CASE q = r /\ ~ (ok /\ o.visible /\ Anew(w, c))
    <2>1. q.w = w /\ q.req = req /\ q.ok = ok
        BY <1>5
    <2>. QED
        BY <1>1, <1>4, <1>5, <2>1, PutsSame
<1>6. CASE ok /\ RotateRefused(Turn(w, c), fault) /\ q.w = w /\ q.req = req /\ ~ q.ok
    <2>1. fault = "rotated_fb"
        BY <1>6, Zenon DEF RotateRefused
    <2>. QED
        BY <1>4, <1>6, <2>1, PutsSame, Zenon
<1>7. CASE /\ ok /\ q.ok /\ o.visible
           /\ Asked(w, req, q, d, c, place, Recopied(o, n), n)
    <2>1. PICK p : p = Showing(Recopied(o, n), w.video.fb, Turn(w, c), place)
        OBVIOUS
    <2>2. q.w = WithOverlay(w, d, c, p) /\ q.req = Wished(w, req, c, n)
        BY <1>7, <2>1, Zenon DEF Asked
    <2>3. /\ OverlayGood(w, q.w, c) /\ q.w.video.overlay[c] = p
          /\ p.fb_rotated = n /\ n \in FbOrNone /\ p.fb = w.video.fb
          /\ p.rotation = Turn(w, c) /\ p.visible = o.visible
          /\ q.w.drm.plane[c] \in {w.drm.plane[c], 0}
          /\ n # 0 <=> Turn(w, c) # 0
          /\ CopyInv(w) => CopyLeft(q.w, c) /\ OldRight(q.w, c)
        BY <1>1, <1>2, <1>3, <2>1, <2>2, PutNew, SMTT(20)
    <2>4. /\ q.req \in [Crtcs -> Wishes] /\ \A j \in Crtcs \ {c} : q.req[j] = req[j]
          /\ q.req[c] = IF n # 0 THEN n ELSE w.video.fb
        BY <2>2, <2>3, AskedFact, SMTT(20)
    <2>. QED
        BY <1>1, <1>4, <1>7, <2>3, <2>4, Zenon DEF Puts
<1>8. CASE /\ ok /\ q.ok /\ o.visible /\ ~ Anew(w, c)
           /\ Asked(w, req, q, w.drm, c, place, o, o.fb_rotated)
    <2>1. PICK p : p = Showing(o, w.video.fb, Turn(w, c), place)
        OBVIOUS
    <2>2. /\ q.w = WithOverlay(w, w.drm, c, p)
          /\ q.req = Wished(w, req, c, o.fb_rotated)
        BY <1>8, <2>1 DEF Asked
    <2>3. /\ OverlayGood(w, q.w, c) /\ q.w.video.overlay[c] = p
          /\ p.fb_rotated = o.fb_rotated /\ o.fb_rotated \in FbOrNone /\ p.fb = w.video.fb
          /\ p.visible = o.visible
          /\ q.w.drm = w.drm
          /\ CopyInv(w) => CopyLeft(q.w, c) /\ OldRight(q.w, c)
        <3>1. PICK x : x = q.w
            OBVIOUS
        <3>2. x = WithOverlay(w, w.drm, c, p) /\ ~ Anew(w, c)
            BY <1>8, <2>2, <3>1
        <3>3. /\ OverlayGood(w, x, c) /\ x.video.overlay[c] = p
              /\ p.fb_rotated = o.fb_rotated /\ o.fb_rotated \in FbOrNone /\ p.fb = w.video.fb
              /\ p.visible = o.visible
              /\ x.drm = w.drm
              /\ CopyInv(w) => CopyLeft(x, c) /\ OldRight(x, c)
            BY <1>1, <2>1, <3>2, PutMoved
        <3>. QED
            BY <3>1, <3>3
    <2>4. PICK m : m = o.fb_rotated
        OBVIOUS
    <2>5. /\ q.req \in [Crtcs -> Wishes] /\ \A j \in Crtcs \ {c} : q.req[j] = req[j]
          /\ q.req[c] = IF m # 0 THEN m ELSE w.video.fb
        BY <2>2, <2>3, <2>4, AskedFact
    <2>. QED
        BY <1>1, <1>4, <1>8, <2>3, <2>4, <2>5, Zenon DEF Puts
<1>. QED
    BY <1>4, <1>5, <1>6, <1>7, <1>8


\* What is asked for is done for each plane.
Wanted(d, req, c) == IF req[c] # NoWish THEN SetPlane(d, c, req[c]) ELSE d

LEMMA WantedFact ==
    ASSUME NEW d \in Drms, NEW req \in [Crtcs -> Wishes], NEW c \in Crtcs,
           NEW r, r = Wanted(d, req, c)
    PROVE  /\ r \in Drms /\ r.fb = d.fb /\ r.bo = d.bo /\ r.scan = d.scan
           /\ \A j \in Crtcs :
                 r.plane[j] = IF j = c /\ req[c] # NoWish THEN req[c] ELSE d.plane[j]
<1>1. CASE req[c] = NoWish
    BY <1>1 DEF Wanted
<1>2. CASE req[c] # NoWish
    <2>1. req[c] \in FbOrNone
        BY <1>2 DEF Wishes
    <2>2. r = SetPlane(d, c, req[c])
        BY <1>2 DEF Wanted
    <2>3. PICK f \in FbOrNone : f = req[c]
        BY <2>1
    <2>. QED
        BY <1>2, <2>2, <2>3, SetPlaneFact
<1>. QED
    BY <1>1, <1>2

LEMMA CommitFact ==
    ASSUME NEW d \in Drms, NEW req \in [Crtcs -> Wishes], NEW r, r = Commit(d, req)
    PROVE  /\ r \in Drms /\ r.fb = d.fb /\ r.bo = d.bo /\ r.scan = d.scan
           /\ \A c \in Crtcs : r.plane[c] = IF req[c] = NoWish THEN d.plane[c] ELSE req[c]
<1>1. CASE Crtcs = {0}
    <2>1. r = Wanted(d, req, 0)
        BY <1>1 DEF Commit, ForEach, Wanted
    <2>. QED
        BY <1>1, <2>1, WantedFact
<1>2. CASE Crtcs = {0, 1}
    <2>1. PICK x : x = Wanted(d, req, 0)
        OBVIOUS
    <2>2. r = Wanted(x, req, 1)
        BY <1>2, <2>1 DEF Commit, ForEach, Wanted
    <2>3. /\ x \in Drms /\ x.fb = d.fb /\ x.bo = d.bo /\ x.scan = d.scan
          /\ \A j \in Crtcs :
                x.plane[j] = IF j = 0 /\ req[0] # NoWish THEN req[0] ELSE d.plane[j]
        BY <1>2, <2>1, WantedFact
    <2>4. /\ r \in Drms /\ r.fb = x.fb /\ r.bo = x.bo /\ r.scan = x.scan
          /\ \A j \in Crtcs :
                r.plane[j] = IF j = 1 /\ req[1] # NoWish THEN req[1] ELSE x.plane[j]
        BY <1>2, <2>2, <2>3, WantedFact, SMTT(20)
    <2>. QED
        BY <1>2, <2>3, <2>4
<1>. QED
    BY <1>1, <1>2, CrtcsFact

\* What the loop comes to; q is its last record.
AllPut(w, q, fault) ==
    /\ VideoGood(w, q.w) /\ SameVideo(w, q.w)
    /\ \A f \in ImageIds : /\ q.w.drm.fb[f] = w.drm.fb[f]
                           /\ w.drm.fb[f] # 0 => Pixels(q.w.drm, f) = Pixels(w.drm, f)
    /\ q.req \in [Crtcs -> Wishes] /\ q.ok \in BOOLEAN
    /\ fault # "rotated_fb" => q.ok
    /\ CopyInv(w) => CopyInv(q.w) /\ \A c \in Crtcs : q.w.drm.plane[c] \in {w.drm.plane[c], 0}
    /\ \A c \in Crtcs :
          LET o == w.video.overlay[c]
              p == q.w.video.overlay[c]
          IN  /\ q.req[c] \in {NoWish, w.video.fb, p.fb_rotated}
              /\ p.visible = o.visible
              /\ q.ok /\ o.visible => p.fb = w.video.fb
              /\ ~o.visible => p = o
              /\ o.visible /\ Anew(w, c) /\ fault # "rotated_fb" =>
                    /\ p.rotation = Turn(w, c) /\ (p.fb_rotated # 0 <=> Turn(w, c) # 0)
                    /\ q.req[c] = IF p.fb_rotated # 0 THEN p.fb_rotated ELSE w.video.fb

NoneAsked == [c \in Crtcs |-> NoWish]

LEMMA PutsOne ==
    ASSUME NEW w, HeldInv(w), NEW c \in Crtcs, Crtcs = {c}, NEW fault,
           NEW q, Puts(w, NoneAsked, TRUE, q, c, fault)
    PROVE  AllPut(w, q, fault)
<1>1. NoneAsked[c] = NoWish
    BY DEF NoneAsked
<1>2. CopyInv(w) => CopyInv(q.w)
    BY CopyParts DEF Puts
<1>3. /\ VideoGood(w, q.w) /\ SameVideo(w, q.w)
      /\ \A f \in ImageIds : /\ q.w.drm.fb[f] = w.drm.fb[f]
                             /\ w.drm.fb[f] # 0 => Pixels(q.w.drm, f) = Pixels(w.drm, f)
    BY Zenon DEF Puts, OverlayGood, OverlayFrame, VideoGood
<1>. QED
    BY <1>1, <1>2, <1>3 DEF AllPut, Puts

LEMMA PutsTwo ==
    ASSUME NEW w, HeldInv(w), NEW c \in Crtcs, NEW j \in Crtcs, j # c, Crtcs = {c, j},
           NEW fault, NEW ok \in BOOLEAN, ok, NEW x, Puts(w, NoneAsked, ok, x, c, fault),
           NEW q, Puts(x.w, x.req, x.ok, q, j, fault)
    PROVE  AllPut(w, q, fault)
<1>0. \A k \in Crtcs : NoneAsked[k] = NoWish
    BY Zenon DEF NoneAsked
<1>1. OverlayGood(w, x.w, c) /\ OverlayGood(x.w, q.w, j)
    BY DEF Puts
<1>2. /\ HeldInv(x.w) /\ HeldInv(q.w) /\ q.w \in Worlds
      /\ OverlayFrame(w, x.w, c) /\ OverlayFrame(x.w, q.w, j)
    BY <1>1 DEF OverlayGood
<1>3. VideoGood(w, q.w)
    BY <1>2, VideoFrameFact DEF OverlayFrame, VideoGood
<1>4. SameVideo(w, q.w) /\ SameVideo(w, x.w)
    BY <1>2 DEF OverlayFrame, SameVideo
<1>5. \A f \in ImageIds : /\ q.w.drm.fb[f] = w.drm.fb[f]
                          /\ w.drm.fb[f] # 0 => Pixels(q.w.drm, f) = Pixels(w.drm, f)
    BY <1>2 DEF OverlayFrame
<1>6. /\ x.w.video.overlay[j] = w.video.overlay[j]
      /\ q.w.video.overlay[c] = x.w.video.overlay[c]
    BY <1>2 DEF OverlayFrame
<1>7. ASSUME CopyInv(w)
      PROVE  CopyInv(q.w) /\ \A k \in Crtcs : q.w.drm.plane[k] \in {w.drm.plane[k], 0}
    <2>1. CopyLeft(w, c) /\ OldRight(w, c) /\ CopyLeft(w, j) /\ OldRight(w, j)
        BY <1>7, CopyParts, Zenon
    <2>2. CopyLeft(x.w, c) /\ OldRight(x.w, c)
        BY <1>7 DEF Puts
    <2>3. CopyLeft(x.w, j) /\ OldRight(x.w, j)
        BY <1>2, <2>1, OverlayFrameCopies
    <2>4. CopyInv(x.w)
        <3>1. \A k \in Crtcs : CopyLeft(x.w, k) /\ OldRight(x.w, k)
            BY <2>2, <2>3, Zenon
        <3>. QED
            BY <3>1, CopyParts
    <2>5. CopyLeft(q.w, c) /\ OldRight(q.w, c)
        BY <1>2, <2>2, OverlayFrameCopies, Zenon
    <2>6. CopyLeft(q.w, j) /\ OldRight(q.w, j)
        BY <2>4 DEF Puts
    <2>7. CopyInv(q.w)
        <3>1. \A k \in Crtcs : CopyLeft(q.w, k) /\ OldRight(q.w, k)
            BY <2>5, <2>6
        <3>. QED
            BY <3>1, CopyParts
    <2>8. x.w.drm.plane[j] = w.drm.plane[j] /\ q.w.drm.plane[c] = x.w.drm.plane[c]
        <3>1. w.drm.plane[j] \notin RotatedIds[c] /\ x.w.drm.plane[c] \notin RotatedIds[j]
            BY <1>2, <2>1, <2>2, PlaneElsewhere, Zenon DEF CopyLeft
        <3>. QED
            BY <1>2, <3>1 DEF OverlayFrame
    <2>9. q.w.drm.plane[c] \in {w.drm.plane[c], 0} /\ q.w.drm.plane[j] \in {w.drm.plane[j], 0}
        BY <2>8 DEF Puts
    <2>. QED
        BY <2>7, <2>9, Zenon
<1>8. x.w.mode = w.mode
    BY <1>2, Zenon DEF OverlayFrame, VideoFrame
<1>9. Turn(x.w, j) = Turn(w, j) /\ (Anew(x.w, j) <=> Anew(w, j)) /\ x.w.video.fb = w.video.fb
    BY <1>4, <1>6, <1>8, Zenon DEF Turn, Anew, SameVideo
<1>10. /\ q.req \in [Crtcs -> Wishes] /\ q.ok \in BOOLEAN
       /\ fault # "rotated_fb" => x.ok /\ q.ok
       /\ q.ok => x.ok
       /\ q.req[c] = x.req[c] /\ x.req[j] = NoWish
    BY <1>0, Zenon DEF Puts
<1>11. LET o == w.video.overlay[c]
           p == q.w.video.overlay[c]
       IN  /\ q.req[c] \in {NoWish, w.video.fb, p.fb_rotated}
           /\ p.visible = o.visible
           /\ q.ok /\ o.visible => p.fb = w.video.fb
           /\ ~o.visible => p = o
           /\ o.visible /\ Anew(w, c) /\ fault # "rotated_fb" =>
                 /\ p.rotation = Turn(w, c) /\ (p.fb_rotated # 0 <=> Turn(w, c) # 0)
                 /\ q.req[c] = IF p.fb_rotated # 0 THEN p.fb_rotated ELSE w.video.fb
    BY <1>0, <1>6, <1>10, ZenonT(40) DEF Puts
<1>12. LET o == w.video.overlay[j]
           p == q.w.video.overlay[j]
       IN  /\ q.req[j] \in {NoWish, w.video.fb, p.fb_rotated}
           /\ p.visible = o.visible
           /\ q.ok /\ o.visible => p.fb = w.video.fb
           /\ ~o.visible => p = o
           /\ o.visible /\ Anew(w, j) /\ fault # "rotated_fb" =>
                 /\ p.rotation = Turn(w, j) /\ (p.fb_rotated # 0 <=> Turn(w, j) # 0)
                 /\ q.req[j] = IF p.fb_rotated # 0 THEN p.fb_rotated ELSE w.video.fb
    BY <1>6, <1>9, <1>10 DEF Puts
<1>13. \A k \in Crtcs : k = c \/ k = j
    OBVIOUS
<1>. QED
    BY <1>3, <1>4, <1>5, <1>7, <1>10, <1>11, <1>12, <1>13, ZenonT(40) DEF AllPut

PutsAll(w, place, fault) ==
    ForEach(Crtcs, LAMBDA acc, c :
                       TegraVideoOverlayPutImageOnOverlay(acc, c, place, fault),
            [w |-> w, req |-> NoneAsked, ok |-> TRUE])

LEMMA PutsFact ==
    ASSUME NEW w \in Worlds, HeldInv(w), w.video.fb # 0, NEW place \in Places, NEW fault,
           NEW q, q = PutsAll(w, place, fault)
    PROVE  AllPut(w, q, fault)
<1>0. NoneAsked \in [Crtcs -> Wishes]
    BY DEF NoneAsked, Wishes
<1>1. PICK ok \in BOOLEAN : ok = TRUE
    BY Zenon
<1>2. PICK a : a = [w |-> w, req |-> NoneAsked, ok |-> ok]
    BY Zenon
<1>3. CASE Crtcs = {0}
    <2>1. q = TegraVideoOverlayPutImageOnOverlay(a, 0, place, fault)
        BY <1>1, <1>2, <1>3 DEF PutsAll, ForEach
    <2>2. Puts(w, NoneAsked, ok, q, 0, fault)
        BY <1>0, <1>2, <1>3, <2>1, PutOne
    <2>. QED
        BY <1>1, <1>3, <2>2, PutsOne, Zenon
<1>4. CASE Crtcs = {0, 1}
    <2>1. PICK x : x = TegraVideoOverlayPutImageOnOverlay(a, 0, place, fault)
        OBVIOUS
    <2>2. q = TegraVideoOverlayPutImageOnOverlay(x, 1, place, fault)
        BY <1>1, <1>2, <1>4, <2>1, Zenon DEF PutsAll, ForEach
    <2>3. Puts(w, NoneAsked, ok, x, 0, fault)
        BY <1>0, <1>2, <1>4, <2>1, PutOne, Zenon
    <2>4. /\ x = [w |-> x.w, req |-> x.req, ok |-> x.ok] /\ x.req \in [Crtcs -> Wishes]
          /\ x.ok \in BOOLEAN /\ x.w \in Worlds /\ HeldInv(x.w) /\ x.w.video.fb # 0
        BY <2>3 DEF Puts, OverlayGood, OverlayFrame, SameVideo
    <2>5. PICK y : y = x.w
        OBVIOUS
    <2>6. PICK req : req = x.req
        OBVIOUS
    <2>7. PICK up : up = x.ok
        OBVIOUS
    <2>8. Puts(y, req, up, q, 1, fault)
        BY <1>4, <2>2, <2>4, <2>5, <2>6, <2>7, PutOne
    <2>9. Puts(x.w, x.req, x.ok, q, 1, fault)
        BY <2>5, <2>6, <2>7, <2>8
    <2>. QED
        <3>1. 0 \in Crtcs /\ 1 \in Crtcs /\ 1 # 0
            BY <1>4
        <3>2. ok
            BY <1>1
        <3>. QED
            BY <1>4, <2>3, <2>9, <3>1, <3>2, PutsTwo, Zenon
<1>. QED
    BY <1>3, <1>4, CrtcsFact


\* The kernel is asked, and answers.
Answered(q, fault) == q.ok /\ ~ (q.req # NoneAsked /\ fault = "commit")

LEMMA OnOverlaysIs ==
    ASSUME NEW w, NEW place, NEW fault,
           NEW q, q = PutsAll(w, place, fault), q.w \in Worlds, q.ok \in BOOLEAN,
           NEW ok, ok = Answered(q, fault),
           NEW r, r = TegraVideoOverlayPutImageOnOverlays(w, place, fault)
    PROVE  r = [drm   |-> IF ok THEN Commit(q.w.drm, q.req) ELSE q.w.drm,
                mode  |-> q.w.mode,
                video |-> [q.w.video EXCEPT !.success = ok]]
<1>. DEFINE x == [q.w EXCEPT !.video.success = ok]
            d == IF ok THEN Commit(q.w.drm, q.req) ELSE q.w.drm
<1>1. r = [q.w EXCEPT !.video.success = ok, !.drm = IF ok THEN Commit(@, q.req) ELSE @]
    BY Zenon DEF TegraVideoOverlayPutImageOnOverlays, PutsAll, Answered, NoneAsked
<1>2. q.w = [drm |-> q.w.drm, mode |-> q.w.mode, video |-> q.w.video]
    BY WorldParts
<1>3. x = [drm |-> q.w.drm, mode |-> q.w.mode, video |-> [q.w.video EXCEPT !.success = ok]]
    BY <1>2
<1>4. r = [x EXCEPT !.drm = d]
    BY <1>1
<1>. HIDE DEF x, d
<1>5. r = [drm |-> d, mode |-> q.w.mode, video |-> [q.w.video EXCEPT !.success = ok]]
    BY <1>3, <1>4
<1>. QED
    BY <1>5 DEF d

\* The overlays have been asked to show the picture.
OverlaysPut(w, r, fault) ==
    /\ VideoGood(w, r)
    /\ r.video.fb = w.video.fb /\ r.video.old_fb = w.video.old_fb
    /\ r.video.port = w.video.port /\ r.video.success \in BOOLEAN
    /\ w.video.fb # 0 => Pixels(r.drm, w.video.fb) = Pixels(w.drm, w.video.fb)
    /\ fault \notin {"rotated_fb", "commit"} => r.video.success
    /\ CopyInv(w) =>
          /\ CopyInv(r)
          /\ ~ r.video.success => \A c \in Crtcs : r.drm.plane[c] \in {w.drm.plane[c], 0}
    /\ \A c \in Crtcs :
          LET o == w.video.overlay[c]
              p == r.video.overlay[c]
          IN  /\ p.visible = o.visible
              /\ fault # "rotated_fb" /\ o.visible => p.fb = w.video.fb
              /\ ~o.visible => p = o
              /\ o.visible /\ Anew(w, c) /\ fault # "rotated_fb" /\ r.video.success =>
                    /\ p.rotation = Turn(w, c) /\ (p.fb_rotated # 0 <=> Turn(w, c) # 0)
                    /\ r.drm.plane[c] = IF p.fb_rotated # 0 THEN p.fb_rotated ELSE w.video.fb

\* Planes and answers change nothing that is held.
LEMMA PlaneChange ==
    ASSUME NEW x \in Worlds, HeldInv(x), NEW d \in Drms,
           d.fb = x.drm.fb, d.bo = x.drm.bo, d.scan = x.drm.scan,
           NEW v \in Videos, v.fb = x.video.fb, v.old_fb = x.video.old_fb,
           v.overlay = x.video.overlay,
           NEW r, r = [drm |-> d, mode |-> x.mode, video |-> v]
    PROVE  /\ VideoGood(x, r)
           /\ CopyInv(x) /\ (\A c \in Crtcs : PlaneOwn(r, c)) => CopyInv(r)
<1>1. r \in Worlds
    BY WorldParts DEF Worlds
<1>2. Refs(r.drm)
    BY Zenon DEF HeldInv, OthersHeld, Refs
<1>3. HeldInv(r)
    BY <1>2 DEF HeldInv, FrontHeld, OthersHeld, ImagesHeld, ShadowHeld, RotatedHeld
<1>4. VideoFrame(x, r)
    BY DEF VideoFrame
<1>5. ASSUME CopyInv(x), \A c \in Crtcs : PlaneOwn(r, c)
      PROVE  CopyInv(r)
    <2>1. \A f : Pixels(r.drm, f) = Pixels(x.drm, f)
        BY DEF Pixels
    <2>2. ASSUME NEW c \in Crtcs PROVE CopyRight(r, c)
        <3>1. CopyRight(x, c)
            BY <1>5 DEF CopyInv
        <3>2. /\ r.video.overlay[c] = x.video.overlay[c]
              /\ r.video.fb = x.video.fb /\ r.video.old_fb = x.video.old_fb
            OBVIOUS
        <3>. QED
            BY <2>1, <3>1, <3>2 DEF CopyRight, Image
    <2>. QED
        BY <1>5, <2>2 DEF CopyInv
<1>. QED
    BY <1>1, <1>3, <1>4, <1>5 DEF VideoGood

LEMMA OnOverlaysFact ==
    ASSUME NEW w \in Worlds, HeldInv(w), w.video.fb # 0, NEW place \in Places, NEW fault,
           NEW r, r = TegraVideoOverlayPutImageOnOverlays(w, place, fault)
    PROVE  OverlaysPut(w, r, fault)
<1>1. PICK q : q = PutsAll(w, place, fault)
    OBVIOUS
<1>2. AllPut(w, q, fault)
    BY <1>1, PutsFact
<1>3. PICK x : x = q.w
    BY Zenon
<1>4. /\ x \in Worlds /\ HeldInv(x) /\ VideoFrame(w, x) /\ SameVideo(w, x)
      /\ x.drm \in Drms /\ x.video \in Videos
      /\ q.ok \in BOOLEAN /\ q.req \in [Crtcs -> Wishes]
    BY <1>2, <1>3, WorldParts DEF AllPut, VideoGood
<1>5. PICK ok \in BOOLEAN : ok = Answered(q, fault)
    BY <1>4, Zenon DEF Answered
<1>6. PICK d : d = IF ok THEN Commit(x.drm, q.req) ELSE x.drm
    OBVIOUS
<1>7. PICK v : v = [x.video EXCEPT !.success = ok]
    BY Zenon
<1>8. r = [drm |-> d, mode |-> x.mode, video |-> v]
    BY <1>1, <1>3, <1>4, <1>5, <1>6, <1>7, OnOverlaysIs
<1>9. /\ v \in Videos /\ v.fb = x.video.fb /\ v.old_fb = x.video.old_fb
      /\ v.overlay = x.video.overlay /\ v.port = x.video.port /\ v.success = ok
    BY <1>4, <1>7 DEF Videos
<1>10. /\ d \in Drms /\ d.fb = x.drm.fb /\ d.bo = x.drm.bo /\ d.scan = x.drm.scan
       /\ \A c \in Crtcs : d.plane[c] = IF ok /\ q.req[c] # NoWish THEN q.req[c] ELSE x.drm.plane[c]
    <2>1. CASE ok
        BY <1>4, <1>6, <2>1, CommitFact
    <2>2. CASE ~ok
        BY <1>4, <1>6, <2>2
    <2>. QED
        BY <2>1, <2>2
<1>11. /\ VideoGood(x, r)
       /\ CopyInv(x) /\ (\A c \in Crtcs : PlaneOwn(r, c)) => CopyInv(r)
    BY <1>4, <1>8, <1>9, <1>10, PlaneChange
<1>12. VideoGood(w, r)
    BY <1>4, <1>11, VideoFrameFact DEF VideoGood
<1>13. /\ r.drm = d /\ r.video = v /\ x.video.fb = w.video.fb
       /\ x.video.old_fb = w.video.old_fb /\ x.video.port = w.video.port
    BY <1>4, <1>8 DEF SameVideo
<1>14. Pixels(r.drm, w.video.fb) = Pixels(w.drm, w.video.fb)
    <2>1. w.video.fb \in ImageIds /\ w.drm.fb[w.video.fb] # 0
        BY DEF HeldInv, OthersHeld, ImagesHeld
    <2>2. Pixels(x.drm, w.video.fb) = Pixels(w.drm, w.video.fb)
        BY <1>2, <1>3, <2>1, Zenon DEF AllPut
    <2>3. Pixels(d, w.video.fb) = Pixels(x.drm, w.video.fb)
        BY <1>10, Zenon DEF Pixels
    <2>. QED
        BY <1>13, <2>2, <2>3
<1>15. fault \notin {"rotated_fb", "commit"} => ok
    BY <1>2, <1>5 DEF AllPut, Answered
<1>16. ASSUME CopyInv(w)
       PROVE  CopyInv(r) /\ (~ok => \A c \in Crtcs : d.plane[c] \in {w.drm.plane[c], 0})
    <2>1. CopyInv(x) /\ \A c \in Crtcs : x.drm.plane[c] \in {w.drm.plane[c], 0}
        BY <1>2, <1>3, <1>16 DEF AllPut
    <2>2. ASSUME NEW c \in Crtcs PROVE PlaneOwn(r, c)
        <3>1. PlaneOwn(x, c)
            BY <2>1 DEF CopyInv
        <3>2. /\ r.video.fb = x.video.fb /\ r.video.old_fb = x.video.old_fb
              /\ r.video.overlay[c] = x.video.overlay[c]
            BY <1>9, <1>13, Zenon
        <3>3. q.req[c] \in {NoWish, x.video.fb, x.video.overlay[c].fb_rotated}
            BY <1>2, <1>3, <1>13 DEF AllPut
        <3>4. r.drm.plane[c] = IF ok /\ q.req[c] # NoWish THEN q.req[c] ELSE x.drm.plane[c]
            BY <1>10, <1>13
        <3>. QED
            BY <3>1, <3>2, <3>3, <3>4 DEF PlaneOwn
    <2>3. ~ok => \A c \in Crtcs : d.plane[c] \in {w.drm.plane[c], 0}
        BY <1>10, <2>1
    <2>. QED
        BY <1>11, <2>1, <2>2, <2>3
<1>17. ASSUME NEW c \in Crtcs
       PROVE  LET o == w.video.overlay[c]
                  p == r.video.overlay[c]
              IN  /\ p.visible = o.visible
                  /\ fault # "rotated_fb" /\ o.visible => p.fb = w.video.fb
                  /\ ~o.visible => p = o
                  /\ o.visible /\ Anew(w, c) /\ fault # "rotated_fb" /\ r.video.success =>
                        /\ p.rotation = Turn(w, c) /\ (p.fb_rotated # 0 <=> Turn(w, c) # 0)
                        /\ r.drm.plane[c] = IF p.fb_rotated # 0 THEN p.fb_rotated ELSE w.video.fb
    <2>1. r.video.overlay[c] = x.video.overlay[c] /\ r.video.success = ok
        BY <1>9, <1>13
    <2>2. r.drm.plane[c] = IF ok /\ q.req[c] # NoWish THEN q.req[c] ELSE x.drm.plane[c]
        BY <1>10, <1>13
    <2>3. /\ x.video.overlay[c].fb_rotated \in FbOrNone /\ w.video.fb \in FbOrNone
          /\ NoWish \notin FbOrNone
        BY <1>4, WorldParts, IdsFact, SMTT(20) DEF Videos, OverlayStates, FbOrNone, NoWish
    <2>4. /\ x.video.overlay[c].visible = w.video.overlay[c].visible
          /\ fault # "rotated_fb" => q.ok
          /\ q.ok /\ w.video.overlay[c].visible => x.video.overlay[c].fb = w.video.fb
          /\ ~ w.video.overlay[c].visible => x.video.overlay[c] = w.video.overlay[c]
          /\ w.video.overlay[c].visible /\ Anew(w, c) /\ fault # "rotated_fb" =>
                /\ x.video.overlay[c].rotation = Turn(w, c)
                /\ x.video.overlay[c].fb_rotated # 0 <=> Turn(w, c) # 0
                /\ q.req[c] = IF x.video.overlay[c].fb_rotated # 0
                              THEN x.video.overlay[c].fb_rotated ELSE w.video.fb
        BY <1>2, <1>3 DEF AllPut
    <2>. QED
        BY <2>1, <2>2, <2>3, <2>4
<1>18. r.video.success = ok /\ r.video.port = w.video.port
       /\ r.video.fb = w.video.fb /\ r.video.old_fb = w.video.old_fb
    BY <1>9, <1>13
<1>. QED
    BY <1>12, <1>13, <1>14, <1>15, <1>16, <1>17, <1>18 DEF OverlaysPut



-----------------------------------------------------------------------------
(* The last picture goes.                                                  *)

DestroyOldImage(w) ==
    [w EXCEPT !.drm = drm_free_overlay_fb(@, w.video.old_fb), !.video.old_fb = 0]

LEMMA DestroyOldImageIs ==
    ASSUME NEW w \in Worlds, NEW d, d = drm_free_overlay_fb(w.drm, w.video.old_fb),
           NEW v, v = [w.video EXCEPT !.old_fb = 0],
           NEW r, r = DestroyOldImage(w)
    PROVE  r = [drm |-> d, mode |-> w.mode, video |-> v]
<1>. DEFINE x == [w EXCEPT !.drm = d]
<1>1. x = [drm |-> d, mode |-> w.mode, video |-> w.video]
    BY WithDrmFact
<1>2. r = [x EXCEPT !.video.old_fb = 0]
    BY DEF DestroyOldImage
<1>. HIDE DEF x
<1>. QED
    BY <1>1, <1>2

\* No overlay shows the last picture, as far as the driver knows.
Forgotten(w) == \A c \in Crtcs : w.video.overlay[c].fb \in {0, w.video.fb}

LEMMA OldImageGone ==
    ASSUME NEW w \in Worlds, HeldInv(w), NEW r, r = DestroyOldImage(w)
    PROVE  /\ VideoGood(w, r) /\ r.video.old_fb = 0 /\ r.video.fb = w.video.fb
           /\ r.video.overlay = w.video.overlay
           /\ r.video.port = w.video.port /\ r.video.success = w.video.success
           /\ w.video.fb # 0 => Pixels(r.drm, w.video.fb) = Pixels(w.drm, w.video.fb)
           /\ CopyInv(w) /\ Forgotten(w) => \A c \in Crtcs : CopyLeft(r, c)
           /\ \A c \in Crtcs :
                 r.drm.plane[c] = IF w.drm.plane[c] = w.video.old_fb THEN 0 ELSE w.drm.plane[c]
<1>1. w.drm \in Drms /\ Refs(w.drm) /\ w.video \in Videos /\ ImagesHeld(w)
    BY WorldParts DEF HeldInv, OthersHeld
<1>2. PICK f : f = w.video.old_fb
    OBVIOUS
<1>3. PICK d : d = drm_free_overlay_fb(w.drm, f)
    OBVIOUS
<1>4. PICK v : v = [w.video EXCEPT !.old_fb = 0]
    BY Zenon
<1>5. r = [drm |-> d, mode |-> w.mode, video |-> v]
    BY <1>2, <1>3, <1>4, DestroyOldImageIs
<1>6. /\ v \in Videos /\ v.fb = w.video.fb /\ v.old_fb = 0 /\ v.overlay = w.video.overlay
      /\ v.port = w.video.port /\ v.success = w.video.success
    BY <1>1, <1>4 DEF Videos, FbOrNone
<1>7. f \in ImageIds \cup {0} /\ (f # 0 => w.drm.fb[f] # 0) /\ 0 \notin Fbs /\ ImageIds \subseteq Fbs
    BY <1>1, <1>2, IdsFact, Zenon DEF ImagesHeld
<1>8. d \in Drms /\ Refs(d) /\ Gone(w.drm, d, f)
    <2>1. f \in FbOrNone
        BY <1>7 DEF FbOrNone
    <2>. QED
        BY <1>1, <1>3, <1>7, <2>1, FreeOverlayFact
<1>9. r.drm = d /\ r.video = v
    BY <1>5
<1>10. ImagesHeld(r)
    <2>1. \A g \in ImageIds : d.fb[g] = IF g = f THEN 0 ELSE w.drm.fb[g]
        BY <1>7, <1>8 DEF Gone
    <2>2. \A g \in ImageIds : d.fb[g] \in ImageIds \cup {0} /\ (d.fb[g] # 0 <=> g = w.video.fb)
        BY <1>1, <1>2, <1>7, <2>1 DEF ImagesHeld
    <2>. QED
        BY <1>1, <1>6, <1>7, <1>9, <2>2 DEF ImagesHeld
<1>11. VideoGood(w, r)
    <2>1. \A g \in Fbs \ ImageIds : d.fb[g] = w.drm.fb[g]
        BY <1>7, <1>8 DEF Gone
    <2>2. \A j \in Crtcs : w.drm.scan[j] \notin ImageIds => d.scan[j] = w.drm.scan[j]
        BY <1>7, <1>8 DEF Gone
    <2>. QED
        BY <1>1, <1>5, <1>6, <1>8, <1>10, <2>1, <2>2, ImageChange
<1>12. \A c \in Crtcs :
          r.drm.plane[c] = IF w.drm.plane[c] = w.video.old_fb THEN 0 ELSE w.drm.plane[c]
    BY <1>2, <1>8, <1>9 DEF Gone
<1>13. w.video.fb # 0 => Pixels(r.drm, w.video.fb) = Pixels(w.drm, w.video.fb)
    BY <1>1, <1>2, <1>7, <1>8, <1>9 DEF Gone, ImagesHeld
<1>14. ASSUME CopyInv(w), Forgotten(w), NEW c \in Crtcs
       PROVE  CopyLeft(r, c)
    <2>. DEFINE o == w.video.overlay[c]
                g == o.fb_rotated
    <2>1. /\ PlaneOwn(w, c) /\ o.fb \in {0, w.video.fb} /\ (g # 0 => o.fb # 0)
          /\ g # 0 /\ o.fb = w.video.fb =>
                Pixels(w.drm, g) = Picture(Image(w, w.video.fb), o.rotation)
        BY <1>14 DEF CopyInv, CopyRight, Forgotten
    <2>2. /\ r.video.overlay[c] = o /\ r.video.fb = w.video.fb /\ r.video.old_fb = 0
        BY <1>6, <1>9
    <2>3. PlaneOwn(r, c)
        <3>1. r.drm.plane[c] \in {0, w.video.fb, g, o.old_fb_rotated}
            BY <1>12, <2>1, Zenon DEF PlaneOwn
        <3>. QED
            BY <2>2, <3>1 DEF PlaneOwn
    <2>4. ASSUME g # 0 PROVE Pixels(r.drm, g) = Pixels(w.drm, g)
        <3>1. RotatedHeld(w, c)
            BY DEF HeldInv, OthersHeld
        <3>2. g \in RotatedIds[c] /\ w.drm.fb[g] # 0
            BY <2>4, <3>1 DEF RotatedHeld
        <3>3. g \in Fbs \ {f}
            BY <1>7, <3>2, ClassFact, IdsFact
        <3>. QED
            BY <1>8, <1>9, <3>2, <3>3 DEF Gone
    <2>5. g # 0 /\ o.fb = w.video.fb => Image(r, w.video.fb) = Image(w, w.video.fb)
        BY <1>13, <2>1 DEF Image
    <2>6. r.video.overlay[c].fb = o.fb /\ r.video.overlay[c].fb_rotated = g
          /\ r.video.overlay[c].rotation = o.rotation
        BY <2>2
    <2>. HIDE DEF o, g
    <2>. QED
        BY <2>1, <2>2, <2>3, <2>4, <2>5, <2>6 DEF CopyLeft
<1>. QED
    BY <1>6, <1>9, <1>11, <1>12, <1>13, <1>14

\* And then the copies of it.
OldGone(w, r, c) ==
    LET o == w.video.overlay[c]
        p == r.video.overlay[c]
    IN  /\ OverlayGood(w, r, c)
        /\ p.fb = o.fb /\ p.fb_rotated = o.fb_rotated /\ p.old_fb_rotated = 0
        /\ p.rotation = o.rotation /\ p.visible = o.visible
        /\ r.drm.plane[c] = IF w.drm.plane[c] = o.old_fb_rotated THEN 0 ELSE w.drm.plane[c]
        /\ CopyLeft(w, c) => CopyLeft(r, c)

LEMMA OldRotatedGone ==
    ASSUME NEW w \in Worlds, HeldInv(w), NEW c \in Crtcs, NEW r, r = DestroyOldRotated(w, c)
    PROVE  OldGone(w, r, c)
<1>1. PICK o : o = w.video.overlay[c]
    OBVIOUS
<1>2. /\ w.drm \in Drms /\ Refs(w.drm) /\ o \in OverlayStates /\ RotatedHeld(w, c) /\ ImagesHeld(w)
    BY <1>1, WorldParts DEF HeldInv, OthersHeld
<1>3. PICK f : f = o.old_fb_rotated
    OBVIOUS
<1>4. PICK d : d = drm_free_overlay_fb(w.drm, f)
    OBVIOUS
<1>5. PICK p : p = [o EXCEPT !.old_fb_rotated = 0]
    BY Zenon
<1>6. r = WithOverlay(w, d, c, p)
    <2>1. r = [w EXCEPT !.drm = d, !.video.overlay[c] = p]
        BY <1>1, <1>3, <1>4, <1>5 DEF DestroyOldRotated
    <2>. QED
        BY <2>1, WithOverlayIs, Zenon
<1>7. /\ p \in OverlayStates /\ p.fb = o.fb /\ p.fb_rotated = o.fb_rotated
      /\ p.old_fb_rotated = 0 /\ p.rotation = o.rotation /\ p.visible = o.visible
    BY <1>2, <1>5 DEF OverlayStates, FbOrNone
<1>8. /\ f \in RotatedIds[c] \cup {0} /\ (f # 0 => w.drm.fb[f] # 0)
      /\ 0 \notin Fbs /\ RotatedIds[c] \subseteq Fbs
    BY <1>1, <1>2, <1>3, IdsFact DEF RotatedHeld
<1>9. d \in Drms /\ Refs(d) /\ Gone(w.drm, d, f)
    <2>1. f \in FbOrNone
        BY <1>8 DEF FbOrNone
    <2>. QED
        BY <1>2, <1>4, <1>8, <2>1, FreeOverlayFact
<1>10. /\ r.drm = d /\ r.video.overlay[c] = p
       /\ r.video.fb = w.video.fb /\ r.video.old_fb = w.video.old_fb
    BY <1>6, <1>7, <1>9, WithOverlayFact
<1>11. RotatedHeld(r, c)
    <2>1. \A g \in RotatedIds[c] : d.fb[g] = IF g = f THEN 0 ELSE w.drm.fb[g]
        BY <1>8, <1>9 DEF Gone
    <2>2. /\ o.fb_rotated \in RotatedIds[c] \cup {0}
          /\ o.fb_rotated = f => o.fb_rotated = 0
          /\ \A g \in RotatedIds[c] : /\ w.drm.fb[g] \in RotatedBos \cup {0}
                                      /\ w.drm.fb[g] # 0 <=> g \in {o.fb_rotated, f}
        BY <1>1, <1>2, <1>3 DEF RotatedHeld
    <2>3. \A g \in RotatedIds[c] : /\ d.fb[g] \in RotatedBos \cup {0}
                                   /\ d.fb[g] # 0 <=> g \in {o.fb_rotated, 0}
        BY <1>8, <2>1, <2>2
    <2>. QED
        BY <1>7, <1>10, <2>2, <2>3 DEF RotatedHeld
<1>12. OverlayGood(w, r, c)
    <2>1. \A g \in Fbs \ RotatedIds[c] :
             d.fb[g] = w.drm.fb[g] /\ (w.drm.fb[g] # 0 => Pixels(d, g) = Pixels(w.drm, g))
        BY <1>8, <1>9 DEF Gone
    <2>2. \A j \in Crtcs : /\ d.scan[j] = IF w.drm.scan[j] = f THEN 0 ELSE w.drm.scan[j]
                           /\ d.plane[j] = IF w.drm.plane[j] = f THEN 0 ELSE w.drm.plane[j]
        BY <1>9 DEF Gone
    <2>3. \A j \in Crtcs : w.drm.scan[j] \notin RotatedIds[c] => d.scan[j] = w.drm.scan[j]
        BY <1>8, <2>2
    <2>4. \A j \in Crtcs : w.drm.plane[j] \notin RotatedIds[c] => d.plane[j] = w.drm.plane[j]
        BY <1>8, <2>2
    <2>. QED
        BY <1>6, <1>7, <1>9, <1>11, <2>1, <2>3, <2>4, OverlayChange
<1>13. r.drm.plane[c] = IF w.drm.plane[c] = f THEN 0 ELSE w.drm.plane[c]
    BY <1>9, <1>10 DEF Gone
<1>14. ASSUME CopyLeft(w, c) PROVE CopyLeft(r, c)
    <2>1. PlaneOwn(r, c)
        <3>1. w.drm.plane[c] \in {0, w.video.fb, w.video.old_fb, o.fb_rotated, f}
            BY <1>1, <1>3, <1>14 DEF CopyLeft, PlaneOwn
        <3>2. r.drm.plane[c] \in {0, w.video.fb, w.video.old_fb, o.fb_rotated}
            BY <1>13, <3>1
        <3>3. r.video.overlay[c].fb_rotated = o.fb_rotated
            BY <1>7, <1>10
        <3>. QED
            BY <1>10, <3>2, <3>3 DEF PlaneOwn
    <2>2. o.fb_rotated # 0 => Pixels(r.drm, o.fb_rotated) = Pixels(w.drm, o.fb_rotated)
        BY <1>1, <1>2, <1>3, <1>8, <1>9, <1>10 DEF RotatedHeld, Gone
    <2>3. w.video.fb # 0 => Image(r, w.video.fb) = Image(w, w.video.fb)
        BY <1>2, <1>12 DEF OverlayGood, OverlayFrame, ImagesHeld, Image
    <2>4. /\ o.fb \in {0, w.video.fb, w.video.old_fb} /\ (o.fb_rotated # 0 => o.fb # 0)
          /\ o.fb_rotated # 0 /\ o.fb = w.video.fb =>
                Pixels(w.drm, o.fb_rotated) = Picture(Image(w, w.video.fb), o.rotation)
        BY <1>1, <1>14 DEF CopyLeft
    <2>5. /\ r.video.overlay[c].fb = o.fb /\ r.video.overlay[c].fb_rotated = o.fb_rotated
          /\ r.video.overlay[c].rotation = o.rotation
        BY <1>7, <1>10
    <2>. QED
        BY <1>10, <2>1, <2>2, <2>3, <2>4, <2>5 DEF CopyLeft
<1>. QED
    BY <1>1, <1>3, <1>7, <1>10, <1>12, <1>13, <1>14 DEF OldGone


\* What the loop comes to.
Cleared(w, r) ==
    /\ VideoGood(w, r) /\ SameVideo(w, r)
    /\ \A f \in ImageIds : w.drm.fb[f] # 0 => Pixels(r.drm, f) = Pixels(w.drm, f)
    /\ (\A c \in Crtcs : CopyLeft(w, c)) =>
          /\ CopyInv(r)
          /\ \A c \in Crtcs :
                r.drm.plane[c] = IF w.drm.plane[c] = w.video.overlay[c].old_fb_rotated
                                 THEN 0 ELSE w.drm.plane[c]
    /\ \A c \in Crtcs :
          LET o == w.video.overlay[c]
              p == r.video.overlay[c]
          IN  /\ p.fb = o.fb /\ p.fb_rotated = o.fb_rotated
              /\ p.rotation = o.rotation /\ p.visible = o.visible

LEMMA OldGoneCopies ==
    ASSUME NEW w, NEW c \in Crtcs, NEW r, OldGone(w, r, c), CopyLeft(w, c)
    PROVE  CopyLeft(r, c) /\ OldRight(r, c)
<1>1. CopyLeft(r, c) /\ r.video.overlay[c].old_fb_rotated = 0
    BY DEF OldGone
<1>. QED
    BY <1>1 DEF OldRight

LEMMA ClearedOne ==
    ASSUME NEW w, NEW c \in Crtcs, Crtcs = {c}, NEW r, OldGone(w, r, c)
    PROVE  Cleared(w, r)
<1>1. OverlayGood(w, r, c)
    BY DEF OldGone
<1>2. /\ VideoGood(w, r) /\ SameVideo(w, r)
      /\ \A f \in ImageIds : w.drm.fb[f] # 0 => Pixels(r.drm, f) = Pixels(w.drm, f)
    BY <1>1 DEF OverlayGood, OverlayFrame, VideoGood
<1>3. CopyLeft(w, c) => CopyInv(r)
    BY OldGoneCopies, CopyParts
<1>. QED
    BY <1>2, <1>3 DEF Cleared, OldGone

LEMMA ClearedTwo ==
    ASSUME NEW w, HeldInv(w), NEW c \in Crtcs, NEW j \in Crtcs, j # c, Crtcs = {c, j},
           NEW x, OldGone(w, x, c), NEW r, OldGone(x, r, j)
    PROVE  Cleared(w, r)
<1>1. OverlayGood(w, x, c) /\ OverlayGood(x, r, j)
    BY DEF OldGone
<1>2. /\ HeldInv(x) /\ HeldInv(r) /\ r \in Worlds
      /\ OverlayFrame(w, x, c) /\ OverlayFrame(x, r, j)
    BY <1>1 DEF OverlayGood
<1>3. VideoGood(w, r)
    BY <1>2, VideoFrameFact DEF OverlayFrame, VideoGood
<1>4. SameVideo(w, r)
    BY <1>2 DEF OverlayFrame, SameVideo
<1>5. \A f \in ImageIds : w.drm.fb[f] # 0 => Pixels(r.drm, f) = Pixels(w.drm, f)
    BY <1>2 DEF OverlayFrame
<1>6. x.video.overlay[j] = w.video.overlay[j] /\ r.video.overlay[c] = x.video.overlay[c]
    BY <1>2 DEF OverlayFrame
<1>7. ASSUME \A k \in Crtcs : CopyLeft(w, k)
      PROVE  /\ CopyInv(r)
             /\ \A k \in Crtcs :
                   r.drm.plane[k] = IF w.drm.plane[k] = w.video.overlay[k].old_fb_rotated
                                    THEN 0 ELSE w.drm.plane[k]
    <2>1. CopyLeft(x, c) /\ OldRight(x, c)
        BY <1>7, OldGoneCopies
    <2>2. CopyLeft(x, j)
        BY <1>2, <1>7, OverlayFrameCopies
    <2>3. CopyLeft(r, j) /\ OldRight(r, j)
        BY <2>2, OldGoneCopies
    <2>4. CopyLeft(r, c) /\ OldRight(r, c)
        BY <1>2, <2>1, OverlayFrameCopies
    <2>5. CopyInv(r)
        <3>1. \A k \in Crtcs : CopyLeft(r, k) /\ OldRight(r, k)
            BY <2>3, <2>4
        <3>. QED
            BY <3>1, CopyParts
    <2>6. x.drm.plane[j] = w.drm.plane[j] /\ r.drm.plane[c] = x.drm.plane[c]
        <3>1. w.drm.plane[j] \notin RotatedIds[c] /\ x.drm.plane[c] \notin RotatedIds[j]
            BY <1>2, <1>7, <2>1, PlaneElsewhere DEF CopyLeft
        <3>. QED
            BY <1>2, <3>1 DEF OverlayFrame
    <2>7. /\ r.drm.plane[c] = IF w.drm.plane[c] = w.video.overlay[c].old_fb_rotated
                              THEN 0 ELSE w.drm.plane[c]
          /\ r.drm.plane[j] = IF w.drm.plane[j] = w.video.overlay[j].old_fb_rotated
                              THEN 0 ELSE w.drm.plane[j]
        BY <1>6, <2>6 DEF OldGone
    <2>8. \A k \in Crtcs : k = c \/ k = j
        OBVIOUS
    <2>. QED
        BY <2>5, <2>7, <2>8
<1>8. ASSUME NEW k \in Crtcs
      PROVE  LET o == w.video.overlay[k]
                 p == r.video.overlay[k]
             IN  /\ p.fb = o.fb /\ p.fb_rotated = o.fb_rotated
                 /\ p.rotation = o.rotation /\ p.visible = o.visible
    <2>1. k = c \/ k = j
        OBVIOUS
    <2>. QED
        BY <1>6, <2>1, Zenon DEF OldGone
<1>. QED
    BY <1>3, <1>4, <1>5, <1>7, <1>8 DEF Cleared

DestroyCopies(w) == ForEach(Crtcs, DestroyOldRotated, w)

LEMMA ClearedFact ==
    ASSUME NEW w \in Worlds, HeldInv(w), NEW r, r = DestroyCopies(w)
    PROVE  Cleared(w, r)
<1>1. CASE Crtcs = {0}
    <2>1. r = DestroyOldRotated(w, 0)
        BY <1>1 DEF DestroyCopies, ForEach
    <2>. QED
        BY <1>1, <2>1, OldRotatedGone, ClearedOne
<1>2. CASE Crtcs = {0, 1}
    <2>1. PICK x : x = DestroyOldRotated(w, 0)
        OBVIOUS
    <2>2. r = DestroyOldRotated(x, 1)
        BY <1>2, <2>1, Zenon DEF DestroyCopies, ForEach
    <2>3. OldGone(w, x, 0)
        BY <1>2, <2>1, OldRotatedGone, Zenon
    <2>4. OldGone(x, r, 1)
        BY <1>2, <2>2, <2>3, OldRotatedGone DEF OldGone, OverlayGood
    <2>. QED
        BY <1>2, <2>3, <2>4, ClearedTwo
<1>. QED
    BY <1>1, <1>2, CrtcsFact

OldDestroyed(w, r) ==
    /\ VideoGood(w, r)
    /\ r.video.fb = w.video.fb /\ r.video.old_fb = 0
    /\ r.video.port = w.video.port /\ r.video.success = w.video.success
    /\ w.video.fb # 0 => Pixels(r.drm, w.video.fb) = Pixels(w.drm, w.video.fb)
    /\ CopyInv(w) /\ Forgotten(w) =>
          /\ CopyInv(r)
          /\ \A c \in Crtcs :
                /\ r.drm.plane[c] \in {w.drm.plane[c], 0}
                /\ w.drm.plane[c] \in {w.video.fb, w.video.overlay[c].fb_rotated} =>
                      r.drm.plane[c] = w.drm.plane[c]
    /\ \A c \in Crtcs :
          LET o == w.video.overlay[c]
              p == r.video.overlay[c]
          IN  /\ p.fb = o.fb /\ p.fb_rotated = o.fb_rotated
              /\ p.rotation = o.rotation /\ p.visible = o.visible

LEMMA DestroyOldFact ==
    ASSUME NEW w \in Worlds, HeldInv(w), NEW r, r = DestroyOld(w)
    PROVE  OldDestroyed(w, r)
<1>1. PICK x : x = DestroyOldImage(w)
    OBVIOUS
<1>2. r = DestroyCopies(x)
    BY <1>1 DEF DestroyOld, DestroyOldImage, DestroyCopies
<1>3. /\ VideoGood(w, x) /\ x.video.old_fb = 0 /\ x.video.fb = w.video.fb
      /\ x.video.overlay = w.video.overlay
      /\ x.video.port = w.video.port /\ x.video.success = w.video.success
      /\ w.video.fb # 0 => Pixels(x.drm, w.video.fb) = Pixels(w.drm, w.video.fb)
      /\ CopyInv(w) /\ Forgotten(w) => \A c \in Crtcs : CopyLeft(x, c)
      /\ \A c \in Crtcs :
            x.drm.plane[c] = IF w.drm.plane[c] = w.video.old_fb THEN 0 ELSE w.drm.plane[c]
    BY <1>1, OldImageGone
<1>4. x \in Worlds /\ HeldInv(x)
    BY <1>3 DEF VideoGood
<1>5. Cleared(x, r)
    BY <1>2, <1>4, ClearedFact
<1>6. VideoGood(w, r)
    BY <1>3, <1>5, VideoFrameFact DEF VideoGood, Cleared
<1>7. /\ r.video.fb = w.video.fb /\ r.video.old_fb = 0
      /\ r.video.port = w.video.port /\ r.video.success = w.video.success
    BY <1>3, <1>5 DEF Cleared, SameVideo
<1>8. w.video.fb # 0 => Pixels(r.drm, w.video.fb) = Pixels(w.drm, w.video.fb)
    <2>1. w.video.fb # 0 => x.video.fb \in ImageIds /\ x.drm.fb[x.video.fb] # 0
        BY <1>3, <1>4 DEF HeldInv, OthersHeld, ImagesHeld
    <2>. QED
        BY <1>3, <1>5, <2>1 DEF Cleared
<1>9. ASSUME CopyInv(w), Forgotten(w)
      PROVE  /\ CopyInv(r)
             /\ \A c \in Crtcs :
                   /\ r.drm.plane[c] \in {w.drm.plane[c], 0}
                   /\ w.drm.plane[c] \in {w.video.fb, w.video.overlay[c].fb_rotated} =>
                         r.drm.plane[c] = w.drm.plane[c]
    <2>1. /\ CopyInv(r)
          /\ \A c \in Crtcs :
                r.drm.plane[c] = IF x.drm.plane[c] = x.video.overlay[c].old_fb_rotated
                                 THEN 0 ELSE x.drm.plane[c]
        BY <1>3, <1>5, <1>9 DEF Cleared
    <2>2. ASSUME NEW c \in Crtcs,
                 w.drm.plane[c] \in {w.video.fb, w.video.overlay[c].fb_rotated}
          PROVE  r.drm.plane[c] = w.drm.plane[c]
        <3>. DEFINE o == w.video.overlay[c]
        <3>1. /\ w.video.fb \in ImageIds \cup {0} /\ w.video.old_fb \in ImageIds \cup {0}
              /\ w.video.fb = w.video.old_fb => w.video.fb = 0
              /\ o.fb_rotated \in RotatedIds[c] \cup {0}
              /\ o.old_fb_rotated \in RotatedIds[c] \cup {0}
              /\ o.fb_rotated = o.old_fb_rotated => o.fb_rotated = 0
            BY DEF HeldInv, OthersHeld, ImagesHeld, RotatedHeld
        <3>2. ImageIds \cap RotatedIds[c] = {}
            BY ClassFact
        <3>3. x.video.overlay[c].old_fb_rotated = o.old_fb_rotated
            BY <1>3
        <3>4. /\ r.drm.plane[c] = IF x.drm.plane[c] = o.old_fb_rotated THEN 0 ELSE x.drm.plane[c]
              /\ x.drm.plane[c] = IF w.drm.plane[c] = w.video.old_fb THEN 0 ELSE w.drm.plane[c]
              /\ w.drm.plane[c] \in {w.video.fb, o.fb_rotated}
            BY <1>3, <2>1, <2>2, <3>3
        <3>. HIDE DEF o
        <3>. QED
            BY <3>1, <3>2, <3>4
    <2>3. \A c \in Crtcs : r.drm.plane[c] \in {w.drm.plane[c], 0}
        BY <1>3, <2>1
    <2>. QED
        BY <2>1, <2>2, <2>3
<1>10. \A c \in Crtcs :
          LET o == w.video.overlay[c]
              p == r.video.overlay[c]
          IN  /\ p.fb = o.fb /\ p.fb_rotated = o.fb_rotated
              /\ p.rotation = o.rotation /\ p.visible = o.visible
    BY <1>3, <1>5 DEF Cleared
<1>. QED
    BY <1>6, <1>7, <1>8, <1>9, <1>10 DEF OldDestroyed



-----------------------------------------------------------------------------
(* The requests of the clients.                                            *)

WithSuccess(w, b) == [w EXCEPT !.video.success = b]

LEMMA SuccessFact ==
    ASSUME NEW w \in Worlds, HeldInv(w), NEW b \in BOOLEAN, NEW r, r = WithSuccess(w, b)
    PROVE  /\ VideoGood(w, r) /\ r.drm = w.drm
           /\ r.video.fb = w.video.fb /\ r.video.old_fb = w.video.old_fb
           /\ r.video.port = w.video.port /\ r.video.success = b
           /\ r.video.overlay = w.video.overlay
           /\ CopyInv(w) => CopyInv(r)
<1>1. PICK v : v = [w.video EXCEPT !.success = b]
    BY Zenon
<1>2. r = [drm |-> w.drm, mode |-> w.mode, video |-> v]
    <2>1. w = [drm |-> w.drm, mode |-> w.mode, video |-> w.video]
        BY WorldParts
    <2>. QED
        BY <1>1, <2>1 DEF WithSuccess
<1>3. w.drm \in Drms /\ w.video \in Videos
    BY WorldParts
<1>4. /\ v \in Videos /\ v.fb = w.video.fb /\ v.old_fb = w.video.old_fb
      /\ v.overlay = w.video.overlay /\ v.port = w.video.port /\ v.success = b
    BY <1>1, <1>3 DEF Videos
<1>5. /\ VideoGood(w, r)
      /\ CopyInv(w) /\ (\A c \in Crtcs : PlaneOwn(r, c)) => CopyInv(r)
    BY <1>2, <1>3, <1>4, PlaneChange
<1>6. r.drm = w.drm /\ r.video = v
    BY <1>2
<1>7. CopyInv(w) => \A c \in Crtcs : PlaneOwn(r, c)
    BY <1>4, <1>6 DEF CopyInv, PlaneOwn
<1>. QED
    BY <1>4, <1>5, <1>6, <1>7

\* A picture has been put: x is the screen with the picture made and the window
\* covered.
Put(x, r, fault) ==
    /\ VideoGood(x, r) /\ r.video.fb = x.video.fb /\ r.video.old_fb = 0
    /\ r.video.port = x.video.port /\ r.video.success \in BOOLEAN
    /\ fault # "rotated_fb" /\ CopyInv(x) =>
          /\ CopyInv(r)
          /\ ~ r.video.success => \A c \in Crtcs : r.drm.plane[c] \in {x.drm.plane[c], 0}
    /\ fault = "none" /\ CopyInv(x) =>
          \A image \in Images, c \in Crtcs :
             /\ Pixels(x.drm, x.video.fb) = Picture(image, 0)
             /\ r.video.overlay[c].visible /\ Anew(x, c)
             => /\ r.drm.plane[c] # 0
                /\ Pixels(r.drm, r.drm.plane[c]) = Picture(image, Turn(x, c))

\* An overlay that cannot be seen shows nothing.
Unseen(w) == \A c \in Crtcs : w.video.overlay[c].visible \/ w.video.overlay[c].fb = 0

LEMMA PutShown ==
    ASSUME NEW x \in Worlds, HeldInv(x), x.video.fb # 0, NEW place \in Places, NEW fault, Unseen(x),
           NEW r, r = DestroyOld(TegraVideoOverlayPutImageOnOverlays(x, place, fault))
    PROVE  Put(x, r, fault)
<1>1. PICK q : q = TegraVideoOverlayPutImageOnOverlays(x, place, fault)
    OBVIOUS
<1>2. OverlaysPut(x, q, fault)
    BY <1>1, OnOverlaysFact
<1>3. q \in Worlds /\ HeldInv(q) /\ VideoFrame(x, q)
    BY <1>2 DEF OverlaysPut, VideoGood
<1>4. OldDestroyed(q, r)
    BY <1>1, <1>3, DestroyOldFact
<1>5. VideoGood(x, r)
    BY <1>3, <1>4, VideoFrameFact, Zenon DEF OldDestroyed, VideoGood
<1>6. /\ q.video.fb = x.video.fb /\ r.video.fb = x.video.fb /\ r.video.old_fb = 0
      /\ r.video.port = x.video.port
      /\ r.video.success = q.video.success /\ q.video.success \in BOOLEAN
    BY <1>2, <1>4 DEF OverlaysPut, OldDestroyed
<1>7. ASSUME fault # "rotated_fb", CopyInv(x)
      PROVE  /\ CopyInv(q) /\ CopyInv(r)
             /\ ~ r.video.success => \A c \in Crtcs : r.drm.plane[c] \in {x.drm.plane[c], 0}
             /\ \A c \in Crtcs :
                   q.drm.plane[c] \in {q.video.fb, q.video.overlay[c].fb_rotated} =>
                      r.drm.plane[c] = q.drm.plane[c]
    <2>1. /\ CopyInv(q)
          /\ ~ q.video.success => \A c \in Crtcs : q.drm.plane[c] \in {x.drm.plane[c], 0}
        BY <1>2, <1>7 DEF OverlaysPut
    <2>2. Forgotten(q)
        <3>1. ASSUME NEW c \in Crtcs PROVE q.video.overlay[c].fb \in {0, q.video.fb}
            <4>1. /\ x.video.overlay[c].visible => q.video.overlay[c].fb = x.video.fb
                  /\ ~ x.video.overlay[c].visible => q.video.overlay[c] = x.video.overlay[c]
                BY <1>2, <1>7, Zenon DEF OverlaysPut
            <4>. QED
                BY <1>6, <4>1 DEF Unseen
        <3>. QED
            BY <3>1 DEF Forgotten
    <2>3. /\ CopyInv(r)
          /\ \A c \in Crtcs :
                /\ r.drm.plane[c] \in {q.drm.plane[c], 0}
                /\ q.drm.plane[c] \in {q.video.fb, q.video.overlay[c].fb_rotated} =>
                      r.drm.plane[c] = q.drm.plane[c]
        BY <1>4, <2>1, <2>2 DEF OldDestroyed
    <2>. QED
        BY <1>6, <2>1, <2>3
<1>8. ASSUME fault = "none", CopyInv(x), NEW image \in Images, NEW c \in Crtcs,
             Pixels(x.drm, x.video.fb) = Picture(image, 0),
             r.video.overlay[c].visible, Anew(x, c)
      PROVE  /\ r.drm.plane[c] # 0
             /\ Pixels(r.drm, r.drm.plane[c]) = Picture(image, Turn(x, c))
    <2>. DEFINE p == q.video.overlay[c]
                s == r.video.overlay[c]
                fb == x.video.fb
                turn == Turn(x, c)
    <2>1. /\ s.fb = p.fb /\ s.fb_rotated = p.fb_rotated /\ s.rotation = p.rotation
          /\ p.visible
        BY <1>4, <1>8, Zenon DEF OldDestroyed
    <2>2. fault # "rotated_fb" /\ fault # "commit"
        BY <1>8, Zenon
    <2>3. /\ p.fb = fb /\ p.rotation = turn /\ (p.fb_rotated # 0 <=> turn # 0)
          /\ q.drm.plane[c] = IF p.fb_rotated # 0 THEN p.fb_rotated ELSE fb
        BY <1>2, <1>8, <2>1, <2>2, Zenon DEF OverlaysPut
    <2>4. r.drm.plane[c] = IF s.fb_rotated # 0 THEN s.fb_rotated ELSE fb
        BY <1>6, <1>7, <1>8, <2>1, <2>2, <2>3, SMTT(20)
    <2>5. Pixels(r.drm, fb) = Picture(image, 0)
        BY <1>2, <1>4, <1>6, <1>8 DEF OverlaysPut, OldDestroyed
    <2>6. CASE s.fb_rotated = 0
        BY <2>1, <2>3, <2>4, <2>5, <2>6
    <2>7. CASE s.fb_rotated # 0
        <3>1. CopyRight(r, c)
            BY <1>7, <1>8, <2>2 DEF CopyInv
        <3>2. s.fb = r.video.fb /\ s.rotation = turn
            BY <1>6, <2>1, <2>3
        <3>3. Image(r, r.video.fb) = image
            BY <1>6, <2>5 DEF Image, Picture
        <3>4. Pixels(r.drm, s.fb_rotated) = Picture(image, turn)
            BY <2>7, <3>1, <3>2, <3>3 DEF CopyRight
        <3>. QED
            BY <2>4, <2>7, <3>4
    <2>. QED
        BY <2>6, <2>7
<1>. QED
    BY <1>5, <1>6, <1>7, <1>8 DEF Put

\* Nothing can be seen of it.
LEMMA PutUnseen ==
    ASSUME NEW x \in Worlds, HeldInv(x), Unseen(x), ~ AnyVisible(x), NEW fault,
           NEW r, r = DestroyOld(WithSuccess(x, TRUE))
    PROVE  /\ Put(x, r, fault) /\ r.video.success
           /\ \A c \in Crtcs : ~ r.video.overlay[c].visible
<1>1. PICK b \in BOOLEAN : b = TRUE
    BY Zenon
<1>2. PICK q : q = WithSuccess(x, b)
    OBVIOUS
<1>3. /\ VideoGood(x, q) /\ q.drm = x.drm
      /\ q.video.fb = x.video.fb /\ q.video.old_fb = x.video.old_fb
      /\ q.video.port = x.video.port /\ q.video.success = b
      /\ q.video.overlay = x.video.overlay
      /\ CopyInv(x) => CopyInv(q)
    BY <1>2, SuccessFact
<1>4. OldDestroyed(q, r)
    <2>1. r = DestroyOld(q)
        BY <1>1, <1>2
    <2>. QED
        BY <1>3, <2>1, DestroyOldFact, Zenon DEF VideoGood
<1>5. VideoGood(x, r)
    BY <1>3, <1>4, VideoFrameFact, Zenon DEF OldDestroyed, VideoGood
<1>6. \A c \in Crtcs : ~ r.video.overlay[c].visible
    <2>1. \A c \in Crtcs : ~ q.video.overlay[c].visible
        BY <1>3 DEF AnyVisible
    <2>. QED
        BY <1>4, <2>1, Zenon DEF OldDestroyed
<1>7. CopyInv(x) => CopyInv(r)
    <2>1. Forgotten(q)
        BY <1>3 DEF Forgotten, Unseen, AnyVisible
    <2>. QED
        BY <1>3, <1>4, <2>1, Zenon DEF OldDestroyed
<1>8. /\ r.video.fb = x.video.fb /\ r.video.old_fb = 0
      /\ r.video.port = x.video.port /\ r.video.success = b
    BY <1>3, <1>4, Zenon DEF OldDestroyed
<1>. QED
    BY <1>1, <1>5, <1>6, <1>7, <1>8, Zenon DEF Put


\* The state a request for a picture leaves, but for its port.
PutImageGood(w, r, fault) ==
    /\ VideoGood(w, r) /\ r.video.old_fb = 0
    /\ r.video.port = w.video.port /\ r.video.success \in BOOLEAN
    /\ r.video.success \/ w.video.fb # 0 => r.video.fb # 0
    /\ fault # "rotated_fb" /\ CopyInv(w) =>
          /\ CopyInv(r)
          /\ ~ r.video.success => \A c \in Crtcs : r.drm.plane[c] \in {w.drm.plane[c], 0}

\* The window is covered, and the picture put.
LEMMA PutCovered ==
    ASSUME NEW w, NEW x \in Worlds, HeldInv(x), x.video.fb # 0, Unseen(x), VideoFrame(w, x),
           x.video.port = w.video.port,
           CopyInv(w) => CopyInv(x) /\ \A c \in Crtcs : x.drm.plane[c] \in {w.drm.plane[c], 0},
           NEW place \in Places, NEW fault,
           NEW r, r = IF AnyVisible(x)
                      THEN DestroyOld(TegraVideoOverlayPutImageOnOverlays(x, place, fault))
                      ELSE DestroyOld(WithSuccess(x, TRUE))
    PROVE  Put(x, r, fault) /\ PutImageGood(w, r, fault)
<1>1. Put(x, r, fault)
    BY PutShown, PutUnseen, Zenon
<1>2. VideoGood(w, r)
    BY <1>1, VideoFrameFact, Zenon DEF Put, VideoGood
<1>3. ASSUME fault # "rotated_fb", CopyInv(w)
      PROVE  /\ CopyInv(r)
             /\ ~ r.video.success => \A c \in Crtcs : r.drm.plane[c] \in {w.drm.plane[c], 0}
    <2>1. /\ CopyInv(r)
          /\ ~ r.video.success => \A c \in Crtcs : r.drm.plane[c] \in {x.drm.plane[c], 0}
        BY <1>1, <1>3, Zenon DEF Put
    <2>2. \A c \in Crtcs : x.drm.plane[c] \in {w.drm.plane[c], 0}
        BY <1>3
    <2>. QED
        BY <2>1, <2>2, Zenon
<1>. QED
    BY <1>1, <1>2, <1>3, Zenon DEF Put, PutImageGood

Covering(w, kind, image, place, fault) ==
    TegraVideoUpdateOverlayCoverage(TegraVideoOverlayCreateFB(w, kind, image, fault), place, fault)

Filled(w, kind, image) == IF kind # 0 THEN w ELSE WithData(w, image)

Ends(y, z, place, fault) ==
    IF AnyVisible(y) THEN DestroyOld(TegraVideoOverlayPutImageOnOverlays(z, place, fault))
    ELSE DestroyOld(WithSuccess(y, TRUE))

\* The steps of a request that is not refused.
LEMMA PutImageIs ==
    ASSUME NEW w, NEW kind, NEW image, NEW place, NEW fault,
           SamePicture(w, kind, image) \/ ~ CreateRefused(fault),
           NEW y, y = Covering(w, kind, image, place, fault),
           NEW r, r = TegraVideoOverlayPutImage(w, kind, image, place, fault)
    PROVE  r = Ends(y, Filled(y, kind, image), place, fault)
BY DEF Ends, TegraVideoOverlayPutImage, Covering, Filled, WithData, WithSuccess

\* What is created and covered is covered.
LEMMA AllCoveredUnseen ==
    ASSUME NEW w, NEW r, AllCovered(w, r)
    PROVE  /\ Unseen(r) /\ r.video.fb = w.video.fb /\ r.video.old_fb = w.video.old_fb
           /\ r.video.port = w.video.port
           /\ w.video.fb \in ImageIds /\ w.drm.fb[w.video.fb] # 0 =>
                 Pixels(r.drm, w.video.fb) = Pixels(w.drm, w.video.fb)
           /\ Fresh(w) /\ w.video.fb # 0 => Fresh(r)
<1>1. Unseen(r) /\ r.video.fb = w.video.fb /\ r.video.old_fb = w.video.old_fb
      /\ r.video.port = w.video.port
    BY DEF AllCovered, Unseen, SameVideo
<1>2. w.video.fb \in ImageIds /\ w.drm.fb[w.video.fb] # 0 =>
         Pixels(r.drm, w.video.fb) = Pixels(w.drm, w.video.fb)
    BY DEF AllCovered
<1>3. ASSUME Fresh(w), w.video.fb # 0 PROVE Fresh(r)
    <2>1. ASSUME NEW c \in Crtcs
          PROVE  /\ r.video.overlay[c].fb # r.video.fb
                 /\ r.video.old_fb = 0 => r.video.overlay[c].old_fb_rotated = 0
        <3>1. /\ r.video.overlay[c].fb \in {w.video.overlay[c].fb, 0}
              /\ r.video.overlay[c].old_fb_rotated \in {w.video.overlay[c].old_fb_rotated, 0}
            BY DEF AllCovered
        <3>2. /\ w.video.overlay[c].fb # w.video.fb
              /\ w.video.old_fb = 0 => w.video.overlay[c].old_fb_rotated = 0
            BY <1>3 DEF Fresh
        <3>. QED
            BY <1>1, <1>3, <3>1, <3>2, Zenon
    <2>. QED
        BY <2>1 DEF Fresh
<1>. QED
    BY <1>1, <1>2, <1>3, Zenon

LEMMA PutImageSame ==
    ASSUME NEW w \in Worlds, HeldInv(w), NEW kind, NEW image,
           NEW place \in Places, NEW fault, SamePicture(w, kind, image),
           NEW r, r = TegraVideoOverlayPutImage(w, kind, image, place, fault)
    PROVE  PutImageGood(w, r, fault) /\ r.video.fb = w.video.fb
<1>1. kind # 0 /\ w.video.fb # 0
    BY DEF SamePicture
<1>2. PICK y : y = TegraVideoUpdateOverlayCoverage(w, place, fault)
    OBVIOUS
<1>3. y = Covering(w, kind, image, place, fault)
    BY <1>2 DEF Covering, TegraVideoOverlayCreateFB
<1>4. AllCovered(w, y)
    BY <1>2, CoverageFact
<1>5. Filled(y, kind, image) = y
    BY <1>1 DEF Filled
<1>6. r = IF AnyVisible(y)
          THEN DestroyOld(TegraVideoOverlayPutImageOnOverlays(y, place, fault))
          ELSE DestroyOld(WithSuccess(y, TRUE))
    <2>1. r = Ends(y, Filled(y, kind, image), place, fault)
        BY <1>3, PutImageIs, SMTT(20)
    <2>. QED
        BY <1>5, <2>1, Zenon DEF Ends
<1>7. /\ y \in Worlds /\ HeldInv(y) /\ VideoFrame(w, y)
      /\ CopyInv(w) => CopyInv(y) /\ \A c \in Crtcs : y.drm.plane[c] \in {w.drm.plane[c], 0}
    BY <1>4 DEF AllCovered
<1>8. Unseen(y) /\ y.video.fb = w.video.fb /\ y.video.port = w.video.port
    BY <1>4, AllCoveredUnseen
<1>9. Put(y, r, fault) /\ PutImageGood(w, r, fault)
    BY <1>1, <1>6, <1>7, <1>8, PutCovered, Zenon
<1>. QED
    BY <1>8, <1>9 DEF Put

LEMMA PutImageRefused ==
    ASSUME NEW w \in Worlds, HeldInv(w), w.video.old_fb = 0, NEW kind, NEW image,
           NEW place \in Places, NEW fault, fault # "wrap_fb",
           ~ SamePicture(w, kind, image), CreateRefused(fault),
           NEW r, r = TegraVideoOverlayPutImage(w, kind, image, place, fault)
    PROVE  PutImageGood(w, r, fault) /\ r.video.fb = w.video.fb
<1>1. PICK b \in BOOLEAN : b = FALSE
    BY Zenon
<1>2. TegraVideoOverlayCreateFB(w, kind, image, fault) = w
    <2>1. TegraVideoOverlayCreateFB(w, kind, image, fault) = [w EXCEPT !.drm = w.drm]
        BY DEF TegraVideoOverlayCreateFB
    <2>. QED
        BY <2>1, WorldParts
<1>3. r = WithSuccess(w, b)
    BY <1>1, <1>2, Zenon DEF TegraVideoOverlayPutImage, WithSuccess
<1>4. /\ VideoGood(w, r) /\ r.drm = w.drm
      /\ r.video.fb = w.video.fb /\ r.video.old_fb = w.video.old_fb
      /\ r.video.port = w.video.port /\ r.video.success = b
      /\ CopyInv(w) => CopyInv(r)
    BY <1>3, SuccessFact
<1>. QED
    BY <1>1, <1>4 DEF PutImageGood

\* A new picture, seen the right way up wherever the window is.
NewShown(r, image) ==
    \A c \in Crtcs :
        r.video.overlay[c].visible =>
            /\ r.drm.plane[c] # 0
            /\ Pixels(r.drm, r.drm.plane[c]) = Picture(image, Turn(r, c))

LEMMA PutImageNew ==
    ASSUME NEW w \in Worlds, HeldInv(w), w.video.old_fb = 0,
           NEW kind \in 0..2, NEW image \in Images,
           NEW place \in Places, NEW fault,
           ~ SamePicture(w, kind, image), ~ CreateRefused(fault),
           NEW r, r = TegraVideoOverlayPutImage(w, kind, image, place, fault)
    PROVE  /\ PutImageGood(w, r, fault)
           /\ fault = "none" /\ CopyInv(w) => NewShown(r, image)
<1>1. PICK x : x = TegraVideoOverlayCreateFB(w, kind, image, fault)
    OBVIOUS
<1>2. /\ VideoGood(w, x)
      /\ x.video.overlay = w.video.overlay /\ x.video.old_fb = w.video.fb
      /\ x.video.port = w.video.port
      /\ x.video.fb \in ImageIds /\ x.video.fb # w.video.fb
      /\ x.drm.plane = w.drm.plane
      /\ Pixels(x.drm, x.video.fb) = ImagePixels(kind, image)
      /\ CopyInv(w) => CopyInv(x) /\ Fresh(x)
    BY <1>1, ImageCreated
<1>3. /\ x \in Worlds /\ HeldInv(x) /\ VideoFrame(w, x)
      /\ x.video.fb # 0 /\ x.drm.fb[x.video.fb] # 0
    BY <1>2, IdsFact, Zenon DEF VideoGood, HeldInv, OthersHeld, ImagesHeld
<1>4. PICK y : y = TegraVideoUpdateOverlayCoverage(x, place, fault)
    OBVIOUS
<1>5. y = Covering(w, kind, image, place, fault)
    BY <1>1, <1>4 DEF Covering
<1>6. AllCovered(x, y)
    BY <1>3, <1>4, CoverageFact, Zenon
<1>7. /\ y \in Worlds /\ HeldInv(y) /\ VideoFrame(w, y)
      /\ CopyInv(w) => /\ CopyInv(y)
                       /\ \A c \in Crtcs : y.drm.plane[c] \in {w.drm.plane[c], 0}
    BY <1>2, <1>3, <1>6, VideoFrameFact DEF AllCovered
<1>8. /\ Unseen(y) /\ y.video.fb = x.video.fb /\ y.video.port = w.video.port
      /\ Pixels(y.drm, y.video.fb) = ImagePixels(kind, image)
      /\ CopyInv(w) => Fresh(y)
    BY <1>2, <1>3, <1>6, AllCoveredUnseen
<1>9. PICK z : z = IF AnyVisible(y) THEN Filled(y, kind, image) ELSE y
    OBVIOUS
<1>10. /\ z \in Worlds /\ HeldInv(z) /\ VideoFrame(w, z) /\ z.video = y.video
       /\ CopyInv(w) => /\ CopyInv(z) /\ Fresh(z)
                        /\ \A c \in Crtcs : z.drm.plane[c] \in {w.drm.plane[c], 0}
       /\ AnyVisible(y) => Pixels(z.drm, z.video.fb) = Picture(image, 0)
    <2>1. CASE AnyVisible(y) /\ kind = 0
        <3>1. z = WithData(y, image)
            BY <1>9, <2>1 DEF Filled
        <3>2. /\ VideoGood(y, z)
              /\ z.video = y.video /\ z.drm.plane = y.drm.plane
              /\ Pixels(z.drm, z.video.fb) = Picture(image, 0)
              /\ CopyInv(y) /\ Fresh(y) => CopyInv(z) /\ Fresh(z)
            BY <1>3, <1>7, <1>8, <3>1, DataCopied
        <3>. QED
            BY <1>7, <1>8, <3>2, VideoFrameFact DEF VideoGood
    <2>2. CASE AnyVisible(y) /\ kind # 0
        <3>1. z = y
            BY <1>9, <2>2 DEF Filled
        <3>2. Pixels(z.drm, z.video.fb) = Picture(image, 0)
            BY <1>8, <2>2, <3>1 DEF ImagePixels
        <3>. QED
            BY <1>7, <1>8, <3>1, <3>2
    <2>3. CASE ~ AnyVisible(y)
        BY <1>7, <1>8, <1>9, <2>3
    <2>. QED
        BY <2>1, <2>2, <2>3
<1>11. /\ AnyVisible(z) <=> AnyVisible(y)
       /\ Unseen(z) /\ z.video.fb # 0 /\ z.video.port = w.video.port
    BY <1>3, <1>8, <1>10 DEF AnyVisible, Unseen
<1>12. r = IF AnyVisible(z)
           THEN DestroyOld(TegraVideoOverlayPutImageOnOverlays(z, place, fault))
           ELSE DestroyOld(WithSuccess(z, TRUE))
    <2>1. r = Ends(y, Filled(y, kind, image), place, fault)
        BY <1>5, PutImageIs
    <2>. QED
        BY <1>9, <1>11, <2>1, Zenon DEF Ends
<1>13. Put(z, r, fault) /\ PutImageGood(w, r, fault)
    BY <1>10, <1>11, <1>12, PutCovered, Zenon
<1>14. ASSUME fault = "none", CopyInv(w) PROVE NewShown(r, image)
    <2>1. ASSUME NEW c \in Crtcs, r.video.overlay[c].visible
          PROVE  /\ r.drm.plane[c] # 0
                 /\ Pixels(r.drm, r.drm.plane[c]) = Picture(image, Turn(r, c))
        <3>1. CopyInv(z) /\ Fresh(z)
            BY <1>10, <1>14
        <3>2. Anew(z, c)
            BY <3>1 DEF Fresh, Anew
        <3>3. r.mode = z.mode
            BY <1>13 DEF Put, VideoGood, VideoFrame
        <3>4. AnyVisible(z) => Pixels(z.drm, z.video.fb) = Picture(image, 0)
            BY <1>10, <1>11
        <3>5. AnyVisible(z)
            <4>1. CASE ~ AnyVisible(z)
                <5>1. r = DestroyOld(WithSuccess(z, TRUE))
                    BY <1>12, <4>1
                <5>2. ~ r.video.overlay[c].visible
                    BY <1>10, <1>11, <4>1, <5>1, PutUnseen, Zenon
                <5>. QED
                    BY <2>1, <5>2
            <4>. QED
                BY <4>1
        <3>6. Turn(r, c) = Turn(z, c)
            BY <3>3 DEF Turn
        <3>. QED
            BY <1>13, <1>14, <2>1, <3>1, <3>2, <3>4, <3>5, <3>6 DEF Put
    <2>. QED
        BY <2>1 DEF NewShown
<1>. QED
    BY <1>13, <1>14


LEMMA PutImageFact ==
    ASSUME NEW w \in Worlds, HeldInv(w), w.video.old_fb = 0,
           NEW kind \in 0..2, NEW image \in Images,
           NEW place \in Places, NEW fault, fault # "wrap_fb",
           NEW r, r = TegraVideoOverlayPutImage(w, kind, image, place, fault)
    PROVE  /\ PutImageGood(w, r, fault)
           /\ fault = "none" /\ CopyInv(w) /\ r.video.fb # w.video.fb => NewShown(r, image)
<1>1. CASE SamePicture(w, kind, image)
    BY <1>1, PutImageSame
<1>2. CASE ~ SamePicture(w, kind, image) /\ CreateRefused(fault)
    BY <1>2, PutImageRefused
<1>3. CASE ~ SamePicture(w, kind, image) /\ ~ CreateRefused(fault)
    BY <1>3, PutImageNew
<1>. QED
    BY <1>1, <1>2, <1>3

LEMMA ReputImageFact ==
    ASSUME NEW w \in Worlds, HeldInv(w), w.video.old_fb = 0, w.video.fb # 0,
           NEW place \in Places, NEW fault,
           NEW r, r = TegraVideoOverlayReputImage(w, place, fault)
    PROVE  PutImageGood(w, r, fault)
<1>1. PICK y : y = TegraVideoUpdateOverlayCoverage(w, place, fault)
    BY Zenon
<1>2. AllCovered(w, y)
    BY <1>1, CoverageFact, Zenon
<1>3. /\ y \in Worlds /\ HeldInv(y) /\ VideoFrame(w, y)
      /\ y.video.fb = w.video.fb /\ y.video.old_fb = 0 /\ y.video.port = w.video.port
      /\ CopyInv(w) => CopyInv(y) /\ \A c \in Crtcs : y.drm.plane[c] \in {w.drm.plane[c], 0}
    BY <1>2 DEF AllCovered, SameVideo
<1>4. CASE AnyVisible(y)
    <2>1. r = TegraVideoOverlayPutImageOnOverlays(y, place, fault)
        BY <1>1, <1>4 DEF TegraVideoOverlayReputImage
    <2>2. OverlaysPut(y, r, fault)
        BY <1>3, <2>1, OnOverlaysFact
    <2>3. VideoGood(w, r)
        BY <1>3, <2>2, VideoFrameFact, Zenon DEF OverlaysPut, VideoGood
    <2>4. ASSUME CopyInv(w)
          PROVE  /\ CopyInv(r)
                 /\ ~ r.video.success => \A c \in Crtcs : r.drm.plane[c] \in {w.drm.plane[c], 0}
        <3>1. /\ CopyInv(r)
              /\ ~ r.video.success => \A c \in Crtcs : r.drm.plane[c] \in {y.drm.plane[c], 0}
            BY <1>3, <2>2, <2>4 DEF OverlaysPut
        <3>2. \A c \in Crtcs : y.drm.plane[c] \in {w.drm.plane[c], 0}
            BY <1>3, <2>4
        <3>. QED
            BY <3>1, <3>2
    <2>. QED
        BY <1>3, <2>2, <2>3, <2>4 DEF PutImageGood, OverlaysPut
<1>5. CASE ~ AnyVisible(y)
    <2>1. PICK b \in BOOLEAN : b = TRUE
        BY Zenon
    <2>2. r = WithSuccess(y, b)
        BY <1>1, <1>5, <2>1 DEF TegraVideoOverlayReputImage, WithSuccess
    <2>3. /\ VideoGood(y, r) /\ r.drm = y.drm
          /\ r.video.fb = y.video.fb /\ r.video.old_fb = y.video.old_fb
          /\ r.video.port = y.video.port /\ r.video.success = b
          /\ CopyInv(y) => CopyInv(r)
        BY <1>3, <2>2, SuccessFact
    <2>4. VideoGood(w, r)
        BY <1>3, <2>3, VideoFrameFact DEF VideoGood
    <2>. QED
        BY <1>3, <2>1, <2>3, <2>4 DEF PutImageGood
<1>. QED
    BY <1>4, <1>5


-----------------------------------------------------------------------------
(* What a request keeps of the screen.                                     *)

Kept(w, r, fault) ==
    /\ Held(r)
    /\ NoModeFault(fault) /\ Shown(w) => Shown(r)
    /\ fault # "rotated_fb" /\ Pictured(w) => Pictured(r)

LEMMA ModeKept ==
    ASSUME NEW w, Held(w), w.mode.open, NEW fault, NEW r, ModeGood(w, r, fault)
    PROVE  Kept(w, r, fault)
<1>1. HeldInv(w) /\ Rests(w) /\ TurnsRight(w)
    BY DEF Held
<1>2. /\ r \in Worlds /\ HeldInv(r) /\ ModeFrame(w, r) /\ r.mode.open /\ TurnsRight(r)
      /\ NoModeFault(fault) /\ ShownInv(w) => ShownInv(r)
    BY <1>1 DEF ModeGood
<1>3. Rests(r)
    BY <1>1, <1>2 DEF ModeFrame, Rests
<1>4. PictureInv(w) => PictureInv(r)
    BY <1>1, <1>2, ModeFramePicture DEF HeldInv
<1>. QED
    BY <1>2, <1>3, <1>4 DEF Kept, Held, Shown, Pictured

LEMMA VideoKept ==
    ASSUME NEW w, Held(w), w.mode.open, NEW fault, NEW r, VideoGood(w, r), Rests(r),
           fault # "rotated_fb" /\ PictureInv(w) => PictureInv(r)
    PROVE  Kept(w, r, fault)
<1>1. r \in Worlds /\ HeldInv(r) /\ VideoFrame(w, r) /\ r.mode = w.mode
    BY DEF VideoGood, VideoFrame
<1>2. ShownInv(w) => ShownInv(r)
    BY <1>1, VideoFrameHeld
<1>3. TurnsRight(r)
    BY <1>1 DEF Held, TurnsRight
<1>. QED
    BY <1>1, <1>2, <1>3 DEF Kept, Held, Shown, Pictured

\* The answer to a request is forgotten.
LEMMA AnswerForgotten ==
    ASSUME NEW w, NEW r, NEW fault, Kept(w, r, fault),
           NEW b \in BOOLEAN, NEW q, q = WithSuccess(r, b)
    PROVE  Kept(w, q, fault) /\ SameButPort(r, q)
<1>1. r \in Worlds
    BY DEF Kept, Held
<1>2. r \in Worlds /\ r.video \in Videos /\ r = [drm |-> r.drm, mode |-> r.mode, video |-> r.video]
    BY <1>1, WorldParts
<1>3. PICK v : v = [r.video EXCEPT !.success = b]
    BY Zenon
<1>4. q = [drm |-> r.drm, mode |-> r.mode, video |-> v]
    BY <1>2, <1>3 DEF WithSuccess
<1>5. /\ v \in Videos /\ v.fb = r.video.fb /\ v.old_fb = r.video.old_fb
      /\ v.overlay = r.video.overlay /\ v.port = r.video.port
    BY <1>2, <1>3 DEF Videos
<1>6. q \in Worlds
    <2>1. r.drm \in Drms /\ r.mode \in Modes
        BY <1>1, WorldParts
    <2>. QED
        BY <1>4, <1>5, <2>1 DEF Worlds
<1>7. q.drm = r.drm /\ q.mode = r.mode /\ q.video = v
    BY <1>4
<1>8. SameButPort(r, q) /\ q.video.port = r.video.port
    BY <1>5, <1>7 DEF SameButPort
<1>9. /\ HeldInv(r) => HeldInv(q)
      /\ ShownInv(r) => ShownInv(q)
      /\ CopyInv(r) => CopyInv(q)
      /\ TurnsRight(r) => TurnsRight(q)
    BY <1>8, SameFact
<1>10. Rests(r) => Rests(q)
    BY <1>5, <1>7 DEF Rests
<1>11. Held(q)
    BY <1>5, <1>6, <1>7, <1>9, <1>10 DEF Kept, Held
<1>12. Shown(r) => Shown(q)
    BY <1>7, <1>9 DEF Shown
<1>13. Pictured(r) => Pictured(q)
    BY <1>7, <1>8, <1>9 DEF Pictured, PictureInv
<1>. QED
    BY <1>8, <1>11, <1>12, <1>13 DEF Kept

WithPort(w, p) == [w EXCEPT !.video.port = p]

LEMMA PortFact ==
    ASSUME NEW w \in Worlds, HeldInv(w), NEW p \in BOOLEAN, NEW r, r = WithPort(w, p)
    PROVE  /\ VideoGood(w, r) /\ r.drm = w.drm
           /\ r.video.fb = w.video.fb /\ r.video.old_fb = w.video.old_fb
           /\ r.video.port = p /\ r.video.overlay = w.video.overlay
           /\ CopyInv(w) => CopyInv(r)
<1>1. PICK v : v = [w.video EXCEPT !.port = p]
    BY Zenon
<1>2. r = [drm |-> w.drm, mode |-> w.mode, video |-> v]
    <2>1. w = [drm |-> w.drm, mode |-> w.mode, video |-> w.video]
        BY WorldParts
    <2>. QED
        BY <1>1, <2>1 DEF WithPort
<1>3. w.drm \in Drms /\ w.video \in Videos
    BY WorldParts
<1>4. /\ v \in Videos /\ v.fb = w.video.fb /\ v.old_fb = w.video.old_fb
      /\ v.overlay = w.video.overlay /\ v.port = p
    BY <1>1, <1>3 DEF Videos
<1>5. /\ VideoGood(w, r)
      /\ CopyInv(w) /\ (\A c \in Crtcs : PlaneOwn(r, c)) => CopyInv(r)
    BY <1>2, <1>3, <1>4, PlaneChange
<1>6. r.drm = w.drm /\ r.video = v
    BY <1>2
<1>7. CopyInv(w) => \A c \in Crtcs : PlaneOwn(r, c)
    BY <1>4, <1>6, SMTT(20) DEF CopyInv, PlaneOwn
<1>. QED
    BY <1>4, <1>5, <1>6, <1>7

LEMMA PutImageKept ==
    ASSUME NEW w, Held(w), w.mode.open, NEW kind \in 0..2, NEW image \in Images,
           NEW place \in Places, NEW fault, fault # "wrap_fb",
           NEW x, x = TegraVideoOverlayPutImage(w, kind, image, place, fault),
           NEW r, r = WithPort(x, x.video.port \/ x.video.success)
    PROVE  /\ Kept(w, r, fault)
           /\ fault = "none" /\ Pictured(w) /\ r.video.fb # w.video.fb => NewShown(r, image)
<1>1. w \in Worlds /\ HeldInv(w) /\ Rests(w)
    BY DEF Held
<1>2. /\ PutImageGood(w, x, fault)
      /\ fault = "none" /\ CopyInv(w) /\ x.video.fb # w.video.fb => NewShown(x, image)
    BY <1>1, PutImageFact DEF Rests
<1>3. x \in Worlds /\ HeldInv(x) /\ VideoFrame(w, x) /\ x.video.port \in BOOLEAN /\ x.video.success \in BOOLEAN
    BY <1>2, WorldParts DEF PutImageGood, VideoGood, Videos
<1>4. PICK p \in BOOLEAN : p = (x.video.port \/ x.video.success)
    BY <1>3
<1>5. /\ VideoGood(x, r) /\ r.drm = x.drm
      /\ r.video.fb = x.video.fb /\ r.video.old_fb = x.video.old_fb
      /\ r.video.port = p /\ r.video.overlay = x.video.overlay
      /\ CopyInv(x) => CopyInv(r)
    BY <1>3, <1>4, PortFact
<1>6. VideoGood(w, r)
    BY <1>3, <1>5, VideoFrameFact DEF VideoGood
<1>7. Rests(r)
    BY <1>1, <1>2, <1>4, <1>5, ZenonT(40) DEF Rests, PutImageGood
<1>8. ASSUME fault # "rotated_fb", PictureInv(w) PROVE PictureInv(r)
    <2>1. CopyInv(w) /\ \A c \in Crtcs : w.drm.plane[c] # 0 => w.video.port
        BY <1>8 DEF PictureInv
    <2>2. /\ CopyInv(x)
          /\ ~ x.video.success => \A c \in Crtcs : x.drm.plane[c] \in {w.drm.plane[c], 0}
          /\ x.video.port = w.video.port
        BY <1>2, <1>8, <2>1, Zenon DEF PutImageGood
    <2>3. \A c \in Crtcs : r.drm.plane[c] # 0 => r.video.port
        BY <1>4, <1>5, <2>1, <2>2, ZenonT(40)
    <2>. QED
        BY <1>5, <2>2, <2>3 DEF PictureInv
<1>9. Kept(w, r, fault)
    BY <1>6, <1>7, <1>8, VideoKept
<1>10. NewShown(x, image) => NewShown(r, image)
    <2>1. r.mode = x.mode
        BY <1>5 DEF VideoGood, VideoFrame
    <2>. QED
        BY <1>5, <2>1, SMTT(20) DEF NewShown, Turn
<1>. QED
    BY <1>2, <1>5, <1>9, <1>10 DEF Pictured, PictureInv

LEMMA ReputImageKept ==
    ASSUME NEW w, Held(w), w.mode.open, w.video.port,
           NEW place \in Places, NEW fault,
           NEW r, r = TegraVideoOverlayReputImage(w, place, fault)
    PROVE  Kept(w, r, fault)
<1>1. w \in Worlds /\ HeldInv(w) /\ Rests(w)
    BY DEF Held
<1>2. PutImageGood(w, r, fault)
    BY <1>1, ReputImageFact DEF Rests
<1>3. Rests(r)
    BY <1>1, <1>2 DEF Rests, PutImageGood
<1>4. fault # "rotated_fb" /\ PictureInv(w) => PictureInv(r)
    BY <1>2 DEF PictureInv, PutImageGood
<1>. QED
    BY <1>2, <1>3, <1>4, VideoKept DEF PutImageGood

LEMMA StopKept ==
    ASSUME NEW w, Held(w), w.mode.open, w.video.port, NEW cleanup \in BOOLEAN, NEW fault,
           NEW x, x = TegraVideoOverlayStop(w, cleanup, fault),
           NEW p \in BOOLEAN, p <=> ~cleanup,
           NEW r, r = WithPort(x, p)
    PROVE  Kept(w, r, fault)
<1>1. w \in Worlds /\ HeldInv(w) /\ w.video.old_fb = 0 /\ w.video.fb # 0
    BY DEF Held, Rests
<1>2. /\ VideoGood(w, x)
      /\ x.video.old_fb = 0
      /\ ~cleanup => x.video.fb = w.video.fb
      /\ CopyInv(w) =>
            /\ CopyInv(x)
            /\ cleanup => \A c \in Crtcs : x.drm.plane[c] = 0
    BY <1>1, StopFact
<1>3. /\ VideoGood(x, r) /\ r.drm = x.drm
      /\ r.video.fb = x.video.fb /\ r.video.old_fb = x.video.old_fb
      /\ r.video.port = p
      /\ CopyInv(x) => CopyInv(r)
    <2>1. x \in Worlds /\ HeldInv(x)
        BY <1>2 DEF VideoGood
    <2>. QED
        BY <2>1, PortFact
<1>4. VideoGood(w, r)
    BY <1>2, <1>3, VideoFrameFact DEF VideoGood
<1>5. Rests(r)
    BY <1>1, <1>2, <1>3 DEF Rests
<1>6. PictureInv(w) => PictureInv(r)
    BY <1>2, <1>3 DEF PictureInv
<1>. QED
    BY <1>4, <1>5, <1>6, VideoKept

-----------------------------------------------------------------------------
(* Coming and going of the terminal.                                       *)

\* The terminal and the port are given up.
LEMMA LeaveIs ==
    ASSUME NEW x \in Worlds, HeldInv(x), NEW no \in BOOLEAN,
           NEW r, r = WithPort(WithSema(x, no), no)
    PROVE  /\ r \in Worlds /\ r.drm = x.drm /\ r.mode.open = x.mode.open /\ r.mode.vtSema = no
           /\ r.mode.crtc = x.mode.crtc /\ HeldInv(r)
           /\ r.video.fb = x.video.fb /\ r.video.old_fb = x.video.old_fb /\ r.video.port = no
           /\ ShownInv(x) /\ ~no => ShownInv(r)
           /\ CopyInv(x) => CopyInv(r)
<1>1. PICK y : y = WithSema(x, no)
    OBVIOUS
<1>2. /\ y \in Worlds /\ y.drm = x.drm /\ y.video = x.video /\ y.mode.vtSema = no
      /\ y.mode.crtc = x.mode.crtc /\ y.mode.open = x.mode.open
      /\ y.mode.fb_id = x.mode.fb_id /\ y.mode.front_bo = x.mode.front_bo
      /\ y.mode.pixmap = x.mode.pixmap
    BY <1>1, VtSemaIs
<1>3. HeldInv(y)
    BY <1>2 DEF HeldInv, FrontHeld, OthersHeld, ImagesHeld, ShadowHeld, RotatedHeld
<1>4. ShownInv(x) /\ ~no => ShownInv(y)
    BY <1>2, Zenon DEF ShownInv, ScansOwn, ShadowWhole, ShadowThere
<1>5. CopyInv(x) => CopyInv(y)
    BY <1>2 DEF CopyInv, PlaneOwn, CopyRight, Image
<1>6. r = WithPort(y, no)
    BY <1>1
<1>7. /\ VideoGood(y, r) /\ r.drm = y.drm
      /\ r.video.fb = y.video.fb /\ r.video.old_fb = y.video.old_fb
      /\ r.video.port = no
      /\ CopyInv(y) => CopyInv(r)
    BY <1>2, <1>3, <1>6, PortFact
<1>8. r.mode = y.mode /\ r \in Worlds /\ HeldInv(r) /\ VideoFrame(y, r)
    BY <1>7 DEF VideoGood, VideoFrame
<1>9. ShownInv(y) => ShownInv(r)
    BY <1>8, VideoFrameHeld
<1>10. r.mode.open = x.mode.open /\ r.mode.vtSema = no /\ r.mode.crtc = x.mode.crtc
    BY <1>2, <1>8
<1>11. r.drm = x.drm /\ r.video.fb = x.video.fb /\ r.video.old_fb = x.video.old_fb
    BY <1>2, <1>7
<1>12. ShownInv(x) /\ ~no => ShownInv(r)
    BY <1>4, <1>9
<1>13. r.video.port = no
    BY <1>7
<1>14. CopyInv(x) => CopyInv(r)
    BY <1>5, <1>7
<1>. QED
    BY <1>8, <1>10, <1>11, <1>12, <1>13, <1>14

\* The video is stopped when it is on.
LEMMA StoppedFact ==
    ASSUME NEW w \in Worlds, HeldInv(w), w.video.old_fb = 0, NEW yes \in BOOLEAN, NEW fault,
           NEW x, x = IF w.video.port THEN TegraVideoOverlayStop(w, yes, fault) ELSE w
    PROVE  /\ VideoGood(w, x) /\ x.video.old_fb = 0
           /\ PictureInv(w) /\ yes => CopyInv(x) /\ \A c \in Crtcs : x.drm.plane[c] = 0
<1>1. CASE w.video.port
    <2>1. x = TegraVideoOverlayStop(w, yes, fault)
        BY <1>1
    <2>2. /\ VideoGood(w, x) /\ x.video.old_fb = w.video.old_fb
          /\ CopyInv(w) /\ w.video.old_fb = 0 =>
                /\ CopyInv(x)
                /\ yes => \A c \in Crtcs : x.drm.plane[c] = 0
        BY <2>1, StopFact
    <2>. QED
        BY <2>2 DEF PictureInv
<1>2. CASE ~ w.video.port
    <2>1. x = w
        BY <1>2
    <2>2. VideoGood(w, x)
        BY <2>1, VideoFrameFact DEF VideoGood
    <2>. QED
        BY <1>2, <2>1, <2>2 DEF PictureInv
<1>. QED
    BY <1>1, <1>2

LEMMA LeaveKept ==
    ASSUME NEW w, Held(w), w.mode.open, NEW fault, NEW yes \in BOOLEAN, NEW no \in BOOLEAN,
           NEW x, x = IF w.video.port THEN TegraVideoOverlayStop(w, yes, fault) ELSE w,
           NEW r, r = WithPort(WithSema(x, no), no)
    PROVE  yes /\ ~no => Kept(w, r, fault)
<1>1. w \in Worlds /\ HeldInv(w) /\ Rests(w) /\ w.video.old_fb = 0 /\ TurnsRight(w)
    BY DEF Held, Rests
<1>2. /\ VideoGood(w, x) /\ x.video.old_fb = 0
      /\ PictureInv(w) /\ yes => CopyInv(x) /\ \A c \in Crtcs : x.drm.plane[c] = 0
    BY <1>1, StoppedFact
<1>3. x \in Worlds /\ HeldInv(x) /\ VideoFrame(w, x) /\ x.mode = w.mode
    BY <1>2 DEF VideoGood, VideoFrame
<1>4. /\ r \in Worlds /\ r.drm = x.drm /\ r.mode.open = x.mode.open /\ r.mode.vtSema = no
      /\ r.mode.crtc = x.mode.crtc /\ HeldInv(r)
      /\ r.video.fb = x.video.fb /\ r.video.old_fb = x.video.old_fb /\ r.video.port = no
      /\ ShownInv(x) /\ ~no => ShownInv(r)
      /\ CopyInv(x) => CopyInv(r)
    BY <1>3, LeaveIs, SMTT(20)
<1>5. ASSUME yes, ~no PROVE Held(r)
    BY <1>1, <1>2, <1>3, <1>4, <1>5, ZenonT(40) DEF Held, Rests, TurnsRight
<1>6. ASSUME ~no, Shown(w) PROVE Shown(r)
    BY <1>3, <1>4, <1>6, VideoFrameHeld, Zenon DEF Shown
<1>7. ASSUME yes, Pictured(w) PROVE Pictured(r)
    BY <1>2, <1>4, <1>7, ZenonT(40) DEF Pictured, PictureInv
<1>. QED
    BY <1>5, <1>6, <1>7, Zenon DEF Kept

\* The modes are set, and the terminal is the driver's.
LEMMA EnterKept ==
    ASSUME NEW w, Held(w), w.mode.open, NEW fault, NEW yes \in BOOLEAN,
           NEW r, r = WithSema(drmmode_set_desired_modes(w, fault), yes)
    PROVE  Kept(w, r, fault)
<1>1. w \in Worlds /\ HeldInv(w) /\ OthersHeld(w) /\ w.mode.fb_id \in FrontIds
    BY DEF Held, HeldInv, FrontHeld
<1>2. PICK s : s = drmmode_set_desired_modes(w, fault)
    OBVIOUS
<1>3. \E turn \in BOOLEAN : turn = TRUE /\ AllSet(w, s, turn, fault)
    BY <1>1, <1>2, DesiredModesFact, Zenon
<1>4. AllSet(w, s, TRUE, fault) /\ s \in Worlds
    BY <1>3 DEF AllSet
<1>5. /\ r \in Worlds /\ r.drm = s.drm /\ r.video = s.video
      /\ r.mode.crtc = s.mode.crtc /\ r.mode.open = s.mode.open
      /\ r.mode.fb_id = s.mode.fb_id /\ r.mode.front_bo = s.mode.front_bo
      /\ r.mode.pixmap = s.mode.pixmap
    <2>1. r = WithSema(s, yes)
        BY <1>2
    <2>. QED
        BY <1>4, <2>1, VtSemaIs
<1>6. ModeGood(w, r, fault)
    BY <1>1, <1>4, <1>5, EnterGood, Zenon
<1>. QED
    BY <1>6, ModeKept

\* The program of the other terminal shows framebuffers of its own.
LEMMA OtherKept ==
    ASSUME NEW w, Held(w), w.mode.open, ~w.mode.vtSema, NEW fault,
           NEW r \in Worlds, r.mode = w.mode, r.video = w.video,
           r.drm.fb = w.drm.fb, r.drm.bo = w.drm.bo,
           \A c \in Crtcs : r.drm.scan[c] = 0 /\ r.drm.plane[c] = 0
    PROVE  Kept(w, r, fault)
<1>1. HeldInv(w) => HeldInv(r)
    BY DEF HeldInv, FrontHeld, OthersHeld, ImagesHeld, ShadowHeld, RotatedHeld, Refs
<1>2. ShownInv(w) => ShownInv(r)
    BY SMTT(20) DEF ShownInv, ScansOwn, ShadowWhole, ShadowThere
<1>3. \A f : Pixels(r.drm, f) = Pixels(w.drm, f)
    BY Zenon DEF Pixels
<1>4. PictureInv(w) => PictureInv(r)
    BY <1>3 DEF PictureInv, CopyInv, PlaneOwn, CopyRight, Image
<1>. QED
    BY <1>1, <1>2, <1>4 DEF Kept, Held, Shown, Pictured, Rests, TurnsRight

-----------------------------------------------------------------------------
(* The end of the screen.                                                  *)

CloseShadows(w) == ForEach(Crtcs, drmmode_shadow_destroy, w)

ShadowsClosed(w, r) ==
    /\ r \in Worlds /\ OthersHeld(r) /\ ModeFrame(w, r) /\ SameScreen(w, r)
    /\ \A f \in FrontIds : r.drm.fb[f] = w.drm.fb[f]
    /\ TurnsRight(w) => TurnsRight(r)

LEMMA ShadowClosed ==
    ASSUME NEW w \in Worlds, OthersHeld(w), NEW c \in Crtcs, NEW r, r = drmmode_shadow_destroy(w, c)
    PROVE  ShadowsClosed(w, r)
<1>1. r \in Worlds /\ OthersHeld(r) /\ CrtcFrame(w, r, c) /\ DestroyedBy(w, r, c)
    BY DestroyFact
<1>2. TurnsRight(w) => TurnsRight(r)
    BY <1>1 DEF CrtcFrame, DestroyedBy, TurnsRight
<1>. QED
    BY <1>1, <1>2 DEF CrtcFrame, ShadowsClosed

LEMMA CloseShadowsFact ==
    ASSUME NEW w \in Worlds, OthersHeld(w), NEW r, r = CloseShadows(w)
    PROVE  ShadowsClosed(w, r)
<1>1. PICK x : x = drmmode_shadow_destroy(w, 0)
    OBVIOUS
<1>2. ShadowsClosed(w, x) /\ x \in Worlds /\ OthersHeld(x)
    <2>1. ShadowsClosed(w, x)
        BY <1>1, CrtcsFact, ShadowClosed
    <2>. QED
        BY <2>1 DEF ShadowsClosed
<1>3. CASE Crtcs = {0}
    <2>1. r = x
        BY <1>1, <1>3 DEF CloseShadows, ForEach
    <2>. QED
        BY <1>2, <2>1
<1>4. CASE Crtcs = {0, 1}
    <2>1. r = drmmode_shadow_destroy(x, 1)
        BY <1>1, <1>4 DEF CloseShadows, ForEach
    <2>2. ShadowsClosed(x, r)
        BY <1>2, <1>4, <2>1, ShadowClosed
    <2>. QED
        BY <1>2, <2>2, ModeFrameFact DEF ShadowsClosed, SameScreen
<1>. QED
    BY <1>3, <1>4, CrtcsFact

FreedFront(x) == BoUnref(RmFB(x.drm, x.mode.fb_id), x.mode.front_bo)

ClosedMode(m, no) ==
    [m EXCEPT !.fb_id = 0, !.front_bo = 0, !.open = no, !.vtSema = no, !.pixmap = 0]

Closing(w, no) ==
    [drm |-> FreedFront(CloseShadows(w)), mode |-> ClosedMode(CloseShadows(w).mode, no),
     video |-> TegraXvInit]

LEMMA ClosingIs ==
    ASSUME NEW w \in Worlds, OthersHeld(w)
    PROVE  Closing(w, FALSE) =
              [drmmode_free_bos(ForEach(Crtcs, drmmode_shadow_destroy, w)) EXCEPT
                   !.mode = [@ EXCEPT !.open = FALSE, !.vtSema = FALSE, !.pixmap = 0],
                   !.video = TegraXvInit]
<1>1. PICK x : x = CloseShadows(w)
    OBVIOUS
<1>2. x \in Worlds
    BY <1>1, CloseShadowsFact DEF ShadowsClosed
<1>3. x = [drm |-> x.drm, mode |-> x.mode, video |-> x.video] /\ x.mode \in Modes
    BY <1>2, WorldParts
<1>4. x = ForEach(Crtcs, drmmode_shadow_destroy, w)
    BY <1>1 DEF CloseShadows
<1>5. PICK m : m = [x.mode EXCEPT !.fb_id = 0, !.front_bo = 0]
    OBVIOUS
<1>6. PICK d : d = FreedFront(x)
    OBVIOUS
<1>7. PICK y : y = drmmode_free_bos(x)
    OBVIOUS
<1>8. y = [drm |-> d, mode |-> m, video |-> x.video]
    BY <1>3, <1>5, <1>6, <1>7, Zenon DEF drmmode_free_bos, dumb_bo_destroy, FreedFront
<1>9. [m EXCEPT !.open = FALSE, !.vtSema = FALSE, !.pixmap = 0] = ClosedMode(x.mode, FALSE)
    BY <1>3, <1>5 DEF ClosedMode, Modes
<1>10. PICK v : v = TegraXvInit
    OBVIOUS
<1>11. PICK z : z = [m EXCEPT !.open = FALSE, !.vtSema = FALSE, !.pixmap = 0]
    OBVIOUS
<1>12. y.mode = m /\ z = ClosedMode(x.mode, FALSE)
    BY <1>8, <1>9, <1>11
<1>13. [y EXCEPT !.mode = z, !.video = v] = [drm |-> d, mode |-> z, video |-> v]
    <2>1. PICK u : u = [y EXCEPT !.mode = z]
        BY Zenon
    <2>2. u = [drm |-> d, mode |-> z, video |-> x.video]
        BY <1>8, <2>1
    <2>3. [u EXCEPT !.video = v] = [drm |-> d, mode |-> z, video |-> v]
        BY <2>2
    <2>. QED
        BY <2>1, <2>3
<1>14. [y EXCEPT !.mode = [@ EXCEPT !.open = FALSE, !.vtSema = FALSE, !.pixmap = 0], !.video = v]
          = [y EXCEPT !.mode = z, !.video = v]
    BY <1>11, <1>12, Zenon
<1>. QED
    BY <1>1, <1>4, <1>6, <1>7, <1>10, <1>12, <1>13, <1>14, Zenon DEF Closing

LEMMA ClosedModeFact ==
    ASSUME NEW m \in Modes, NEW no \in BOOLEAN, NEW r, r = ClosedMode(m, no)
    PROVE  r \in Modes /\ r.open = no /\ r.vtSema = no /\ r.crtc = m.crtc
BY Zenon DEF ClosedMode, Modes, FbOrNone, BoOrNone

LEMMA CloseKept ==
    ASSUME NEW w, Held(w), w.mode.open, ~w.video.port, NEW fault,
           NEW no \in BOOLEAN, NEW r, r = Closing(w, no)
    PROVE  ~no => Kept(w, r, fault)
<1>1. w \in Worlds /\ HeldInv(w) /\ OthersHeld(w) /\ FrontHeld(w) /\ TurnsRight(w)
    BY DEF Held, HeldInv
<1>2. PICK x : x = CloseShadows(w)
    OBVIOUS
<1>3. ShadowsClosed(w, x)
    BY <1>1, <1>2, CloseShadowsFact
<1>4. /\ x \in Worlds /\ OthersHeld(x) /\ x.drm \in Drms /\ Refs(x.drm) /\ x.mode \in Modes
      /\ ModeFrame(w, x) /\ TurnsRight(x)
    BY <1>1, <1>3, WorldParts DEF ShadowsClosed, OthersHeld
<1>5. PICK f : f = x.mode.fb_id
    OBVIOUS
<1>6. PICK b : b = x.mode.front_bo
    OBVIOUS
<1>7. f \in Fbs /\ b \in Fbs /\ b # 0 /\ x.drm.fb[f] = b
    BY <1>1, <1>3, <1>5, <1>6, IdsFact, Zenon DEF ShadowsClosed, SameScreen, FrontHeld
<1>8. PICK d : d = BoUnref(RmFB(x.drm, f), b)
    OBVIOUS
<1>9. Freed(x.drm, d, f) /\ d \in Drms
    BY <1>4, <1>7, <1>8, FreeFact
<1>10. PICK m : m = ClosedMode(x.mode, no)
    OBVIOUS
<1>11. m \in Modes /\ m.open = no /\ m.vtSema = no /\ m.crtc = x.mode.crtc
    BY <1>4, <1>10, ClosedModeFact
<1>12. r = [drm |-> d, mode |-> m, video |-> TegraXvInit]
    BY <1>2, <1>5, <1>6, <1>8, <1>10 DEF Closing, FreedFront
<1>13. r \in Worlds
    BY <1>9, <1>11, <1>12, XvInitFact DEF Worlds
<1>14. r.mode = m /\ r.drm = d /\ r.video.fb = 0
    BY <1>12, XvInitFact
<1>15. TurnsRight(r)
    BY <1>4, <1>11, <1>14 DEF TurnsRight
<1>16. ASSUME Pictured(w) PROVE \A c \in Crtcs : r.drm.plane[c] = 0
    <2>1. \A c \in Crtcs : w.drm.plane[c] = 0
        BY <1>16 DEF Pictured, PictureInv
    <2>2. \A c \in Crtcs : x.drm.plane[c] = 0
        BY <1>4, <2>1 DEF ModeFrame
    <2>. QED
        BY <1>9, <1>14, <2>2 DEF Freed
<1>. QED
    BY <1>11, <1>13, <1>14, <1>15, <1>16 DEF Kept, Held, Shown, Pictured

-----------------------------------------------------------------------------
(* The steps of the screen.                                                *)

LEMMA BecomeIs ==
    ASSUME NEW r \in Worlds, Become(r), NEW b
    PROVE  b = TRUE => World' = WithSuccess(r, b)
<1>1. ASSUME NEW v
      PROVE  v = [r.video EXCEPT !.success = b] =>
                WithSuccess(r, b) = [drm |-> r.drm, mode |-> r.mode, video |-> v]
    <2>1. r = [drm |-> r.drm, mode |-> r.mode, video |-> r.video]
        BY WorldParts
    <2>. QED
        BY <2>1 DEF WithSuccess
<1>2. World' = [drm |-> drm', mode |-> mode', video |-> video']
    BY DEF World
<1>. QED
    BY <1>1, <1>2, Zenon DEF Become

LEMMA Becomes ==
    ASSUME NEW w, NEW fault, NEW r, Kept(w, r, fault), Become(r)
    PROVE  Kept(w, World', fault) /\ SameButPort(r, World')
<1>1. PICK b \in BOOLEAN : b = TRUE
    BY Zenon
<1>2. r \in Worlds
    BY DEF Kept, Held
<1>3. World' = WithSuccess(r, b)
    BY <1>1, <1>2, BecomeIs, Zenon
<1>. QED
    BY <1>3, AnswerForgotten

LEMMA WorldIs == World.drm = drm /\ World.mode = mode /\ World.video = video
BY DEF World

LEMMA CloseStep ==
    ASSUME Held(World), TegraCloseScreen, NEW fault
    PROVE  Kept(World, World', fault)
<1>1. mode.open /\ ~video.port
    BY DEF TegraCloseScreen
<1>2. World.mode.open /\ ~World.video.port
    BY <1>1, WorldIs
<1>3. World \in Worlds /\ OthersHeld(World)
    BY <1>2 DEF Held, HeldInv
<1>4. Become(Closing(World, FALSE))
    BY <1>3, ClosingIs, Zenon DEF TegraCloseScreen
<1>5. PICK no \in BOOLEAN : no = FALSE
    BY Zenon
<1>6. PICK r : r = Closing(World, no)
    OBVIOUS
<1>7. Become(r) /\ ~no
    BY <1>4, <1>5, <1>6, Zenon
<1>8. Kept(World, r, fault)
    BY <1>2, <1>6, <1>7, CloseKept
<1>. QED
    BY <1>7, <1>8, Becomes

LEMMA LeaveStep ==
    ASSUME Held(World), NEW fault, TegraLeaveVT(fault)
    PROVE  Kept(World, World', fault)
<1>1. mode.open
    BY DEF TegraLeaveVT, ScreenUp
<1>2. World.mode.open
    BY <1>1, WorldIs
<1>3. PICK yes \in BOOLEAN : yes = TRUE
    BY Zenon
<1>4. PICK no \in BOOLEAN : no = FALSE
    BY Zenon
<1>5. PICK x : x = IF World.video.port THEN TegraVideoOverlayStop(World, yes, fault) ELSE World
    OBVIOUS
<1>6. PICK r : r = WithPort(WithSema(x, no), no)
    OBVIOUS
<1>7. Become(r)
    <2>1. x = IF video.port THEN TegraVideoOverlayStop(World, TRUE, fault) ELSE World
        BY <1>3, <1>5, WorldIs
    <2>2. r = [x EXCEPT !.mode.vtSema = FALSE, !.video.port = FALSE]
        BY <1>4, <1>6, Zenon DEF WithPort, WithSema
    <2>. QED
        BY <2>1, <2>2, Zenon DEF TegraLeaveVT
<1>8. Kept(World, r, fault)
    <2>1. yes /\ ~no => Kept(World, r, fault)
        BY <1>2, <1>5, <1>6, LeaveKept, Zenon
    <2>. QED
        BY <1>3, <1>4, <2>1
<1>. QED
    BY <1>7, <1>8, Becomes

LEMMA EnterStep ==
    ASSUME Held(World), NEW fault, TegraEnterVT(fault)
    PROVE  Kept(World, World', fault)
<1>1. mode.open
    BY DEF TegraEnterVT
<1>2. World.mode.open
    BY <1>1, WorldIs
<1>3. PICK yes \in BOOLEAN : yes = TRUE
    BY Zenon
<1>4. PICK r : r = WithSema(drmmode_set_desired_modes(World, fault), yes)
    OBVIOUS
<1>5. Become(r)
    BY <1>3, <1>4, Zenon DEF TegraEnterVT, WithSema
<1>6. Kept(World, r, fault)
    BY <1>2, <1>4, EnterKept
<1>. QED
    BY <1>5, <1>6, Becomes

LEMMA OtherStep ==
    ASSUME Held(World), OtherTerminal, NEW fault
    PROVE  Kept(World, World', fault)
<1>1. World.mode.open /\ ~World.mode.vtSema
    BY WorldIs DEF OtherTerminal
<1>2. World \in Worlds /\ drm \in Drms /\ mode \in Modes /\ video \in Videos
    BY WorldIs, WorldParts DEF Held
<1>3. /\ drm'.fb = drm.fb /\ drm'.bo = drm.bo /\ drm' \in Drms
      /\ \A c \in Crtcs : drm'.scan[c] = 0 /\ drm'.plane[c] = 0
    BY <1>2, Zenon DEF OtherTerminal, Drms, FbOrNone
<1>4. World' = [drm |-> drm', mode |-> mode, video |-> video]
    BY DEF World, OtherTerminal
<1>5. World' \in Worlds
    BY <1>2, <1>3, <1>4 DEF Worlds
<1>6. World'.mode = World.mode /\ World'.video = World.video /\ World'.drm = drm'
    BY <1>4, WorldIs
<1>. QED
    BY <1>1, <1>3, <1>5, <1>6, WorldIs, OtherKept

\* The requests to the modes.
LEMMA ModeStep ==
    ASSUME Held(World), ScreenUp, NEW fault, NEW r, ModeGood(World, r, fault), Become(r)
    PROVE  Kept(World, World', fault)
<1>1. World.mode.open
    BY WorldIs DEF ScreenUp
<1>2. Kept(World, r, fault)
    BY <1>1, ModeKept
<1>. QED
    BY <1>2, Becomes

LEMMA UpFact ==
    ASSUME Held(World), ScreenUp
    PROVE  World.mode.open /\ World \in Worlds /\ HeldInv(World) /\ TurnsRight(World)
BY WorldIs DEF ScreenUp, Held

LEMMA ResizeStep ==
    ASSUME Held(World), NEW fault, fault # "front_map", Resize(fault)
    PROVE  Kept(World, World', fault)
<1>1. PICK r : r = drmmode_xf86crtc_resize(World, fault)
    OBVIOUS
<1>2. ScreenUp /\ Become(r)
    BY <1>1 DEF Resize
<1>3. ModeGood(World, r, fault)
    BY <1>1, <1>2, UpFact, ResizeGood
<1>. QED
    BY <1>2, <1>3, ModeStep

LEMMA SetStep ==
    ASSUME Held(World), NEW c \in Crtcs, NEW rotation \in Rotations[c], NEW fault,
           SetMode(c, rotation, fault)
    PROVE  Kept(World, World', fault)
<1>1. PICK r : r = ModeSet(World, c, rotation, fault)
    OBVIOUS
<1>2. ScreenUp /\ Become(r)
    BY <1>1 DEF SetMode
<1>3. ModeGood(World, r, fault)
    BY <1>1, <1>2, UpFact, ModeSetGood
<1>. QED
    BY <1>2, <1>3, ModeStep

LEMMA AdjustStep ==
    ASSUME Held(World), NEW c \in Crtcs, NEW fault, TegraAdjustFrame(c, fault)
    PROVE  Kept(World, World', fault)
<1>1. PICK rotation : rotation = World.mode.crtc[c].rotation
    OBVIOUS
<1>2. PICK r : r = drmmode_set_mode_major(World, c, rotation, fault)
    OBVIOUS
<1>3. ScreenUp /\ Become(r)
    BY <1>1, <1>2, WorldIs DEF TegraAdjustFrame
<1>4. World \in Worlds /\ HeldInv(World) /\ rotation \in Rotations[c]
    BY <1>1, <1>3, UpFact DEF TurnsRight
<1>5. rotation \in Nat
    BY <1>4, DisplayAssumption
<1>6. ModeGood(World, r, fault)
    BY <1>2, <1>4, <1>5, AdjustGood
<1>. QED
    BY <1>3, <1>6, ModeStep

LEMMA DisableStep ==
    ASSUME Held(World), NEW c \in Crtcs, NEW fault, Disable(c)
    PROVE  Kept(World, World', fault)
<1>1. PICK r : r = CrtcOff(World, c)
    OBVIOUS
<1>2. ScreenUp /\ Become(r)
    BY <1>1 DEF Disable
<1>3. ModeGood(World, r, fault)
    BY <1>1, <1>2, UpFact, CrtcOffGood
<1>. QED
    BY <1>2, <1>3, ModeStep

LEMMA WakeStep ==
    ASSUME Held(World), NEW fault, WakeUp
    PROVE  Kept(World, World', fault)
<1>1. PICK r : r = drmmode_crtc_dpms(World)
    OBVIOUS
<1>2. ScreenUp /\ Become(r)
    BY <1>1 DEF WakeUp
<1>3. ModeGood(World, r, fault)
    BY <1>1, <1>2, UpFact, WakeUpGood
<1>. QED
    BY <1>2, <1>3, ModeStep

\* The requests of the clients.
LEMMA PutStep ==
    ASSUME Held(World), NEW kind \in 0..2, NEW image \in Images, NEW place \in Places,
           NEW fault, fault # "wrap_fb", PutImage(kind, image, place, fault)
    PROVE  /\ Kept(World, World', fault)
           /\ fault = "none" /\ Pictured(World) /\ video'.fb # video.fb => NewShown(World', image)
<1>1. PICK x : x = TegraVideoOverlayPutImage(World, kind, image, place, fault)
    OBVIOUS
<1>2. PICK r : r = WithPort(x, x.video.port \/ x.video.success)
    OBVIOUS
<1>3. Become(r)
    BY <1>1, <1>2, Zenon DEF PutImage, WithPort
<1>4. World.mode.open
    BY UpFact DEF PutImage
<1>5. /\ Kept(World, r, fault)
      /\ fault = "none" /\ Pictured(World) /\ r.video.fb # World.video.fb => NewShown(r, image)
    BY <1>1, <1>2, <1>4, PutImageKept
<1>6. Kept(World, World', fault) /\ SameButPort(r, World')
    BY <1>3, <1>5, Becomes
<1>7. NewShown(r, image) => NewShown(World', image)
    BY <1>6 DEF SameButPort, NewShown, Turn
<1>8. World'.video = video' /\ World.video = video
    BY DEF World
<1>. QED
    BY <1>5, <1>6, <1>7, <1>8 DEF SameButPort

LEMMA ReputStep ==
    ASSUME Held(World), NEW place \in Places, NEW fault, ReputImage(place, fault)
    PROVE  Kept(World, World', fault)
<1>1. PICK r : r = TegraVideoOverlayReputImage(World, place, fault)
    OBVIOUS
<1>2. ScreenUp /\ video.port /\ Become(r)
    BY <1>1 DEF ReputImage
<1>3. World.mode.open /\ World.video.port
    BY <1>2, UpFact, WorldIs
<1>4. Kept(World, r, fault)
    BY <1>1, <1>3, ReputImageKept
<1>. QED
    BY <1>2, <1>4, Becomes

LEMMA StopStep ==
    ASSUME Held(World), NEW cleanup \in BOOLEAN, NEW fault, StopVideo(cleanup, fault)
    PROVE  Kept(World, World', fault)
<1>1. PICK x : x = TegraVideoOverlayStop(World, cleanup, fault)
    OBVIOUS
<1>2. PICK p \in BOOLEAN : p = ~cleanup
    BY Zenon
<1>3. PICK r : r = WithPort(x, p)
    OBVIOUS
<1>4. ScreenUp /\ video.port
    BY DEF StopVideo
<1>5. Become(r)
    BY <1>1, <1>2, <1>3, Zenon DEF StopVideo, WithPort
<1>6. World.mode.open /\ World.video.port
    BY <1>4, UpFact, WorldIs
<1>7. p <=> ~cleanup
    BY <1>2, Zenon
<1>8. Kept(World, r, fault)
    BY <1>1, <1>3, <1>6, <1>7, StopKept
<1>. QED
    BY <1>5, <1>8, Becomes

-----------------------------------------------------------------------------
(* The invariants.                                                         *)

NoFault(fault) == fault = "none" \/ fault \in Faults

\* A step of the screen keeps what it did before, whatever failed in it.
LEMMA StepKept ==
    ASSUME NoLeak, Held(World), [Next]_vars
    PROVE  \E fault : NoFault(fault) /\ Kept(World, World', fault)
<1>. SUFFICES ASSUME NEW fault, fault = "none", \A f : NoFault(f) => ~ Kept(World, World', f)
              PROVE  FALSE
    BY DEF NoFault
<1>1. NoFault(fault)
    BY DEF NoFault
<1>2. \A calls, f : f \in Fates(calls) => NoFault(f)
    BY DEF Fates, NoFault
<1>3. \A f : NoFault(f) => f # "wrap_fb" /\ f # "front_map"
    BY DEF NoLeak, NoFault
<1>4. CASE TegraCloseScreen
    BY <1>1, <1>4, CloseStep
<1>5. CASE OtherTerminal
    BY <1>1, <1>5, OtherStep
<1>6. CASE \E f \in Fates({"close"}) : TegraLeaveVT(f)
    BY <1>2, <1>6, LeaveStep
<1>7. CASE \E f \in Fates(ModeFaults) : TegraEnterVT(f)
    BY <1>2, <1>7, EnterStep
<1>8. CASE \E f \in Fates(ModeFaults \cup {"front_bo", "front_fb", "front_map"}) : Resize(f)
    BY <1>2, <1>3, <1>8, ResizeStep
<1>9. CASE \E c \in Crtcs, f \in Fates(ModeFaults) :
              \E rotation \in Rotations[c] : SetMode(c, rotation, f)
    BY <1>2, <1>9, SetStep
<1>10. CASE \E c \in Crtcs, f \in Fates(ModeFaults) : TegraAdjustFrame(c, f)
    BY <1>2, <1>10, AdjustStep
<1>11. CASE \E c \in Hotplug : Disable(c)
    BY <1>1, <1>11, DisplayAssumption, DisableStep
<1>12. CASE WakeUp
    BY <1>1, <1>12, WakeStep
<1>13. CASE \E picture \in Pictures, place \in Places,
               f \in Fates({"image_fb", "wrap_fb", "rotated_fb", "commit", "close"}) :
               PutImage(picture[1], picture[2], place, f)
    <2>1. PICK picture \in Pictures, place \in Places,
               f \in Fates({"image_fb", "wrap_fb", "rotated_fb", "commit", "close"}) :
               PutImage(picture[1], picture[2], place, f)
        BY <1>13
    <2>2. picture[1] \in 0..2 /\ picture[2] \in Images
        BY OverlaysAssumption DEF Images
    <2>3. NoFault(f) /\ f # "wrap_fb"
        BY <1>2, <1>3
    <2>. QED
        BY <2>1, <2>2, <2>3, PutStep
<1>14. CASE \E place \in Places, f \in Fates({"rotated_fb", "commit", "close"}) :
               ReputImage(place, f)
    BY <1>2, <1>14, ReputStep
<1>15. CASE \E cleanup \in BOOLEAN, f \in Fates({"close"}) : StopVideo(cleanup, f)
    BY <1>2, <1>15, StopStep
<1>16. CASE UNCHANGED vars
    <2>1. World' = World
        BY <1>16 DEF vars, World
    <2>. QED
        BY <1>1, <2>1 DEF Kept
<1>. QED
    BY <1>4, <1>5, <1>6, <1>7, <1>8, <1>9, <1>10, <1>11, <1>12, <1>13, <1>14, <1>15, <1>16
       DEF Next

\* The inductive invariant of the screen.
ScreenSafe == HeldAlways /\ ShownAlways /\ PictureAlways

LEMMA SafeInit == Init => ScreenSafe
<1>. SUFFICES ASSUME Init PROVE ScreenSafe
    OBVIOUS
<1>1. PICK r : r = TegraScreenInit(NothingYet)
    OBVIOUS
<1>2. /\ r \in Worlds /\ HeldInv(r) /\ Rests(r) /\ ShownInv(r) /\ PictureInv(r)
      /\ TurnsRight(r) /\ r.mode.open
    BY <1>1, InitFact
<1>3. World = r
    <2>1. r = [drm |-> r.drm, mode |-> r.mode, video |-> r.video]
        BY <1>2, WorldParts
    <2>. QED
        BY <1>1, <2>1 DEF Init, World
<1>. QED
    BY <1>2, <1>3 DEF ScreenSafe, HeldAlways, ShownAlways, PictureAlways, Held, Shown, Pictured

LEMMA SafeNext == ScreenSafe /\ [Next]_vars => ScreenSafe'
<1>. SUFFICES ASSUME NoLeak, ScreenSafe, [Next]_vars
              PROVE  /\ Held(World')
                     /\ NoBadMode => Shown(World')
                     /\ NoBadCopy => Pictured(World')
    BY DEF ScreenSafe, HeldAlways, ShownAlways, PictureAlways
<1>1. /\ Held(World)
      /\ NoBadMode => Shown(World)
      /\ NoBadCopy => Pictured(World)
    BY DEF ScreenSafe, HeldAlways, ShownAlways, PictureAlways
<1>2. PICK fault : NoFault(fault) /\ Kept(World, World', fault)
    BY <1>1, StepKept
<1>3. NoBadMode => NoModeFault(fault)
    BY <1>2 DEF NoBadMode, NoModeFault, NoShadowFault, NoFault
<1>4. NoBadCopy => fault # "rotated_fb"
    BY <1>2 DEF NoBadCopy, NoFault
<1>. QED
    BY <1>1, <1>2, <1>3, <1>4 DEF Kept

\* The invariants of the three parts of the screen hold together.
THEOREM SafeAlways == Spec => []ScreenSafe
<1>. QED
    BY SafeInit, SafeNext, PTL DEF Spec

-----------------------------------------------------------------------------
(* What the screen promises.                                               *)

\* The types of the kernel's objects, of the modes and of the overlays, after
\* any calls whose failures leak nothing.
THEOREM ScreenTyped == ASSUME NoLeak PROVE Spec => []TypeOK
<1>1. ScreenSafe => TypeOK
    <2>. SUFFICES ASSUME ScreenSafe PROVE TypeOK
        OBVIOUS
    <2>1. World \in Worlds /\ TurnsRight(World)
        BY DEF ScreenSafe, HeldAlways, Held
    <2>2. /\ drm \in Drms /\ mode \in Modes /\ video \in Videos
          /\ \A c \in Crtcs : mode.crtc[c] \in CrtcStates /\ video.overlay[c] \in OverlayStates
        BY <2>1, WorldParts, WorldIs
    <2>3. /\ drm.fb \in [Fbs -> BoOrNone] /\ (\A b \in Bos : drm.bo[b].refs \in Nat)
          /\ drm.scan \in [Crtcs -> FbOrNone] /\ drm.plane \in [Crtcs -> FbOrNone]
        BY <2>2 DEF Drms
    <2>4. /\ mode.fb_id \in FbOrNone /\ mode.front_bo \in BoOrNone
          /\ video.fb \in FbOrNone /\ video.passthrough \in 0..2
        BY <2>2 DEF Modes, Videos
    <2>5. \A c \in Crtcs :
             /\ mode.crtc[c].rotation \in Rotations[c]
             /\ mode.crtc[c].rotate_fb \in FbOrNone
             /\ mode.crtc[c].rotate_bo \in BoOrNone
        BY <2>1, <2>2, WorldIs DEF TurnsRight, CrtcStates
    <2>6. \A c \in Crtcs :
             /\ video.overlay[c].fb \in FbOrNone
             /\ video.overlay[c].fb_rotated \in FbOrNone
             /\ video.overlay[c].place \in Places \cup {{}}
        BY <2>2 DEF OverlayStates
    <2>. QED
        BY <2>3, <2>4, <2>5, <2>6 DEF TypeOK
<1>. QED
    BY <1>1, SafeAlways, PTL

\* Who may hold what.
LEMMA HolderFact ==
    /\ HeldFb(<<"front", 0>>) = mode.fb_id
    /\ HeldFb(<<"image", 0>>) = video.fb
    /\ HeldFb(<<"old image", 0>>) = video.old_fb
    /\ \A c \in Crtcs :
          /\ HeldFb(<<"shadow", c>>) = mode.crtc[c].rotate_fb
          /\ HeldFb(<<"rotated", c>>) = video.overlay[c].fb_rotated
          /\ HeldFb(<<"old rotated", c>>) = video.overlay[c].old_fb_rotated
BY DEF HeldFb

LEMMA HolderKinds ==
    ASSUME NEW h \in Holders
    PROVE  \/ h = <<"front", 0>> \/ h = <<"image", 0>> \/ h = <<"old image", 0>>
           \/ \E c \in Crtcs : \/ h = <<"shadow", c>>
                               \/ h = <<"rotated", c>> \/ h = <<"old rotated", c>>
<1>1. CASE h \in {<<"front", 0>>, <<"image", 0>>, <<"old image", 0>>}
    BY <1>1, Zenon
<1>2. CASE h \in {"shadow", "rotated", "old rotated"} \X Crtcs
    <2>1. h[1] \in {"shadow", "rotated", "old rotated"} /\ h[2] \in Crtcs /\ h = <<h[1], h[2]>>
        <3>1. ASSUME NEW A, NEW B, NEW p \in A \X B
              PROVE  p[1] \in A /\ p[2] \in B /\ p = <<p[1], p[2]>>
            OBVIOUS
        <3>. QED
            BY <1>2, <3>1, Zenon
    <2>. QED
        BY <2>1, Zenon
<1>. QED
    BY <1>1, <1>2, Zenon DEF Holders

\* No framebuffer is of two classes.
LEMMA ClassOnce ==
    ASSUME NEW f
    PROVE  /\ f \in FrontIds => f \notin ImageIds
           /\ \A c \in Crtcs :
                 /\ f \in FrontIds \cup ImageIds => f \notin ShadowIds[c] /\ f \notin RotatedIds[c]
                 /\ \A k \in Crtcs :
                       /\ f \in ShadowIds[c] => f \notin RotatedIds[k]
                       /\ f \in ShadowIds[c] /\ f \in ShadowIds[k] => c = k
                       /\ f \in RotatedIds[c] /\ f \in RotatedIds[k] => c = k
BY FramebuffersAssumption

\* A framebuffer tells its holder.
HolderOf(h, f) ==
    \/ f \in FrontIds /\ h = <<"front", 0>>
    \/ f \in ImageIds /\ f = video.fb /\ h = <<"image", 0>>
    \/ f \in ImageIds /\ f = video.old_fb /\ h = <<"old image", 0>>
    \/ \E c \in Crtcs :
          \/ f \in ShadowIds[c] /\ h = <<"shadow", c>>
          \/ /\ f \in RotatedIds[c] /\ f = video.overlay[c].fb_rotated
             /\ h = <<"rotated", c>>
          \/ /\ f \in RotatedIds[c] /\ f = video.overlay[c].old_fb_rotated
             /\ h = <<"old rotated", c>>

LEMMA HolderIs ==
    ASSUME HeldInv(World), NEW h \in Holding, NEW f, f = HeldFb(h)
    PROVE  drm.fb[f] # 0 /\ HolderOf(h, f)
<1>1. h \in Holders /\ f # 0
    BY DEF Holding
<1>2. 0 \notin FrontIds /\ \A c \in Crtcs : 0 \notin ShadowIds[c]
    BY IdsFact
<1>3. CASE h = <<"front", 0>>
    <2>1. f = mode.fb_id
        BY <1>3, HolderFact, Zenon
    <2>. QED
        BY <1>2, <1>3, <2>1, WorldIs DEF HeldInv, FrontHeld, HolderOf
<1>4. CASE h = <<"image", 0>>
    <2>1. f = video.fb
        BY <1>4, HolderFact, Zenon
    <2>. QED
        BY <1>1, <1>4, <2>1, WorldIs DEF HeldInv, OthersHeld, ImagesHeld, HolderOf
<1>5. CASE h = <<"old image", 0>>
    <2>1. f = video.old_fb
        BY <1>5, HolderFact, Zenon
    <2>. QED
        BY <1>1, <1>5, <2>1, WorldIs, Zenon DEF HeldInv, OthersHeld, ImagesHeld, HolderOf
<1>6. ASSUME NEW c \in Crtcs, h = <<"shadow", c>>
      PROVE  drm.fb[f] # 0 /\ f \in ShadowIds[c]
    <2>1. f = mode.crtc[c].rotate_fb
        BY <1>6, HolderFact, Zenon
    <2>2. ShadowHeld(World, c)
        BY DEF HeldInv, OthersHeld
    <2>. QED
        BY <1>1, <1>2, <2>1, <2>2, WorldIs DEF ShadowHeld
<1>7. ASSUME NEW c \in Crtcs, h = <<"rotated", c>>
      PROVE  drm.fb[f] # 0 /\ f \in RotatedIds[c] /\ f = video.overlay[c].fb_rotated
    <2>1. f = video.overlay[c].fb_rotated
        BY <1>7, HolderFact, Zenon
    <2>2. RotatedHeld(World, c)
        BY DEF HeldInv, OthersHeld
    <2>. QED
        BY <1>1, <2>1, <2>2, WorldIs DEF RotatedHeld
<1>8. ASSUME NEW c \in Crtcs, h = <<"old rotated", c>>
      PROVE  drm.fb[f] # 0 /\ f \in RotatedIds[c] /\ f = video.overlay[c].old_fb_rotated
    <2>1. f = video.overlay[c].old_fb_rotated
        BY <1>8, HolderFact, Zenon
    <2>2. RotatedHeld(World, c)
        BY DEF HeldInv, OthersHeld
    <2>. QED
        BY <1>1, <2>1, <2>2, WorldIs DEF RotatedHeld
<1>. QED
    BY <1>1, <1>3, <1>4, <1>5, <1>6, <1>7, <1>8, HolderKinds, Zenon DEF HolderOf

LEMMA OneHolder ==
    ASSUME HeldInv(World), NEW g \in Holding, NEW h \in Holding, HeldFb(g) = HeldFb(h)
    PROVE  g = h
<1>1. PICK f : f = HeldFb(g)
    OBVIOUS
<1>2. f # 0 /\ f = HeldFb(h)
    BY <1>1 DEF Holding
<1>3. video.fb # video.old_fb \/ f # video.fb
    BY <1>2, WorldIs DEF HeldInv, OthersHeld, ImagesHeld
<1>4. \A c \in Crtcs : \/ video.overlay[c].fb_rotated # video.overlay[c].old_fb_rotated
                       \/ f # video.overlay[c].fb_rotated
    BY <1>2, WorldIs DEF HeldInv, OthersHeld, RotatedHeld
<1>5. \A k \in Holding : HeldFb(k) = f => HolderOf(k, f)
    BY HolderIs
<1>6. CASE f \in FrontIds
    <2>1. ASSUME NEW k \in Holding, HeldFb(k) = f PROVE k = <<"front", 0>>
        BY <1>6, <2>1, <1>5, ClassOnce, Zenon DEF HolderOf
    <2>. QED
        BY <1>1, <1>2, <2>1
<1>7. CASE f \in ImageIds
    <2>1. ASSUME NEW k \in Holding, HeldFb(k) = f
          PROVE  \/ f = video.fb /\ k = <<"image", 0>>
                 \/ f = video.old_fb /\ k = <<"old image", 0>>
        BY <1>7, <2>1, <1>5, ClassOnce, Zenon DEF HolderOf
    <2>. QED
        BY <1>1, <1>2, <1>3, <2>1, Zenon
<1>8. ASSUME NEW c \in Crtcs, f \in ShadowIds[c]
      PROVE  g = h
    <2>1. ASSUME NEW k \in Holding, HeldFb(k) = f PROVE k = <<"shadow", c>>
        BY <1>8, <2>1, <1>5, ClassOnce, Zenon DEF HolderOf
    <2>. QED
        BY <1>1, <1>2, <2>1
<1>9. ASSUME NEW c \in Crtcs, f \in RotatedIds[c]
      PROVE  g = h
    <2>1. ASSUME NEW k \in Holding, HeldFb(k) = f
          PROVE  \/ f = video.overlay[c].fb_rotated /\ k = <<"rotated", c>>
                 \/ f = video.overlay[c].old_fb_rotated /\ k = <<"old rotated", c>>
        BY <1>9, <2>1, <1>5, ClassOnce, Zenon DEF HolderOf
    <2>. QED
        BY <1>1, <1>2, <1>4, <2>1, Zenon
<1>. QED
    BY <1>1, <1>5, <1>6, <1>7, <1>8, <1>9, Zenon DEF HolderOf

LEMMA SomeHolder ==
    ASSUME World \in Worlds, HeldInv(World), NEW f \in Fbs, drm.fb[f] # 0
    PROVE  \E h \in Holding : HeldFb(h) = f
<1>1. \A h \in Holders : HeldFb(h) = f => h \in Holding
    BY IdsFact DEF Holding
<1>2. /\ <<"front", 0>> \in Holders /\ <<"image", 0>> \in Holders
      /\ <<"old image", 0>> \in Holders
      /\ \A c \in Crtcs : /\ <<"shadow", c>> \in Holders
                          /\ <<"rotated", c>> \in Holders /\ <<"old rotated", c>> \in Holders
    BY Zenon DEF Holders
<1>3. CASE f \in FrontIds
    <2>1. f = mode.fb_id
        BY <1>3, WorldIs DEF HeldInv, FrontHeld
    <2>. QED
        BY <1>1, <1>2, <2>1, HolderFact, Zenon
<1>4. CASE f \in ImageIds
    <2>1. f = video.fb \/ f = video.old_fb
        BY <1>4, WorldIs DEF HeldInv, OthersHeld, ImagesHeld
    <2>. QED
        BY <1>1, <1>2, <2>1, HolderFact, Zenon
<1>5. ASSUME NEW c \in Crtcs, f \in ShadowIds[c]
      PROVE  \E h \in Holding : HeldFb(h) = f
    <2>1. f = mode.crtc[c].rotate_fb
        BY <1>5, WorldIs DEF HeldInv, OthersHeld, ShadowHeld
    <2>. QED
        BY <1>1, <1>2, <2>1, HolderFact, Zenon
<1>6. ASSUME NEW c \in Crtcs, f \in RotatedIds[c]
      PROVE  \E h \in Holding : HeldFb(h) = f
    <2>1. f = video.overlay[c].fb_rotated \/ f = video.overlay[c].old_fb_rotated
        BY <1>6, WorldIs DEF HeldInv, OthersHeld, RotatedHeld
    <2>. QED
        BY <1>1, <1>2, <2>1, HolderFact, Zenon
<1>. QED
    BY <1>3, <1>4, <1>5, <1>6, ClassFact

\* Over failed requests, shared rotated copies and the loss of the terminal no
\* framebuffer of the driver is lost, freed twice or freed under one that shares
\* its memory, if no failing call leaks one.
THEOREM FramebuffersAlwaysHeld == ASSUME NoLeak PROVE Spec => []FramebuffersHeld
<1>1. ScreenSafe => FramebuffersHeld
    <2>. SUFFICES ASSUME ScreenSafe, mode.open
                  PROVE  /\ \A h \in Holding : drm.fb[HeldFb(h)] # 0
                         /\ \A g, h \in Holding : HeldFb(g) = HeldFb(h) => g = h
                         /\ \A f \in Fbs : drm.fb[f] # 0 => \E h \in Holding : HeldFb(h) = f
                         /\ \A b \in Bos : drm.bo[b].refs = Cardinality({f \in Fbs : drm.fb[f] = b})
        BY DEF FramebuffersHeld
    <2>1. World \in Worlds /\ HeldInv(World)
        BY WorldIs DEF ScreenSafe, HeldAlways, Held
    <2>2. \A b \in Bos : drm.bo[b].refs = Cardinality({f \in Fbs : drm.fb[f] = b})
        BY <2>1, WorldIs DEF HeldInv, OthersHeld, Refs
    <2>3. \A h \in Holding : drm.fb[HeldFb(h)] # 0
        BY <2>1, HolderIs
    <2>4. \A g, h \in Holding : HeldFb(g) = HeldFb(h) => g = h
        BY <2>1, OneHolder
    <2>5. \A f \in Fbs : drm.fb[f] # 0 => \E h \in Holding : HeldFb(h) = f
        BY <2>1, SomeHolder
    <2>. QED
        BY <2>2, <2>3, <2>4, <2>5
<1>. QED
    BY <1>1, SafeAlways, PTL

\* While the driver has the terminal every enabled CRTC shows its shadow, or the
\* front when it is upright, and the server draws into the front that is shown,
\* if the kernel refuses no mode and no shadow.
THEOREM ScreenAlwaysShown == ASSUME NoLeak, NoBadMode PROVE Spec => []ScreenShown
<1>1. ScreenSafe => ScreenShown
    <2>. SUFFICES ASSUME ScreenSafe, ScreenUp
                  PROVE  /\ mode.pixmap = mode.front_bo
                         /\ mode.fb_id # 0 => drm.fb[mode.fb_id] = mode.pixmap
                         /\ \A c \in Crtcs : mode.crtc[c].enabled =>
                               /\ drm.scan[c] = IF mode.crtc[c].rotation = 0 THEN mode.fb_id
                                                ELSE mode.crtc[c].rotate_fb
                               /\ mode.crtc[c].rotation # 0 =>
                                     drm.fb[mode.crtc[c].rotate_fb] = mode.crtc[c].rotate_bo
                               /\ mode.crtc[c].shadow \in {0, mode.crtc[c].rotate_bo}
        BY DEF ScreenShown
    <2>1. mode.open /\ mode.vtSema /\ HeldInv(World) /\ ShownInv(World)
        BY WorldIs DEF ScreenSafe, HeldAlways, ShownAlways, Held, Shown, ScreenUp
    <2>2. /\ mode.pixmap = mode.front_bo
          /\ drm.fb[mode.fb_id] = mode.front_bo
        BY <2>1, WorldIs DEF HeldInv, FrontHeld, ShownInv
    <2>3. ASSUME NEW c \in Crtcs, mode.crtc[c].enabled
          PROVE  /\ drm.scan[c] = IF mode.crtc[c].rotation = 0 THEN mode.fb_id
                                  ELSE mode.crtc[c].rotate_fb
                 /\ mode.crtc[c].rotation # 0 =>
                       drm.fb[mode.crtc[c].rotate_fb] = mode.crtc[c].rotate_bo
                 /\ mode.crtc[c].shadow \in {0, mode.crtc[c].rotate_bo}
        <3>1. Shows(World, c) /\ ShadowWhole(World, c) /\ ShadowThere(World, c)
            BY <2>1, <2>3, WorldIs DEF ShownInv
        <3>2. ShadowHeld(World, c)
            BY <2>1 DEF HeldInv, OthersHeld
        <3>3. mode.crtc[c].rotation # 0 => mode.crtc[c].rotate_fb \in ShadowIds[c]
            BY <2>3, <3>1, <3>2, WorldIs DEF ShadowThere, ShadowHeld
        <3>4. mode.crtc[c].rotation # 0 => drm.fb[mode.crtc[c].rotate_fb] = mode.crtc[c].rotate_bo
            BY <3>2, <3>3, WorldIs DEF ShadowHeld
        <3>. QED
            BY <3>1, <3>4, WorldIs DEF Shows, ShadowWhole
    <2>. QED
        BY <2>2, <2>3
<1>. QED
    BY <1>1, SafeAlways, PTL

\* A plane shows the picture put last or nothing, whatever else was refused, if
\* no rotated copy of a picture is.
THEOREM NeverOldPicture == ASSUME NoLeak, NoBadCopy PROVE Spec => []NoOldPicture
<1>1. ScreenSafe => NoOldPicture
    <2>. SUFFICES ASSUME ScreenSafe, NEW c \in Crtcs, drm.plane[c] # 0
                  PROVE  /\ video.fb # 0
                         /\ Pixels(drm, drm.plane[c]).image = Pixels(drm, video.fb).image
        BY DEF NoOldPicture
    <2>1. Pictured(World) /\ Held(World)
        BY DEF ScreenSafe, HeldAlways, PictureAlways
    <2>2. mode.open
        BY <2>1, WorldIs DEF Pictured
    <2>3. /\ PlaneOwn(World, c) /\ CopyRight(World, c)
          /\ video.port /\ video.fb # 0 /\ video.old_fb = 0
        BY <2>1, <2>2, WorldIs DEF Pictured, PictureInv, CopyInv, Held, Rests
    <2>. DEFINE o == video.overlay[c]
    <2>4. drm.plane[c] \in {video.fb, o.fb_rotated, o.old_fb_rotated}
        BY <2>3, WorldIs DEF PlaneOwn
    <2>5. CASE drm.plane[c] = video.fb
        BY <2>3, <2>5
    <2>6. CASE drm.plane[c] = o.fb_rotated
        <3>1. o.fb = video.fb
            BY <2>3, <2>6, WorldIs DEF CopyRight
        <3>2. Pixels(drm, o.fb_rotated) = Picture(Image(World, video.fb), o.rotation)
            BY <2>3, <2>6, <3>1, WorldIs DEF CopyRight
        <3>3. Pixels(drm, o.fb_rotated).image = Image(World, video.fb)
            BY <3>2 DEF Picture
        <3>. QED
            BY <2>3, <2>6, <3>3, WorldIs DEF Image
    <2>7. CASE drm.plane[c] = o.old_fb_rotated
        BY <2>3, <2>7, WorldIs DEF CopyRight, Image
    <2>. QED
        BY <2>4, <2>5, <2>6, <2>7
<1>. QED
    BY <1>1, SafeAlways, PTL

\* A new picture that meets no fault is seen on every visible overlay, the right way
\* up, whatever failed before.
THEOREM NewPictureAlwaysShown == ASSUME NoLeak, NoBadCopy PROVE Spec => NewPictureShown
<1>. DEFINE image == Pixels(drm', video'.fb).image
            New == /\ video'.fb \notin {0, video.fb}
                   /\ \E place \in Places :
                         PutImage(video'.passthrough, image, place, "none")
            Seen == \A c \in Crtcs :
                       video'.overlay[c].visible =>
                          /\ drm'.plane[c] # 0
                          /\ Pixels(drm', drm'.plane[c]) = Picture(image, mode'.crtc[c].rotation)
<1>1. ASSUME ScreenSafe, ScreenSafe', [Next]_vars, New PROVE Seen
    <2>1. Held(World) /\ Pictured(World) /\ Held(World')
        BY <1>1 DEF ScreenSafe, HeldAlways, PictureAlways
    <2>2. World'.drm = drm' /\ World'.mode = mode' /\ World'.video = video'
        BY DEF World
    <2>3. World' \in Worlds /\ HeldInv(World')
        BY <1>1, <2>1, <2>2 DEF Held
    <2>4. video'.passthrough \in 0..2
        BY <2>2, <2>3, WorldParts DEF Videos
    <2>5. image \in Images
        <3>1. drm' \in Drms /\ video'.fb \in Fbs /\ drm'.fb[video'.fb] # 0
            BY <1>1, <2>2, <2>3, WorldParts, IdsFact DEF HeldInv, OthersHeld, ImagesHeld
        <3>. QED
            BY <3>1 DEF Drms, BoOrNone, Pixels
    <2>6. PICK place \in Places : PutImage(video'.passthrough, image, place, "none")
        BY <1>1
    <2>7. NewShown(World', image)
        <3>. HIDE DEF image
        <3>1. PICK kind : kind = video'.passthrough
            OBVIOUS
        <3>2. PICK fault : fault = "none"
            OBVIOUS
        <3>3. PutImage(kind, image, place, fault) /\ kind \in 0..2 /\ fault # "wrap_fb"
            BY <2>4, <2>6, <3>1, <3>2
        <3>4. video'.fb # video.fb
            BY <1>1
        <3>. QED
            BY <2>1, <2>5, <3>2, <3>3, <3>4, PutStep
    <2>. QED
        BY <2>2, <2>7 DEF NewShown, Turn
<1>2. ScreenSafe /\ ScreenSafe' /\ [Next]_vars => [New => Seen]_vars
    BY <1>1
<1>3. Spec => [][New => Seen]_vars
    BY <1>2, SafeAlways, PTL DEF Spec
<1>. QED
    BY <1>3 DEF NewPictureShown
=============================================================================
