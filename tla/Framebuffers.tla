---------------------------- MODULE Framebuffers ----------------------------
(***************************************************************************)
(* The kernel's framebuffers, what its CRTCs and overlay planes scan out,  *)
(* and the BOs the driver puts under them (drm_plane.c and the dumb BOs of *)
(* drmmode_display.c).                                                     *)
(*                                                                         *)
(* A framebuffer is named by its id.  A framebuffer of an overlay is a     *)
(* struct drm_overlay_fb with an id of its own, both made and freed        *)
(* together, so the id stands for the address of the struct as well: ids   *)
(* and addresses are both used again.  Any free id may be given, so each   *)
(* purpose draws on ids of its own.  The planes Y, Cb and Cr of a picture  *)
(* are one BO here.  0 is "none".                                          *)
(***************************************************************************)
EXTENDS Integers, FiniteSets, FiniteSetsExt

CONSTANTS
    Crtcs,    \* the CRTCs, each with one overlay plane of its own
    FrontIds, ImageIds,      \* ids of framebuffers of the screen and pictures
    ShadowIds, RotatedIds,   \* and of rotated CRTCs and pictures, by CRTC
    Blank                    \* what a new BO holds

Fbs == FrontIds \cup ImageIds
       \cup UNION {ShadowIds[c] \cup RotatedIds[c] : c \in Crtcs}

\* BOs are numbered alike.
Bos == Fbs

\* Two CRTCs at most (overlay[2] of struct TegraVideo), and more ids than the
\* driver ever holds.
ASSUME FramebuffersAssumption ==
    /\ Crtcs \in {{0}, {0, 1}}
    /\ Fbs \subseteq Nat \ {0} /\ IsFiniteSet(Fbs)
    /\ FrontIds \cap ImageIds = {}
    /\ \A c \in Crtcs :
          /\ (FrontIds \cup ImageIds) \cap (ShadowIds[c] \cup RotatedIds[c]) = {}
          /\ \A k \in Crtcs : ShadowIds[c] \cap RotatedIds[k] = {}
          /\ \A k \in Crtcs \ {c} : /\ ShadowIds[c] \cap ShadowIds[k] = {}
                                    /\ RotatedIds[c] \cap RotatedIds[k] = {}
    /\ \A f \in Fbs : FrontIds \ {f} # {} /\ ImageIds \ {f} # {}
    /\ \A c \in Crtcs : ShadowIds[c] # {}
    /\ \A c \in Crtcs, f, g, h, k \in Fbs : RotatedIds[c] \ {f, g, h, k} # {}

VARIABLE drm  \* fb: the BO under each framebuffer;  bo: references, pixels
              \* scan, plane: the framebuffer a CRTC and its overlay show

Picture(image, rotation) == [image |-> image, rotation |-> rotation]
NoBo == [refs |-> 0, pixels |-> Picture(Blank, 0)]

Pixels(d, f) == d.bo[d.fb[f]].pixels

\* The framebuffer and the BO made next with these ids.  A framebuffer keeps
\* the memory of its BO, whatever the driver does with it.
NewFb(d, ids) == Min({f \in ids : d.fb[f] = 0})
NewBo(d, ids) ==
    LET free == {b \in ids : d.bo[b].refs = 0 /\ \A f \in Fbs : d.fb[f] # b}
    IN IF NewFb(d, ids) \in free THEN NewFb(d, ids) ELSE Min(free)

------------------------------------------------------------------- (* BOs *)
\* Of the BO library (BoCache) only the references and what the memory holds: a
\* BO without references is as good as freed, whether it is kept for reuse or not.
BoNew(d, ids, pixels) ==
    [d EXCEPT !.bo[NewBo(d, ids)] = [refs |-> 1, pixels |-> pixels]]

BoRef(d, b) == [d EXCEPT !.bo[b].refs = @ + 1]

BoUnref(d, b) ==
    IF b = 0 THEN d
    ELSE IF d.bo[b].refs = 1 THEN [d EXCEPT !.bo[b] = NoBo]
    ELSE [d EXCEPT !.bo[b].refs = @ - 1]

dumb_bo_create(d, ids) == BoNew(d, ids, Picture(Blank, 0))
dumb_bo_destroy(d, b) == BoUnref(d, b)

---------------------------------------------------- (* the kernel's calls *)
AddFB(d, ids, b) == [d EXCEPT !.fb[NewFb(d, ids)] = b]

\* The kernel switches off whatever still shows the framebuffer.
RmFB(d, f) ==
    LET Without(shown) == [c \in Crtcs |-> IF shown[c] = f THEN 0 ELSE shown[c]]
    IN IF f = 0 THEN d
       ELSE [d EXCEPT !.fb[f] = 0, !.scan = Without(@), !.plane = Without(@)]

SetCrtc(d, c, f) == [d EXCEPT !.scan[c] = f]

SetPlane(d, c, f) == [d EXCEPT !.plane[c] = f]

------------------------------------------- (* framebuffers of the overlays *)
\* Memory of its own (drm_create_fb, drm_create_fb2).
drm_create_fb(d, ids, pixels) ==
    AddFB(BoNew(d, ids, pixels), ids, NewBo(d, ids))

\* Memory of the client: the BO is wrapped first, which asks nothing of the
\* kernel, and stays when the kernel refuses the framebuffer.
drm_create_fb_from_handle(d, ids, pixels, refused) ==
    IF refused THEN BoNew(d, ids, pixels)
    ELSE AddFB(BoNew(d, ids, pixels), ids, NewBo(d, ids))

\* Mutant of drm_clone_fb: the memory is not referenced again.
CloneUnreferenced(d, ids, f) == AddFB(d, ids, d.fb[f])

\* A second framebuffer of the same memory.
drm_clone_fb(d, ids, f) == BoRef(AddFB(d, ids, d.fb[f]), d.fb[f])

drm_free_overlay_fb(d, f) ==
    IF f = 0 THEN d ELSE BoUnref(RmFB(d, f), d.fb[f])

drm_copy_data_to_fb(d, f, image) ==
    [d EXCEPT !.bo[d.fb[f]].pixels = Picture(image, 0)]
=============================================================================
