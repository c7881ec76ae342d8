------------------------------- MODULE Display ------------------------------
(***************************************************************************)
(* Mode setting (drmmode_display.c): the front framebuffer of the screen,  *)
(* which the server draws into and a resize replaces, the shadow           *)
(* framebuffers of rotated CRTCs, and what each CRTC is made to show.      *)
(*                                                                         *)
(* A handler is a chain of calls, any of which may fail.  It is written    *)
(* as an operator on the state w == [drm, mode, video], so that handlers   *)
(* call each other as in the code, with the call that fails as a parameter *)
(* ("none": all succeed).  Sizes, gamma, outputs and their properties, the   *)
(* cursor and a panel mounted upside down are left out.                    *)
(***************************************************************************)
EXTENDS Framebuffers

CONSTANTS
    Rotations,  \* the rotations of each CRTC, 0 is none; it starts with the least
    Hotplug,    \* the CRTCs that may lose their outputs
    Faults      \* the calls that may fail, see the handlers

ASSUME DisplayAssumption ==
    /\ \A c \in Crtcs : Rotations[c] \subseteq Nat /\ Rotations[c] # {}
    /\ Hotplug \subseteq Crtcs

VARIABLE mode  \* struct drmmode, the screen, and crtc: what server and
               \* driver keep of each CRTC

\* What may become of a handler that makes these calls.
Fates(calls) == {"none"} \cup (calls \cap Faults)
ModeFaults == {"rotate_bo", "rotate_fb", "mode"}

\* rotate_bo, rotate_fb: of the driver.  data, shadow: rotatedData and the BO
\* under rotatedPixmap, of the server.  on: dpms_mode is DPMSModeOn.
NewCrtc(c) == [enabled |-> TRUE, on |-> TRUE, rotation |-> 0,
               desired |-> Min(Rotations[c]), rotate_bo |-> 0, rotate_fb |-> 0,
               data |-> 0, shadow |-> 0]

\* The loops of the handlers: Op for each of the CRTCs in S, in order.
ForEach(S, Op(_, _), w) ==
    LET first == IF 0 \in S THEN Op(w, 0) ELSE w
    IN  IF 1 \in S THEN Op(first, 1) ELSE first

\* Mutant of EnabledCrtcs: those that are awake.
AwakeCrtcs(w) == {c \in Crtcs : w.mode.crtc[c].enabled /\ w.mode.crtc[c].on}

EnabledCrtcs(w) == {c \in Crtcs : w.mode.crtc[c].enabled}

tegra_crtc_on(w, c) == w.mode.crtc[c].enabled /\ w.mode.crtc[c].on

------------------------------------------- (* shadows of rotated CRTCs *)
\* When the kernel refuses the framebuffer the BO is freed and rotate_bo
\* left as it is.
drmmode_shadow_allocate(w, c, fault) ==
    LET b == NewBo(w.drm, ShadowIds[c])
        d == dumb_bo_create(w.drm, ShadowIds[c])
    IN CASE fault = "rotate_bo" -> [w EXCEPT !.mode.crtc[c].rotate_bo = 0]
         [] fault = "rotate_fb" ->
              [w EXCEPT !.drm = dumb_bo_destroy(d, b),
                        !.mode.crtc[c].rotate_bo = b]
         [] OTHER ->
              [w EXCEPT !.drm = AddFB(d, ShadowIds[c], b),
                        !.mode.crtc[c] = [@ EXCEPT !.rotate_bo = b, !.data = b,
                                                   !.rotate_fb = NewFb(d, ShadowIds[c])]]

drmmode_shadow_create(w, c) ==
    [w EXCEPT !.mode.crtc[c].shadow = w.mode.crtc[c].rotate_bo]

\* The server forgets pixmap and data afterwards.
drmmode_shadow_destroy(w, c) ==
    LET k == w.mode.crtc[c]
        gone == [w EXCEPT !.mode.crtc[c].shadow = 0]
    IN IF k.data = 0 THEN gone
       ELSE [gone EXCEPT !.drm = dumb_bo_destroy(RmFB(@, k.rotate_fb), k.rotate_bo),
                         !.mode.crtc[c] = [@ EXCEPT !.rotate_bo = 0, !.data = 0,
                                                    !.rotate_fb = 0]]

\* The server's part of a rotation: the shadow is made once, drawn through at
\* the next refresh of the screen, and goes when the CRTC is upright again.
xf86CrtcRotate(w, c, fault) ==
    IF w.mode.crtc[c].rotation = 0 THEN drmmode_shadow_destroy(w, c)
    ELSE IF w.mode.crtc[c].data # 0 THEN w
    ELSE LET made == drmmode_shadow_allocate(w, c, fault)
         IN IF made.mode.crtc[c].data = 0 THEN made
            ELSE drmmode_shadow_create(made, c)

RotateFails(w, c, fault) ==
    /\ w.mode.crtc[c].rotation # 0 /\ w.mode.crtc[c].data = 0
    /\ fault \in {"rotate_bo", "rotate_fb"}

---------------------------------------------------------- (* mode setting *)
AddRefused(w, fault) == w.mode.fb_id = 0 /\ fault = "front_fb"

FrontAdded(w) ==
    IF w.mode.fb_id # 0 THEN w
    ELSE [w EXCEPT !.drm = AddFB(@, FrontIds, w.mode.front_bo),
                   !.mode.fb_id = NewFb(w.drm, FrontIds)]

\* It answers FALSE only when the front framebuffer cannot be added.  A shadow
\* that cannot be had, and a mode the kernel refuses, leave the CRTC with
\* the new rotation, showing what is left.
drmmode_set_mode_major(w, c, rotation, fault) ==
    LET asked   == [FrontAdded(w) EXCEPT !.mode.crtc[c].rotation = rotation]
        rotated == xf86CrtcRotate(asked, c, fault)
        shadow  == rotated.mode.crtc[c].rotate_fb
    IN IF AddRefused(w, fault) THEN w
       ELSE IF RotateFails(asked, c, fault) \/ fault = "mode" THEN rotated
       ELSE [rotated EXCEPT !.drm =
                SetCrtc(@, c, IF shadow # 0 THEN shadow ELSE rotated.mode.fb_id)]

\* Every enabled CRTC as the server wants it, the others off.
SetDesiredMode(w, c, fault) ==
    IF w.mode.crtc[c].enabled
    THEN drmmode_set_mode_major(w, c, w.mode.crtc[c].desired, fault)
    ELSE [w EXCEPT !.drm = SetCrtc(@, c, 0)]

drmmode_set_desired_modes(w, fault) ==
    ForEach(Crtcs, LAMBDA acc, c : SetDesiredMode(acc, c, fault), w)

\* The old front is kept until every CRTC shows the new one.  A failure
\* takes back the new BO, but not a framebuffer already added.
drmmode_xf86crtc_resize(w, fault) ==
    LET b     == NewBo(w.drm, FrontIds)
        made  == dumb_bo_create(w.drm, FrontIds)
        added == AddFB(made, FrontIds, b)
        new   == [w EXCEPT !.drm = added,
                           !.mode = [@ EXCEPT !.front_bo = b, !.pixmap = b,
                                              !.fb_id = NewFb(made, FrontIds)]]
        set   == ForEach(EnabledCrtcs(new), LAMBDA acc, c : drmmode_set_mode_major(
                                acc, c, acc.mode.crtc[c].rotation, fault), new)
    IN CASE fault = "front_bo"  -> w
         [] fault = "front_fb"  -> [w EXCEPT !.drm = dumb_bo_destroy(made, b)]
         [] fault = "front_map" -> [w EXCEPT !.drm = dumb_bo_destroy(added, b)]
         [] OTHER ->
              IF w.mode.fb_id = 0 THEN set
              ELSE [set EXCEPT !.drm = dumb_bo_destroy(RmFB(@, w.mode.fb_id),
                                                       w.mode.front_bo)]

drmmode_create_initial_bos(w) ==
    [w EXCEPT !.drm = dumb_bo_create(@, FrontIds),
              !.mode.front_bo = NewBo(w.drm, FrontIds)]

\* The root pixmap is put over the front BO.
drmmode_map_front_bo(w) == [w EXCEPT !.mode.pixmap = w.mode.front_bo]

drmmode_free_bos(w) ==
    [w EXCEPT !.drm = dumb_bo_destroy(RmFB(@, w.mode.fb_id), w.mode.front_bo),
              !.mode.fb_id = 0, !.mode.front_bo = 0]

------------------------------------------------- (* requests of the server *)
\* RandR gives a CRTC a mode and a rotation, and takes note of them when the
\* driver agrees.
ModeSet(w, c, rotation, fault) ==
    LET on == [w EXCEPT !.mode.crtc[c].enabled = TRUE]
    IN IF AddRefused(w, fault) THEN w
       ELSE [drmmode_set_mode_major(on, c, rotation, fault)
                EXCEPT !.mode.crtc[c].desired = rotation]

\* xf86DisableUnusedFunctions(): the shadow goes and dpms_mode is set to off;
\* the kernel is not told, and no later mode sets dpms_mode to on again.
CrtcOff(w, c) ==
    [drmmode_shadow_destroy(w, c) EXCEPT !.mode.crtc[c] =
        [@ EXCEPT !.enabled = FALSE, !.on = FALSE]]

\* xf86DPMSSet() goes through the enabled CRTCs when the screen wakes up.  Its
\* going to sleep is to the overlays like a window that is elsewhere.
drmmode_crtc_dpms(w) ==
    LET Awake(k) == [k EXCEPT !.on = k.on \/ k.enabled]
    IN  [w EXCEPT !.mode.crtc = [c \in Crtcs |-> Awake(w.mode.crtc[c])]]
=============================================================================
