------------------------------ MODULE Overlays ------------------------------
(***************************************************************************)
(* Video overlays (xv.c): one picture at a time, shown by the overlay      *)
(* planes of the CRTCs its window touches, through a rotated copy where    *)
(* the CRTC is rotated.  The driver remembers what it made each plane show *)
(* and asks the kernel for the differences only.                           *)
(*                                                                         *)
(* A window is known by the CRTCs it touches, which stands for its         *)
(* position as well.  Colour key, colour space, the choice of the best     *)
(* overlay and the blocking of the hardware cursor are left out.           *)
(***************************************************************************)
EXTENDS Display

CONSTANTS
    Pictures, \* what clients send: <<kind, image>>, with kind the value of
              \* passthrough: 0 is copied, 1 and 2 name memory of the client
    Places    \* places of a window: sets of CRTCs

ASSUME OverlaysAssumption ==
    /\ \A picture \in Pictures : picture[1] \in 0..2
    /\ Places \subseteq SUBSET Crtcs

VARIABLE video  \* struct TegraVideo; port: the server has the video on;
                \* success: the answer to the request at hand

NewOverlay == [fb |-> 0, fb_rotated |-> 0, old_fb_rotated |-> 0, rotation |-> 0,
               place |-> {}, visible |-> FALSE]

TegraXvInit ==
    [fb |-> 0, old_fb |-> 0, passthrough |-> 0, passthrough_data |-> Blank,
     port |-> FALSE, success |-> TRUE,
     overlay |-> [c \in Crtcs |-> NewOverlay]]

\* The other one of the two overlays.
Sibling(w, c) ==
    IF 1 - c \in Crtcs THEN w.video.overlay[1 - c] ELSE NewOverlay

-------------------------------------------------------- (* framebuffers *)
DestroyRotated(w, c) ==
    [w EXCEPT !.drm = drm_free_overlay_fb(
                        drm_free_overlay_fb(@, w.video.overlay[c].fb_rotated),
                        w.video.overlay[c].old_fb_rotated),
              !.video.overlay[c] = [@ EXCEPT !.fb_rotated = 0, !.old_fb_rotated = 0]]

DestroyOldRotated(w, c) ==
    [w EXCEPT !.drm = drm_free_overlay_fb(@, w.video.overlay[c].old_fb_rotated),
              !.video.overlay[c].old_fb_rotated = 0]

\* Mutant of DestroyOld: the picture itself stays.
DestroyOldCopies(w) == ForEach(Crtcs, DestroyOldRotated, w)

\* The framebuffers of the last picture.
DestroyOld(w) ==
    ForEach(Crtcs, DestroyOldRotated,
            [w EXCEPT !.drm = drm_free_overlay_fb(@, w.video.old_fb),
                      !.video.old_fb = 0])

\* Memory of the client that is shown already is shown again; anything else
\* is a new framebuffer, and the one before is kept for now.  The data are
\* compared for equal kinds only, so a copied picture may forget them.
SamePicture(w, kind, image) ==
    /\ kind # 0 /\ w.video.fb # 0
    /\ w.video.passthrough = kind /\ w.video.passthrough_data = image

\* A name of memory that cannot be opened counts as opened (xv.c:778), and its
\* handle, which nobody wrote, is wrapped: the kernel refuses it then ("wrap_fb").
CreateRefused(fault) == fault \in {"image_fb", "wrap_fb"}

TegraVideoOverlayCreateFB(w, kind, image, fault) ==
    LET pixels == IF kind = 0 THEN Picture(Blank, 0) ELSE Picture(image, 0)
    IN IF SamePicture(w, kind, image) THEN w
       ELSE IF CreateRefused(fault)
       THEN [w EXCEPT !.drm = IF fault = "wrap_fb" /\ kind # 0
                              THEN drm_create_fb_from_handle(@, ImageIds, pixels, TRUE)
                              ELSE @]
       ELSE [w EXCEPT
               !.drm = IF kind = 0 THEN drm_create_fb(@, ImageIds, pixels)
                       ELSE drm_create_fb_from_handle(@, ImageIds, pixels, FALSE),
               !.video = [@ EXCEPT
                    !.old_fb = w.video.fb, !.fb = NewFb(w.drm, ImageIds), !.passthrough = kind,
                    !.passthrough_data = IF kind = 0 THEN Blank ELSE image]]

---------------------------------------------------------- (* the overlays *)
\* Mutant of TegraVideoOverlayClose: what it showed is remembered.
CloseRemembers(w, c, fault) ==
    LET off == IF fault = "close" THEN w
               ELSE [w EXCEPT !.drm = SetPlane(@, c, 0)]
    IN DestroyRotated([off EXCEPT !.video.overlay[c].visible = FALSE], c)

\* The plane is switched off; should that fail, the driver goes on as if not.
\* Rotation and place are not looked at again without an fb: they start anew.
TegraVideoOverlayClose(w, c, fault) ==
    LET off == IF fault = "close" THEN w
               ELSE [w EXCEPT !.drm = SetPlane(@, c, 0)]
    IN DestroyRotated([off EXCEPT !.video.overlay[c] =
                            [@ EXCEPT !.visible = FALSE, !.fb = 0,
                                      !.rotation = 0, !.place = {}]], c)

\* The overlays of the CRTCs the window does not touch are closed.
Covered(w, c, place, fault) ==
    IF c \in place /\ tegra_crtc_on(w, c)
    THEN [w EXCEPT !.video.overlay[c].visible = TRUE]
    ELSE TegraVideoOverlayClose(w, c, fault)

TegraVideoUpdateOverlayCoverage(w, place, fault) ==
    ForEach(Crtcs, LAMBDA acc, c : Covered(acc, c, place, fault), w)

AnyVisible(w) == \E c \in Crtcs : w.video.overlay[c].visible

\* The copy the sibling has just made is shared, else the GPU makes one.
CanClone(w, c, rotation) ==
    /\ Sibling(w, c).fb_rotated # 0
    /\ Sibling(w, c).fb = w.video.fb
    /\ Sibling(w, c).rotation = rotation

RotateRefused(rotation, fault) == rotation # 0 /\ fault = "rotated_fb"

TegraVideoOverlayUpdateRotatedFb(w, c, rotation) ==
    LET o      == w.video.overlay[c]
        copied == Picture(Pixels(w.drm, w.video.fb).image, rotation)
        made   == IF rotation = 0 THEN w.drm
                  ELSE IF CanClone(w, c, rotation)
                  THEN drm_clone_fb(w.drm, RotatedIds[c], Sibling(w, c).fb_rotated)
                  ELSE drm_create_fb(w.drm, RotatedIds[c], copied)
    IN [w EXCEPT
          !.drm = drm_free_overlay_fb(made, o.old_fb_rotated),
          !.video.overlay[c] =
             [@ EXCEPT !.old_fb_rotated = o.fb_rotated,
                       !.fb_rotated = IF rotation = 0 THEN 0
                                        ELSE NewFb(w.drm, RotatedIds[c])]]

NoWish == -1

\* r == [w, req, ok]: the state, what each plane is asked to show so far (NoWish:
\* what it shows), and whether all went well.  What an overlay shows already is not asked for; the
\* rest is remembered as shown before the kernel is asked.
TegraVideoOverlayPutImageOnOverlay(r, c, place, fault) ==
    LET o        == r.w.video.overlay[c]
        fb       == r.w.video.fb
        rotation == r.w.mode.crtc[c].rotation
        anew     == o.fb # fb \/ o.rotation # rotation
        u        == IF anew THEN TegraVideoOverlayUpdateRotatedFb(r.w, c, rotation)
                    ELSE r.w
        rotated  == u.video.overlay[c].fb_rotated
    IN IF ~r.ok \/ ~o.visible THEN r
       ELSE IF anew /\ RotateRefused(rotation, fault) THEN [r EXCEPT !.ok = FALSE]
       ELSE IF ~anew /\ o.place = place THEN r
       ELSE [r EXCEPT
              !.w = [u EXCEPT !.video.overlay[c] =
                        [@ EXCEPT !.fb = fb, !.rotation = rotation, !.place = place]],
              !.req[c] = IF rotated # 0 THEN rotated ELSE fb]

\* All of the request or, when the kernel refuses it, nothing.
Commit(d, req) ==
    ForEach({c \in Crtcs : req[c] # NoWish}, LAMBDA acc, c : SetPlane(acc, c, req[c]), d)

TegraVideoOverlayPutImageOnOverlays(w, place, fault) ==
    LET none == [c \in Crtcs |-> NoWish]
        r  == ForEach(Crtcs, LAMBDA acc, c :
                          TegraVideoOverlayPutImageOnOverlay(acc, c, place, fault),
                      [w |-> w, req |-> none, ok |-> TRUE])
        ok == r.ok /\ ~(r.req # none /\ fault = "commit")
    IN [r.w EXCEPT !.video.success = ok,
                   !.drm = IF ok THEN Commit(@, r.req) ELSE @]

---------------------------------------------- (* requests of the clients *)
\* A copied picture is copied only when some overlay will show it.  The
\* framebuffers of the last picture go in any case.
TegraVideoOverlayPutImage(w, kind, image, place, fault) ==
    LET refused == CreateRefused(fault) /\ ~SamePicture(w, kind, image)
        created == TegraVideoOverlayCreateFB(w, kind, image, fault)
        covered == TegraVideoUpdateOverlayCoverage(created, place, fault)
        copied  == IF kind # 0 THEN covered
                   ELSE [covered EXCEPT
                            !.drm = drm_copy_data_to_fb(@, covered.video.fb, image)]
    IN IF refused THEN [created EXCEPT !.video.success = FALSE]
       ELSE IF AnyVisible(covered)
       THEN DestroyOld(TegraVideoOverlayPutImageOnOverlays(copied, place, fault))
       ELSE DestroyOld([covered EXCEPT !.video.success = TRUE])

TegraVideoOverlayReputImage(w, place, fault) ==
    LET covered == TegraVideoUpdateOverlayCoverage(w, place, fault)
    IN IF AnyVisible(covered)
       THEN TegraVideoOverlayPutImageOnOverlays(covered, place, fault)
       ELSE [covered EXCEPT !.video.success = TRUE]

TegraVideoOverlayStop(w, cleanup, fault) ==
    LET closed == ForEach(Crtcs, LAMBDA acc, c : TegraVideoOverlayClose(acc, c, fault), w)
    IN IF ~cleanup THEN closed
       ELSE [closed EXCEPT !.drm = drm_free_overlay_fb(@, closed.video.fb),
                           !.video.fb = 0]
=============================================================================
