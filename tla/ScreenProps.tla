----------------------------- MODULE ScreenProps -----------------------------
(* What the screen promises, in terms of Screen.                           *)
EXTENDS Screen

--------------------------------------------------------------- (* types *)
FbOrNone == Fbs \cup {0}
BoOrNone == Bos \cup {0}

\* The types of the kernel's objects, of the modes and of the overlays.
TypeOK ==
    /\ drm.fb \in [Fbs -> BoOrNone]
    /\ \A b \in Bos : drm.bo[b].refs \in Nat
    /\ drm.scan \in [Crtcs -> FbOrNone] /\ drm.plane \in [Crtcs -> FbOrNone]
    /\ mode.fb_id \in FbOrNone /\ mode.front_bo \in BoOrNone
    /\ \A c \in Crtcs :
          /\ mode.crtc[c].rotation \in Rotations[c]
          /\ mode.crtc[c].rotate_fb \in FbOrNone
          /\ mode.crtc[c].rotate_bo \in BoOrNone
          /\ video.overlay[c].fb \in FbOrNone
          /\ video.overlay[c].fb_rotated \in FbOrNone
          /\ video.overlay[c].place \in Places \cup {{}}
    /\ video.fb \in FbOrNone /\ video.passthrough \in 0..2

--------------------------------------------------------- (* framebuffers *)
\* Who holds framebuffers, and who holds references to BOs.
Holders ==
    {<<"front", 0>>, <<"image", 0>>, <<"old image", 0>>}
    \cup ({"shadow", "rotated", "old rotated"} \X Crtcs)

HeldFb(h) ==
    CASE h[1] = "front"       -> mode.fb_id
      [] h[1] = "image"       -> video.fb
      [] h[1] = "old image"   -> video.old_fb
      [] h[1] = "shadow"      -> mode.crtc[h[2]].rotate_fb
      [] h[1] = "rotated"     -> video.overlay[h[2]].fb_rotated
      [] h[1] = "old rotated" -> video.overlay[h[2]].old_fb_rotated

Holding == {h \in Holders : HeldFb(h) # 0}

\* The kernel has exactly the framebuffers the driver holds, each held once,
\* and each with a BO the driver has a reference to for it: over failed
\* requests, shared rotated copies and the loss of the terminal no framebuffer
\* is lost, freed twice or freed under one that shares its memory.
FramebuffersHeld ==
    mode.open =>
    /\ \A h \in Holding : drm.fb[HeldFb(h)] # 0
    /\ \A g, h \in Holding : HeldFb(g) = HeldFb(h) => g = h
    /\ \A f \in Fbs : drm.fb[f] # 0 => \E h \in Holding : HeldFb(h) = f
    /\ \A b \in Bos :
          drm.bo[b].refs = Cardinality({f \in Fbs : drm.fb[f] = b})

------------------------------------------------------------- (* the screen *)
\* While the driver has the terminal every enabled CRTC shows its shadow, or
\* the front when it is upright, and the server draws into the front that is
\* shown: after any resize, rotation or return to the terminal.
ScreenShown ==
    ScreenUp =>
    /\ mode.pixmap = mode.front_bo
    /\ mode.fb_id # 0 => drm.fb[mode.fb_id] = mode.pixmap
    /\ \A c \in Crtcs :
          LET k == mode.crtc[c]
          IN k.enabled =>
                /\ drm.scan[c] = IF k.rotation = 0 THEN mode.fb_id ELSE k.rotate_fb
                /\ k.rotation # 0 => drm.fb[k.rotate_fb] = k.rotate_bo
                /\ k.shadow \in {0, k.rotate_bo}

-------------------------------------------------------------- (* the video *)
\* A plane shows the picture put last or nothing: never one put before, whatever
\* was refused in between.
NoOldPicture ==
    \A c \in Crtcs :
        drm.plane[c] # 0 =>
            /\ video.fb # 0
            /\ Pixels(drm, drm.plane[c]).image = Pixels(drm, video.fb).image

\* A new picture that meets no fault is seen, the right way up, on every visible
\* overlay (those of the CRTCs that the window touches and that are on): no earlier
\* failure and no reused framebuffer lets the driver take it for one that is shown
\* already.
NewPictureShown ==
    [][ (/\ video'.fb \notin {0, video.fb}
         /\ \E place \in Places :
                PutImage(video'.passthrough, Pixels(drm', video'.fb).image, place, "none"))
        => \A c \in Crtcs :
             video'.overlay[c].visible =>
                /\ drm'.plane[c] # 0
                /\ Pixels(drm', drm'.plane[c]) =
                     Picture(Pixels(drm', video'.fb).image, mode'.crtc[c].rotation)
      ]_vars
=============================================================================
