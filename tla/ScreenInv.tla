------------------------------ MODULE ScreenInv ------------------------------
(***************************************************************************)
(* The inductive invariants of Screen, as predicates of the state w that   *)
(* the handlers take and return: they hold between the calls of a handler  *)
(* as well, as far as the comments say.                                    *)
(***************************************************************************)
EXTENDS ScreenProps

--------------------------------------------------------------- (* types *)
Images == {Blank} \cup {picture[2] : picture \in Pictures}

Drms ==
    [fb    : [Fbs -> BoOrNone],
     bo    : [Bos -> [refs : Nat, pixels : [image : Images, rotation : Nat]]],
     scan  : [Crtcs -> FbOrNone],
     plane : [Crtcs -> FbOrNone]]

CrtcStates ==
    [enabled : BOOLEAN, on : BOOLEAN, rotation : Nat, desired : Nat,
     rotate_bo : BoOrNone, rotate_fb : FbOrNone, data : BoOrNone, shadow : BoOrNone]

Modes ==
    [open : BOOLEAN, vtSema : BOOLEAN, fb_id : FbOrNone, front_bo : BoOrNone,
     pixmap : BoOrNone, crtc : [Crtcs -> CrtcStates]]

OverlayStates ==
    [fb : FbOrNone, fb_rotated : FbOrNone, old_fb_rotated : FbOrNone,
     rotation : Nat, place : Places \cup {{}}, visible : BOOLEAN]

Videos ==
    [fb : FbOrNone, old_fb : FbOrNone, passthrough : 0..2,
     passthrough_data : Images, port : BOOLEAN, success : BOOLEAN,
     overlay : [Crtcs -> OverlayStates]]

Worlds == [drm : Drms, mode : Modes, video : Videos]

TurnsRight(w) ==
    \A c \in Crtcs : w.mode.crtc[c].rotation \in Rotations[c] /\ w.mode.crtc[c].desired \in Rotations[c]

--------------------------------------------------------- (* framebuffers *)
\* A BO has a reference for each framebuffer.
Refs(d) == \A b \in Bos : d.bo[b].refs = Cardinality({f \in Fbs : d.fb[f] = b})

\* The framebuffers of each purpose, over BOs of the same purpose.
FrontHeld(w) ==
    /\ w.mode.fb_id \in FrontIds /\ w.mode.front_bo \in FrontIds
    /\ \A f \in FrontIds :
          w.drm.fb[f] = IF f = w.mode.fb_id THEN w.mode.front_bo ELSE 0

ImagesHeld(w) ==
    /\ w.video.fb \in ImageIds \cup {0} /\ w.video.old_fb \in ImageIds \cup {0}
    /\ w.video.fb = w.video.old_fb => w.video.fb = 0
    /\ \A f \in ImageIds : /\ w.drm.fb[f] \in ImageIds \cup {0}
                           /\ w.drm.fb[f] # 0 <=> f \in {w.video.fb, w.video.old_fb}

ShadowHeld(w, c) ==
    LET k == w.mode.crtc[c]
    IN  /\ k.rotate_fb \in ShadowIds[c] \cup {0}
        /\ k.data # 0 <=> k.rotate_fb # 0
        /\ k.rotate_fb # 0 => k.rotate_bo \in ShadowIds[c]
        /\ \A f \in ShadowIds[c] :
              w.drm.fb[f] = IF f = k.rotate_fb THEN k.rotate_bo ELSE 0

\* A copy may have the memory of the other CRTC's.
RotatedBos == UNION {RotatedIds[c] : c \in Crtcs}

RotatedHeld(w, c) ==
    LET o == w.video.overlay[c]
    IN  /\ o.fb_rotated \in RotatedIds[c] \cup {0}
        /\ o.old_fb_rotated \in RotatedIds[c] \cup {0}
        /\ o.fb_rotated = o.old_fb_rotated => o.fb_rotated = 0
        /\ \A f \in RotatedIds[c] :
              /\ w.drm.fb[f] \in RotatedBos \cup {0}
              /\ w.drm.fb[f] # 0 <=> f \in {o.fb_rotated, o.old_fb_rotated}

\* What holds while the front framebuffer is replaced, too.
OthersHeld(w) ==
    /\ Refs(w.drm)
    /\ \A f \in FrontIds : w.drm.fb[f] \in FrontIds \cup {0}
    /\ ImagesHeld(w)
    /\ \A c \in Crtcs : ShadowHeld(w, c) /\ RotatedHeld(w, c)

HeldInv(w) == FrontHeld(w) /\ OthersHeld(w)

----------------------------------------------------------- (* the screen *)
\* A CRTC scans out a front or its own shadow.
ScansOwn(w) == \A c \in Crtcs : w.drm.scan[c] \in FrontIds \cup ShadowIds[c] \cup {0}

\* A shadow is whole, and there when it is needed.
ShadowWhole(w, c) ==
    LET k == w.mode.crtc[c]
    IN  /\ k.data # 0 => k.rotate_bo = k.data /\ k.shadow = k.data
        /\ k.data = 0 => k.rotate_bo = 0 /\ k.shadow = 0

ShadowThere(w, c) ==
    w.mode.crtc[c].enabled /\ w.mode.crtc[c].rotation # 0 => w.mode.crtc[c].data # 0

Shows(w, c) ==
    LET k == w.mode.crtc[c]
    IN  w.drm.scan[c] = IF k.rotation = 0 THEN w.mode.fb_id ELSE k.rotate_fb

ShownInv(w) ==
    /\ ScansOwn(w)
    /\ w.mode.pixmap = w.mode.front_bo
    /\ \A c \in Crtcs : ShadowWhole(w, c) /\ ShadowThere(w, c)
    /\ w.mode.vtSema => \A c \in Crtcs : w.mode.crtc[c].enabled => Shows(w, c)

------------------------------------------------------------ (* the video *)
Image(w, f) == Pixels(w.drm, f).image

\* A plane shows one of the framebuffers of its overlay.
PlaneOwn(w, c) ==
    LET o == w.video.overlay[c]
    IN  w.drm.plane[c] \in {0, w.video.fb, w.video.old_fb, o.fb_rotated, o.old_fb_rotated}

\* What an overlay is remembered to show is what is there: its rotated copy is
\* one of the picture, and so is the one before, unless the picture is new.
CopyRight(w, c) ==
    LET o == w.video.overlay[c]
    IN  /\ o.fb \in {0, w.video.fb, w.video.old_fb}
        /\ o.fb_rotated # 0 => o.fb # 0
        /\ o.fb_rotated # 0 /\ o.fb = w.video.fb =>
              Pixels(w.drm, o.fb_rotated) = Picture(Image(w, w.video.fb), o.rotation)
        /\ o.old_fb_rotated # 0 /\ w.video.old_fb = 0 =>
              w.video.fb # 0 /\ Image(w, o.old_fb_rotated) = Image(w, w.video.fb)

\* This holds while a picture is replaced, too.
CopyInv(w) == \A c \in Crtcs : PlaneOwn(w, c) /\ CopyRight(w, c)

PictureInv(w) ==
    /\ CopyInv(w)
    /\ \A c \in Crtcs : w.drm.plane[c] # 0 => w.video.port

------------------------------------------------------ (* the invariants *)
\* Which of them holds depends on the calls that may fail.
NoLeak    == Faults \cap {"wrap_fb", "front_map"} = {}
NoBadMode == Faults \cap {"mode", "rotate_bo", "rotate_fb"} = {}
NoBadCopy == "rotated_fb" \notin Faults

\* Between requests there is no last picture, and a port that is on has one.
Rests(w) == w.video.old_fb = 0 /\ (w.video.port => w.video.fb # 0)

\* A closed screen has neither a terminal nor a picture.
Held(w) ==
    /\ w \in Worlds /\ TurnsRight(w)
    /\ w.mode.vtSema => w.mode.open
    /\ IF w.mode.open THEN HeldInv(w) /\ Rests(w) ELSE w.video.fb = 0

Shown(w) == w.mode.open => ShownInv(w)

Pictured(w) ==
    IF w.mode.open THEN PictureInv(w) ELSE \A c \in Crtcs : w.drm.plane[c] = 0

HeldAlways    == NoLeak => Held(World)
ShownAlways   == NoLeak /\ NoBadMode => Shown(World)
PictureAlways == NoLeak /\ NoBadCopy => Pictured(World)
=============================================================================
