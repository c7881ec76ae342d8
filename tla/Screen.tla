------------------------------- MODULE Screen -------------------------------
(***************************************************************************)
(* The screen of the driver (driver.c): the requests of the X server to    *)
(* the display modes and the video overlays, and the loss of the hardware  *)
(* to another virtual terminal.  The server is one thread, so a request is *)
(* one step; between two of them the other terminal's program may set the  *)
(* CRTCs.  Init is the screen as ScreenInit leaves it; where its failure   *)
(* ends the server, only success is modelled.                              *)
(***************************************************************************)
EXTENDS Overlays

vars == <<drm, mode, video>>

World == [drm |-> drm, mode |-> mode, video |-> video]

\* The answer to a request is forgotten with it.
Become(w) ==
    drm' = w.drm /\ mode' = w.mode /\ video' = [w.video EXCEPT !.success = TRUE]

ScreenUp == mode.open /\ mode.vtSema

---------------------------------------------------- (* start and finish *)
TegraCreateScreenResources(w) ==
    drmmode_map_front_bo(drmmode_set_desired_modes(w, "none"))

TegraScreenInit(w) ==
    TegraCreateScreenResources(
        drmmode_set_desired_modes(drmmode_create_initial_bos(w), "none"))

NothingYet ==
    [drm   |-> [fb |-> [f \in Fbs |-> 0], bo |-> [b \in Bos |-> NoBo],
                scan |-> [c \in Crtcs |-> 0], plane |-> [c \in Crtcs |-> 0]],
     mode  |-> [open |-> TRUE, vtSema |-> TRUE, fb_id |-> 0, front_bo |-> 0,
                pixmap |-> 0,
                crtc |-> [c \in Crtcs |-> NewCrtc(c)]],
     video |-> TegraXvInit]

Init ==
    LET w == TegraScreenInit(NothingYet)
    IN drm = w.drm /\ mode = w.mode /\ video = w.video

\* The server has destroyed the windows, which stops the video, and the
\* shadows of the CRTCs.
TegraCloseScreen ==
    /\ mode.open /\ ~video.port
    /\ LET upright == ForEach(Crtcs, drmmode_shadow_destroy, World)
           freed   == drmmode_free_bos(upright)
       IN Become([freed EXCEPT
                    !.mode = [@ EXCEPT !.open = FALSE, !.vtSema = FALSE, !.pixmap = 0],
                    !.video = TegraXvInit])

------------------------------------------------------ (* virtual terminals *)
\* The server stops the video first.
TegraLeaveVT(fault) ==
    /\ ScreenUp
    /\ LET stopped == IF video.port THEN TegraVideoOverlayStop(World, TRUE, fault)
                      ELSE World
       IN Become([stopped EXCEPT !.mode.vtSema = FALSE, !.video.port = FALSE])

\* The program of the other terminal shows framebuffers of its own.
OtherTerminal ==
    /\ mode.open /\ ~mode.vtSema
    /\ drm' = [drm EXCEPT !.scan = [c \in Crtcs |-> 0],
                          !.plane = [c \in Crtcs |-> 0]]
    /\ UNCHANGED <<mode, video>>

TegraEnterVT(fault) ==
    /\ mode.open /\ ~mode.vtSema
    /\ ~AddRefused(World, fault)
    /\ Become([drmmode_set_desired_modes(World, fault) EXCEPT !.mode.vtSema = TRUE])

-------------------------------------------------------- (* display modes *)
Resize(fault) == ScreenUp /\ Become(drmmode_xf86crtc_resize(World, fault))

SetMode(c, rotation, fault) ==
    ScreenUp /\ Become(ModeSet(World, c, rotation, fault))

TegraAdjustFrame(c, fault) ==
    /\ ScreenUp /\ mode.crtc[c].enabled
    /\ Become(drmmode_set_mode_major(World, c, mode.crtc[c].rotation, fault))

Disable(c) ==
    ScreenUp /\ mode.crtc[c].enabled /\ Become(CrtcOff(World, c))

WakeUp == ScreenUp /\ Become(drmmode_crtc_dpms(World))

--------------------------------------------------------------- (* the video *)
\* The server takes the video for on once a picture was accepted.
PutImage(kind, image, place, fault) ==
    /\ ScreenUp
    /\ LET w == TegraVideoOverlayPutImage(World, kind, image, place, fault)
       IN Become([w EXCEPT !.video.port = @ \/ w.video.success])

\* The window has moved, or can be seen again.
ReputImage(place, fault) ==
    /\ ScreenUp /\ video.port
    /\ Become(TegraVideoOverlayReputImage(World, place, fault))

\* The window is covered (cleanup is FALSE) or the client done.
StopVideo(cleanup, fault) ==
    /\ ScreenUp /\ video.port
    /\ LET w == TegraVideoOverlayStop(World, cleanup, fault)
       IN Become([w EXCEPT !.video.port = ~cleanup])

Next ==
    \/ TegraCloseScreen
    \/ OtherTerminal
    \/ \E fault \in Fates({"close"}) : TegraLeaveVT(fault)
    \/ \E fault \in Fates(ModeFaults) : TegraEnterVT(fault)
    \/ \E fault \in Fates(ModeFaults \cup {"front_bo", "front_fb", "front_map"}) :
          Resize(fault)
    \/ \E c \in Crtcs, fault \in Fates(ModeFaults) :
          \E rotation \in Rotations[c] : SetMode(c, rotation, fault)
    \/ \E c \in Crtcs, fault \in Fates(ModeFaults) : TegraAdjustFrame(c, fault)
    \/ \E c \in Hotplug : Disable(c)
    \/ WakeUp
    \/ \E picture \in Pictures, place \in Places,
          fault \in Fates({"image_fb", "wrap_fb", "rotated_fb", "commit", "close"}) :
          PutImage(picture[1], picture[2], place, fault)
    \/ \E place \in Places, fault \in Fates({"rotated_fb", "commit", "close"}) :
          ReputImage(place, fault)
    \/ \E cleanup \in BOOLEAN, fault \in Fates({"close"}) : StopVideo(cleanup, fault)

Spec == Init /\ [][Next]_vars
=============================================================================
