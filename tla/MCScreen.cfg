SPECIFICATION Spec
CONSTANTS
    i = i  j = j
    Crtcs = {0, 1}
    FrontIds = {1, 2}
    ImageIds = {5, 6}
    ShadowIds <- Shadows
    RotatedIds <- Rotated
    Blank = Blank
    Rotations <- Turned
    Faults = {"front_bo", "front_fb", "image_fb", "commit", "close"}
    Pictures <- SomePictures
    Hotplug = {1}
    Places <- Everywhere
INVARIANTS FramebuffersHeld ScreenShown NoOldPicture
PROPERTIES NewPictureShown
CHECK_DEADLOCK FALSE
