-------------------------- MODULE Dri2VblankProps --------------------------
(***************************************************************************)
(* What DRI2 requests and their events promise.                            *)
(***************************************************************************)
EXTENDS Dri2Vblank

TypeOK ==
    /\ \A e \in Events : info[e] # None =>
          /\ info[e].client \in Clients \cup {None}
          /\ info[e].drawable \in Drawables \cup {None}
          /\ info[e].front \in Buffers \cup {None} /\ info[e].back \in Buffers \cup {None}
    /\ client_list \in [Clients -> SUBSET Events]
    /\ drawable_list \in [Drawables -> SUBSET Events]
    /\ buffer \in [Buffers -> [refcnt : Nat, window : Drawables \cup {None}]]
    /\ attached \in [Drawables -> [Ends -> Buffers \cup {None}]]
    /\ pixmap_refcnt \in [Drawables -> Nat]
    /\ crtc.prev \in 0..(Wrap - 1) /\ crtc.offset \in Int /\ crtc.high \in Nat
    /\ clients \subseteq Clients /\ windows \subseteq Drawables

Live == {e \in Events : info[e] # None}

(* The entries of the queue and the frame events lead to each other, one to *)
(* one and by distinct numbers, and each event is on the list of its client *)
(* and of its drawable as long as they exist: whoever goes first finds what *)
(* refers to it ("Tracking for outstanding events", vblank.c:28), and no    *)
(* event is freed twice.  Writing to a free one is another matter.          *)
EventsTracked ==
    /\ "free" \notin after_free
    /\ {queue[i].data : i \in DOMAIN queue} = Live
    /\ \A i, j \in DOMAIN queue : i # j =>
          queue[i].seq # queue[j].seq /\ queue[i].data # queue[j].data
    /\ \A c \in Clients : client_list[c] = {e \in Live : info[e].client = c}
    /\ \A d \in Drawables : drawable_list[d] = {e \in Live : info[e].drawable = d}
    /\ \A e \in Live : info[e].client \in clients /\ info[e].drawable \in windows \cup {None}

(* A buffer has a reference for DRI2 and one for each swap that uses it,    *)
(* and the window's pixmap one for the window and one for each buffer:      *)
(* a swap that is under way finds its buffers, and none is kept for ever.   *)
BuffersExact ==
    /\ \A b \in Buffers : buffer[b].refcnt =
          Cardinality({p \in Drawables \X Ends : attached[p[1]][p[2]] = b})
          + Cardinality({e \in Live : b \in Held(e)})
    /\ \A d \in Drawables : pixmap_refcnt[d] =
          Cardinality({b \in Buffers : buffer[b].window = d}) + (IF d \in windows THEN 1 ELSE 0)

Tracked == EventsTracked /\ BuffersExact

(* Nobody touches a frame event that is free: the events are hooked into    *)
(* the resource database "so we can clean it up if the drawable or client   *)
(* exits while the swap is pending" (dri2.c:342), and the clean-up leaves   *)
(* nothing behind to be used.                                               *)
NothingAfterFree == after_free = {}

(* A request is answered at most once, not after its client or drawable is  *)
(* gone, and not before its target: "we just need to make sure target_msc   *)
(* passes before waking up the client" (dri2.c:492), however other requests *)
(* move the CRTC's offset in the meantime.                                  *)
AnswersRight == \A r \in DOMAIN asked : asked[r].state \notin {"astray", "early"}

(* No request waits for ever: each is answered, or its client or drawable   *)
(* goes.  (The requests are bounded, so this says it of every one.)         *)
SomeWait == \E r \in DOMAIN asked : asked[r].state = "pending"
AllAnswered == []<> ~ SomeWait

(* The frame count a client that asks now is told never goes back: the      *)
(* conversion is "dealing with 64-bit wrapping" (vblank.c:84).              *)
Msc == ToCrtcMsc(crtc, frame % Wrap).msc
MscMonotone == [][Msc' >= Msc]_vars
=============================================================================
