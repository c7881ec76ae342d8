--------------------------- MODULE Dri2VblankInv ---------------------------
(***************************************************************************)
(* The inductive invariants of Dri2Vblank, and what they suppose.          *)
(***************************************************************************)
EXTENDS Dri2VblankProps

-----------------------------------------------------------------------------
(* What is supposed of the kernel and of the counters.                     *)

(* A wait is never refused: one that is leaves its entry in the queue,     *)
(* which then leads to a frame event that is free (dri2.c:565).            *)
NoRefusedWait == "wait" \notin Refusable

(* Fewer requests than numbers for the entries of the queue.               *)
EnoughNumbers == MaxRequests + 1 < Wrap

(* No request is for more than n frames ahead, and all of them together    *)
(* stay within a quarter of the kernel's counter.                          *)
EnoughFrames(n) ==
    /\ \A t \in Targets : t <= n
    /\ \A eq \in Equations : eq.divisor + eq.remainder <= n
    /\ FirstFrame <= MaxFrame
    /\ MaxFrame + n * MaxRequests + n < Wrap \div 4

-----------------------------------------------------------------------------
Entries == [seq : 1..(Wrap - 1), data : Events]

Crtcs   == [offset : Int, prev : 0..(Wrap - 1), high : Nat]

Requests ==
    [kind : {"wait", "swap", None}, client : Clients \cup {None},
     drawable : Drawables \cup {None}, target : Int,
     state : {"pending", "over", "astray", "early"}]

TypeInv ==
    /\ info \in [Events -> FrameEvents \cup {None}]
    /\ client_list \in [Clients -> SUBSET Events]
    /\ drawable_list \in [Drawables -> SUBSET Events]
    /\ queue \in Seq(Entries)
    /\ drm_seq \in 0..(Wrap - 1)
    /\ crtc \in Crtcs
    /\ attached \in [Drawables -> [Ends -> Buffers \cup {None}]]
    /\ clients \subseteq Clients /\ windows \subseteq Drawables
    /\ kernel \subseteq [seq : 1..(Wrap - 1), at : Nat] /\ frame \in Nat
    /\ asked \in Seq(Requests)
    /\ after_free \subseteq {"free", "write"}

(* The numbers of the entries, and of what the kernel has yet to send, are *)
(* numbers that were given.                                                *)
NumbersInv ==
    /\ Len(asked) <= MaxRequests
    /\ drm_seq <= Len(asked) + 1
    /\ \A i \in DOMAIN queue : queue[i].seq < NextSeq
    /\ \A v \in kernel : v.seq < NextSeq

(* The references counted at their holders.                                *)
AttachedTo(b)  == {p \in Drawables \X Ends : attached[p[1]][p[2]] = b}
HeldBy(b)      == {e \in Live : b \in Held(e)}
BuffersOf(d)   == {b \in Buffers : buffer[b].window = d}

BufferInv ==
    /\ buffer \in [Buffers -> [refcnt : Nat, window : Drawables \cup {None}]]
    /\ pixmap_refcnt \in [Drawables -> Nat]
    /\ \A b \in Buffers : buffer[b].refcnt = 0 => buffer[b] = NoBuffer
    /\ \A d \in Drawables : attached[d]["front"] # None =>
          attached[d]["front"] # attached[d]["back"]
    /\ \A b \in Buffers : buffer[b].refcnt = Cardinality(AttachedTo(b)) + Cardinality(HeldBy(b))
    /\ \A d \in Drawables :
          pixmap_refcnt[d] = Cardinality(BuffersOf(d)) + (IF d \in windows THEN 1 ELSE 0)

(* The inductive invariant that Tracked follows from.                      *)
TrackInv == TypeInv /\ NumbersInv /\ EventsTracked /\ BufferInv

-----------------------------------------------------------------------------
(* A frame event that still has its drawable is for a request of its own   *)
(* that nobody has answered.                                               *)
RequestsInv ==
    /\ \A e \in Live : info[e].drawable # None =>
          /\ info[e].request \in DOMAIN asked
          /\ asked[info[e].request].state = "pending"
          /\ asked[info[e].request].client = info[e].client
          /\ asked[info[e].request].drawable = info[e].drawable
    /\ \A e, f \in Live : e # f => info[e].request # info[f].request
    /\ \A e \in Live : info[e].request <= Len(asked)
    /\ \A r \in DOMAIN asked : asked[r].state # "astray"

(* The conversion of frame counts only ever adds the offset, which only    *)
(* grows, and by no more than a request asks for.                          *)
OffsetInv(n) ==
    /\ frame <= MaxFrame
    /\ crtc.high = 0
    /\ crtc.offset >= 0 /\ crtc.offset <= n * Len(asked)
    /\ crtc.prev <= MaxFrame + crtc.offset

(* What the kernel will send for an entry comes at its target or later.    *)
OnTimeInv ==
    /\ \A v \in kernel : v.at <= MaxFrame
    /\ \A i \in DOMAIN queue, v \in kernel :
          queue[i].seq = v.seq /\ info[queue[i].data].drawable # None =>
             v.at + crtc.offset >= asked[info[queue[i].data].request].target
    /\ \A r \in DOMAIN asked : asked[r].state # "early"

(* The inductive invariant that AnswersRight follows from.                 *)
AnswerInv(n) == TrackInv /\ RequestsInv /\ OffsetInv(n) /\ OnTimeInv
=============================================================================
