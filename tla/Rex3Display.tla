---------------------------- MODULE Rex3Display ----------------------------
(***************************************************************************)
(* What the Newport board shows (refresh_loop in src/src/dev/ng1/rex3.rs,  *)
(* Rex3Screen::refresh in src/src/disp.rs, fresh_frame in                  *)
(* src/src/gfx_display.rs): the REX3-Refresh thread waits for a fence,     *)
(* samples dirty flags, copies the frame buffer, presents it and raises    *)
(* the vertical retrace, while the guest draws, flips buffers and reads    *)
(* STATUS, and while others watch the composed frames.                     *)
(*                                                                         *)
(* Frame-buffer contents are the number of draws executed so far; an XMAP  *)
(* mode table is the number of mode writes.                                *)
(***************************************************************************)
EXTENDS Naturals, Sequences

CONSTANTS MaxDraws, MaxModes,      \* bounds: draws and mode table writes
          Cap,                     \* entries the ring holds
          FenceMod,                \* fences count modulo this (2^32 in the code)
          IDLE_HEARTBEAT_FRAMES,
          Capture,                 \* is a VNC viewer connected?
          Requests, StatusReads    \* do others ask for frames; does the guest read STATUS?

ASSUME DisplayBounds == MaxDraws \in Nat /\ MaxModes \in Nat /\ Cap \in Nat \ {0}
\* At most Cap fences are queued and one is about to be.
ASSUME FenceAssumption == FenceMod \in Nat /\ 2 * (Cap + 1) < FenceMod
ASSUME DisplayFlags == Capture \in BOOLEAN /\ Requests \in BOOLEAN /\ StatusReads \in BOOLEAN
ASSUME HeartbeatAssumption == IDLE_HEARTBEAT_FRAMES \in Nat

Draw == [op |-> "draw", val |-> 0]
DispSync(f) == [op |-> "sync", val |-> f]

VARIABLES
  pushed, mode, xmap_dirty, fifo, apc, had,      \* guest: draws pushed, XMAP, place, VRINT seen
  xmap_fence, gfifo_fence, need,                 \* need: draws pushed before the last fence
  kpc, drawn, fb_dirty,                          \* consumer
  rpc, target, owed, fbd, pal, since, full, sbo, rend, want,   \* refresh thread's locals
  snap, borrowed, smode,                         \* Rex3Screen
  shown, shownMode, rgba,                        \* on the window; in screen.rgba
  vrint, line, frame_request,                    \* VRINT and its line; a frame is asked for
  forced                                         \* a wait timed out, the consumer is behind

guest    == <<pushed, mode, xmap_dirty, apc, had>>
fences   == <<xmap_fence, gfifo_fence, need, forced>>
consumer == <<kpc, drawn>>
locals   == <<target, owed, fbd, pal, since, full, sbo, rend, want>>
screen   == <<snap, borrowed, smode>>
output   == <<shown, shownMode, rgba>>
retrace  == <<vrint, line>>
vars == <<guest, fences, fifo, consumer, fb_dirty, rpc, locals, screen, output, retrace,
          frame_request>>

Init ==
  /\ pushed = 0 /\ mode = 0 /\ xmap_dirty = TRUE /\ fifo = <<>> /\ apc = "idle" /\ had = FALSE
  /\ xmap_fence = 0 /\ gfifo_fence = 0 /\ forced = FALSE
  /\ need = 0
  /\ kpc = "peek" /\ drawn = 0 /\ fb_dirty = TRUE
  /\ rpc = "top" /\ target = 0 /\ owed = 0 /\ fbd = FALSE /\ pal = FALSE
  /\ since = IDLE_HEARTBEAT_FRAMES /\ full = FALSE /\ sbo = FALSE /\ rend = FALSE /\ want = FALSE
  /\ snap = 0 /\ borrowed = FALSE /\ smode = 0
  /\ shown = 0 /\ shownMode = 0 /\ rgba = 0
  /\ vrint = FALSE /\ line = FALSE /\ frame_request = FALSE

-----------------------------------------------------------------------------
(* The guest's CPU *)

PushDraw ==
  /\ apc = "idle" /\ pushed < MaxDraws /\ Len(fifo) < Cap
  /\ pushed' = pushed + 1
  /\ fifo' = Append(fifo, Draw)
  /\ UNCHANGED <<mode, xmap_dirty, apc, had, fences, consumer, fb_dirty, rpc, locals, screen,
                 output, retrace, frame_request>>

\* A DCB write to the XMAP mode table takes effect at once, ...
ModeWrite ==
  /\ apc = "idle" /\ mode < MaxModes
  /\ mode' = mode + 1 /\ xmap_dirty' = TRUE
  /\ apc' = "fence"
  /\ UNCHANGED <<pushed, had, xmap_fence, gfifo_fence, need, forced, fifo, consumer, fb_dirty, rpc,
                 locals, screen, output, retrace, frame_request>>

\* ... then counts a fence, ...
Fence ==
  /\ apc = "fence"
  /\ xmap_fence' = (xmap_fence + 1) % FenceMod
  /\ need' = pushed
  /\ apc' = "sync"
  /\ UNCHANGED <<pushed, mode, xmap_dirty, had, gfifo_fence, forced, fifo, consumer,
                 fb_dirty, rpc, locals, screen, output, retrace, frame_request>>

\* ... then queues it, spinning for room.
PushSync ==
  /\ apc = "sync" /\ Len(fifo) < Cap
  /\ fifo' = Append(fifo, DispSync(xmap_fence))
  /\ apc' = "idle"
  /\ UNCHANGED <<pushed, mode, xmap_dirty, had, fences, consumer, fb_dirty, rpc, locals, screen,
                 output, retrace, frame_request>>

\* A read of STATUS clears VRINT and, if it was set, drops the line.
ReadStatus ==
  /\ StatusReads /\ apc = "idle"
  /\ had' = vrint
  /\ vrint' = FALSE
  /\ apc' = "status"
  /\ UNCHANGED <<pushed, mode, xmap_dirty, line, fences, fifo, consumer, fb_dirty, rpc, locals,
                 screen, output, frame_request>>

DropLine ==
  /\ apc = "status"
  /\ line' = (line /\ ~had)
  /\ had' = FALSE
  /\ apc' = "idle"
  /\ UNCHANGED <<pushed, mode, xmap_dirty, vrint, fences, fifo, consumer, fb_dirty, rpc, locals,
                 screen, output, frame_request>>

Guest == PushDraw \/ ModeWrite \/ Fence \/ PushSync \/ ReadStatus \/ DropLine

-----------------------------------------------------------------------------
(* The consumer, register_processor *)

\* (mutant) fences compared without wrapping
PassedFlat(current, t) == current >= t

\* current.wrapping_sub(target) < 0x8000_0000
Passed(current, t) == 2 * ((current + FenceMod - t) % FenceMod) < FenceMod

Peek ==
  /\ kpc = "peek" /\ fifo # <<>>
  /\ fb_dirty' = TRUE
  /\ kpc' = "execute"
  /\ UNCHANGED <<guest, fences, fifo, drawn, rpc, locals, screen, output, retrace, frame_request>>

Execute ==
  /\ kpc = "execute"
  /\ \/ Head(fifo).op = "draw" /\ drawn' = drawn + 1 /\ UNCHANGED fences
     \/ /\ Head(fifo).op = "sync"
        /\ gfifo_fence' = Head(fifo).val
        /\ forced' = (forced /\ Head(fifo).val # xmap_fence)
        /\ UNCHANGED <<drawn, xmap_fence, need>>
  /\ fifo' = Tail(fifo)
  /\ kpc' = "peek"
  /\ UNCHANGED <<guest, fb_dirty, rpc, locals, screen, output, retrace, frame_request>>

Consumer == Peek \/ Execute

-----------------------------------------------------------------------------
(* refresh_loop, one frame after the other *)

Top ==
  /\ rpc = "top"
  /\ target' = xmap_fence /\ owed' = need
  /\ rpc' = "fence"
  /\ UNCHANGED <<guest, fences, fifo, consumer, fb_dirty, fbd, pal, since, full, sbo, rend, want,
                 screen, output, retrace, frame_request>>

FencePassed ==
  /\ rpc = "fence" /\ Passed(gfifo_fence, target)
  /\ rpc' = "palette"
  /\ UNCHANGED <<guest, fences, fifo, consumer, fb_dirty, locals, screen, output, retrace,
                 frame_request>>

\* 50 ms are over: the wait is given up and the fence forced.
FenceTimeout ==
  /\ rpc = "fence" /\ ~Passed(gfifo_fence, target)
  /\ gfifo_fence' = target /\ forced' = TRUE
  /\ rpc' = "palette"
  /\ UNCHANGED <<guest, xmap_fence, need, fifo, consumer, fb_dirty, locals, screen,
                 output, retrace, frame_request>>

Palette ==
  /\ rpc = "palette"
  /\ pal' = xmap_dirty
  /\ rpc' = "swap"
  /\ UNCHANGED <<guest, fences, fifo, consumer, fb_dirty, target, owed, fbd, since, full, sbo, rend,
                 want, screen, output, retrace, frame_request>>

\* (mutant) the idle heartbeat is left out
ShouldRenderNoHeartbeat == fb_dirty \/ pal \/ frame_request

ShouldRender == fb_dirty \/ pal \/ frame_request \/ since >= IDLE_HEARTBEAT_FRAMES

\* frames_since_render saturates; every value from the heartbeat on acts alike.
Swap ==
  /\ rpc = "swap"
  /\ fbd' = fb_dirty /\ fb_dirty' = FALSE
  /\ rend' = ShouldRender
  /\ since' = IF ShouldRender THEN 0 ELSE IF since < IDLE_HEARTBEAT_FRAMES THEN since + 1 ELSE since
  /\ rpc' = IF ShouldRender THEN "status_bar" ELSE "vrint"
  /\ UNCHANGED <<guest, fences, fifo, consumer, target, owed, pal, full, sbo, want, screen, output,
                 retrace, frame_request>>

StatusBarOnly ==
  /\ rpc = "status_bar"
  /\ sbo' = (full /\ ~fbd /\ ~pal /\ ~frame_request)
  /\ rpc' = "copy_fb"
  /\ UNCHANGED <<guest, fences, fifo, consumer, fb_dirty, target, owed, fbd, pal, since, full, rend,
                 want, screen, output, retrace, frame_request>>

\* Rex3Screen::refresh copies the frame buffer only when it is dirty.
CopyFb ==
  /\ rpc = "copy_fb"
  /\ borrowed' = ~fbd
  /\ snap' = IF fbd THEN drawn ELSE snap
  /\ rpc' = "copy_xmap"
  /\ UNCHANGED <<guest, fences, fifo, consumer, fb_dirty, locals, smode, output, retrace,
                 frame_request>>

CopyXmap ==
  /\ rpc = "copy_xmap"
  /\ smode' = IF xmap_dirty THEN mode ELSE smode
  /\ xmap_dirty' = FALSE
  /\ rpc' = "want"
  /\ UNCHANGED <<pushed, mode, apc, had, fences, fifo, consumer, fb_dirty, locals, snap, borrowed,
                 output, retrace, frame_request>>

Want ==
  /\ rpc = "want"
  /\ want' = (frame_request \/ (Capture /\ ~sbo))
  /\ rpc' = "vrint"
  /\ UNCHANGED <<guest, fences, fifo, consumer, fb_dirty, target, owed, fbd, pal, since, full, sbo,
                 rend, screen, output, retrace, frame_request>>

\* (mutant) the line is driven only when VRINT was clear
VrintEdge ==
  /\ rpc = "vrint"
  /\ vrint' = TRUE
  /\ rpc' = CASE ~vrint -> "raise" [] vrint /\ rend -> "present" [] OTHER -> "top"
  /\ UNCHANGED <<guest, line, fences, fifo, consumer, fb_dirty, locals, screen, output,
                 frame_request>>

Vrint ==
  /\ rpc = "vrint"
  /\ vrint' = TRUE
  /\ rpc' = "raise"
  /\ UNCHANGED <<guest, line, fences, fifo, consumer, fb_dirty, locals, screen, output,
                 frame_request>>

Raise ==
  /\ rpc = "raise"
  /\ line' = TRUE
  /\ rpc' = IF rend THEN "present" ELSE "top"
  /\ UNCHANGED <<guest, vrint, fences, fifo, consumer, fb_dirty, locals, screen, output,
                 frame_request>>

\* The picture: the copy, or the live frame buffer when it was not copied.
Present ==
  LET picture == IF borrowed THEN drawn ELSE snap IN
  /\ rpc = "present"
  /\ shown' = picture /\ shownMode' = smode
  /\ full' = (full \/ ~sbo)
  /\ rgba' = IF want THEN picture ELSE rgba
  /\ rpc' = "clear"
  /\ UNCHANGED <<guest, fences, fifo, consumer, fb_dirty, target, owed, fbd, pal, since, sbo, rend,
                 want, screen, retrace, frame_request>>

\* (mutant) the request is never taken back
ClearForgotten ==
  /\ rpc = "clear"
  /\ rpc' = "top"
  /\ UNCHANGED <<guest, fences, fifo, consumer, fb_dirty, locals, screen, output, retrace,
                 frame_request>>

Clear ==
  /\ rpc = "clear"
  /\ frame_request' = FALSE
  /\ rpc' = "top"
  /\ UNCHANGED <<guest, fences, fifo, consumer, fb_dirty, locals, screen, output, retrace>>

Refresh ==
  \/ Top \/ FencePassed \/ FenceTimeout \/ Palette \/ Swap \/ StatusBarOnly
  \/ CopyFb \/ CopyXmap \/ Want \/ Vrint \/ Raise \/ Present \/ Clear

\* request_frame: the CI socket and the monitor ask for a frame and wait until
\* frame_request is clear, or for their deadline.
RequestFrame ==
  /\ Requests /\ ~frame_request
  /\ frame_request' = TRUE
  /\ UNCHANGED <<guest, fences, fifo, consumer, fb_dirty, rpc, locals, screen, output, retrace>>

Next == Guest \/ Consumer \/ Refresh \/ RequestFrame

Spec == Init /\ [][Next]_vars

\* The three threads run; a guest that has begun a mode write or a STATUS read
\* finishes it.
Fairness ==
  /\ WF_vars(Consumer)
  /\ WF_vars(Refresh)
  /\ WF_vars(Fence \/ PushSync \/ DropLine)

LiveSpec == Spec /\ Fairness

-----------------------------------------------------------------------------
(* Properties *)

RingTypeOK ==
  /\ pushed \in 0 .. MaxDraws /\ drawn \in 0 .. pushed /\ mode \in 0 .. MaxModes
  /\ fifo \in Seq({Draw} \cup {DispSync(f) : f \in 0 .. FenceMod - 1}) /\ Len(fifo) <= Cap
  /\ xmap_fence \in 0 .. FenceMod - 1 /\ gfifo_fence \in 0 .. FenceMod - 1
  /\ need \in 0 .. MaxDraws /\ {had, forced} \subseteq BOOLEAN
  /\ apc \in {"idle", "fence", "sync", "status"} /\ kpc \in {"peek", "execute"}
PictureTypeOK ==
  /\ snap \in 0 .. drawn /\ shown \in 0 .. drawn /\ rgba \in 0 .. drawn
  /\ smode \in 0 .. mode /\ shownMode \in 0 .. mode
  /\ {xmap_dirty, fb_dirty, borrowed} \subseteq BOOLEAN
RefreshTypeOK ==
  /\ rpc \in {"top", "fence", "palette", "swap", "status_bar", "copy_fb", "copy_xmap", "want",
              "vrint", "raise", "present", "clear"}
  /\ target \in 0 .. FenceMod - 1 /\ owed \in 0 .. MaxDraws /\ since \in 0 .. IDLE_HEARTBEAT_FRAMES
  /\ {fbd, pal, full, sbo, rend, want, vrint, line, frame_request} \subseteq BOOLEAN

\* Every variable has its type; a skipped frame never counts past the heartbeat.
TypeOK == RingTypeOK /\ PictureTypeOK /\ RefreshTypeOK

\* A frame that has waited for its fence (and no wait has been given up that
\* the consumer has not caught up with) sees every draw queued before that
\* fence, also when the fence counters wrap; and the types hold.
FenceOrdersDraws ==
  /\ TypeOK
  /\ rpc \in {"palette", "swap", "status_bar", "copy_fb"} /\ ~forced => owed <= drawn

\* A retrace whose line was lost is raised again.
VblankRecovers == vrint ~> (line \/ ~vrint)

\* Every draw reaches the window, also one that executes between the refresh
\* thread's test of fb_dirty and its copy (the heartbeat shows it), and so does
\* every mode, also one written between the test of xmap_dirty and its reset.
WindowCatchesUp ==
  /\ \A n \in 1 .. MaxDraws : (drawn >= n) ~> (shown >= n)
  /\ \A n \in 1 .. MaxModes : (mode >= n) ~> (shownMode >= n)

\* A request for a frame is answered also while nothing on the screen changes:
\* frame_request forces a refresh, which clears it.
RequestServed == frame_request ~> ~frame_request
=============================================================================
