------------------------------ MODULE Display ------------------------------
(***************************************************************************)
(* The display thread and the guest calls that block on it: GpuManager     *)
(* (crates/gpu/src/lib.rs), the event loop (display.rs), the fences of     *)
(* AshBackend (backend.rs) and the pool its cache buffers come from        *)
(* (buffer_pool.rs).                                                       *)
(*                                                                         *)
(* One guest thread renders with the CPU into two display buffers in turn  *)
(* and flips them; any thread may ship command lists.  The GPU runs what   *)
(* is submitted in its own time; the display thread waits for a list with  *)
(* a timeout, for the previous present without.                            *)
(***************************************************************************)
EXTENDS Naturals, FiniteSets, Sequences

CONSTANTS
    GpuCallers, Renderer, \* guest threads, and the one that flips
    MaxBuffers,          \* memory regions of the pool
    MaxCalls, MaxTimeouts, MaxLost, MaxRedraws, MaxResizes   \* bounds

ASSUME DisplayAssumption ==
    /\ Renderer \in GpuCallers
    /\ {MaxBuffers, MaxCalls, MaxTimeouts, MaxLost, MaxRedraws, MaxResizes} \subseteq Nat

VARIABLES
    device,       \* did VulkanContext::new succeed?
    zero_copy,    \* are display buffers imported?
    call,         \* each guest thread: idle, or blocked in "flip" or "list"
    calls,        \* calls made so far
    back,         \* the display buffer the renderer writes next
    rx,           \* the command channel
    loop,         \* the event loop: draining, or in the walk of a list
    redraw,       \* a redraw is requested
    minimised,    \* is the window's inner size zero?
    current,      \* AshBackend.current_target, a display buffer
    vsync,        \* pending_vsync_signal: threads whose sender it holds
    frames,       \* clock::advance_frame calls
    scanout,      \* display buffers a running present reads
    pool,         \* regions: free, held by a resource, or pending_recycle
    lists,        \* lists on the GPU: what they read, and whether waited for
    transients,   \* lists whose command buffer and render passes exist
    unseen,       \* has a flip been answered that was never presented?
    submitted, timeouts, lost, redraws, resizes

guestVars == <<call, calls, back, frames>>
loopVars == <<rx, loop, redraw, minimised, current, vsync>>
gpuVars == <<scanout, pool, lists, transients, unseen>>
boundVars == <<submitted, timeouts, lost, redraws, resizes>>
displayVars == <<device, zero_copy, guestVars, loopVars, gpuVars, boundVars>>

Buffers == 1..MaxBuffers
In(state) == {b \in Buffers : pool[b] = state}

----------------------------------------------------------------------------
(* Guest threads *)

\* GpuManager::submit_flip: send, and block on the reply.
SubmitFlip ==
    /\ call[Renderer] = "idle" /\ calls < MaxCalls
    /\ calls' = calls + 1
    /\ call' = [call EXCEPT ![Renderer] = "flip"]
    /\ rx' = Append(rx, [op |-> "flip", from |-> Renderer, buffer |-> back])
    /\ UNCHANGED <<device, zero_copy, back, frames, loop, redraw, minimised, current, vsync, gpuVars, boundVars>>

\* PresentSink::run_command_list.
RunCommandList(t) ==
    /\ call[t] = "idle" /\ calls < MaxCalls
    /\ calls' = calls + 1
    /\ call' = [call EXCEPT ![t] = "list"]
    /\ rx' = Append(rx, [op |-> "list", from |-> t])
    /\ UNCHANGED <<device, zero_copy, back, frames, loop, redraw, minimised, current, vsync, gpuVars, boundVars>>

\* The reply arrives.  After a flip the clock advances a frame and the
\* renderer turns to the other buffer.
Answered(S) == [t \in GpuCallers |-> IF t \in S THEN "answered" ELSE call[t]]
FlipReturns ==
    /\ call[Renderer] = "answered"
    /\ call' = [call EXCEPT ![Renderer] = "idle"]
    /\ frames' = frames + 1 /\ back' = 1 - back
    /\ UNCHANGED <<device, zero_copy, calls, loopVars, gpuVars, boundVars>>
ListReturns(t) ==
    /\ call[t] = "list_done"
    /\ call' = [call EXCEPT ![t] = "idle"]
    /\ UNCHANGED <<device, zero_copy, calls, back, frames, loopVars, gpuVars, boundVars>>

\* The renderer writes its back buffer whenever it is not in a flip.
Writing == IF call[Renderer] \in {"flip", "answered"} THEN {} ELSE {back}

----------------------------------------------------------------------------
(* The event loop: AboutToWait drains the channel *)

\* drain_commands_no_backend: no device, but every call gets its reply.
DrainNoBackend ==
    /\ ~device /\ rx # <<>>
    /\ call' = [call EXCEPT ![Head(rx).from] = IF Head(rx).op = "flip" THEN "answered" ELSE "list_done"]
    /\ rx' = Tail(rx)
    /\ UNCHANGED <<device, zero_copy, calls, back, frames, loop, redraw, minimised, current, vsync, gpuVars, boundVars>>

\* AshBackend::submit_flip: the new sender replaces the old, which is answered.
TakeFlip ==
    /\ device /\ loop.pc = "drain" /\ rx # <<>> /\ Head(rx).op = "flip"
    /\ current' = Head(rx).buffer
    /\ vsync' = {Head(rx).from}
    /\ call' = Answered(vsync)
    /\ redraw' = TRUE
    /\ rx' = Tail(rx)
    /\ UNCHANGED <<device, zero_copy, calls, back, frames, loop, minimised, gpuVars, boundVars>>

\* What the walk over a list does to the pool: the buffers the previous list
\* freed go back first; those this list frees wait for the next one.
Recycle(p) == [b \in Buffers |-> IF p[b] = "pending" THEN "free" ELSE p[b]]
\* FreeInWalk without the deferral.
FreeAtOnce(p, S) == [b \in Buffers |-> IF b \in S THEN "free" ELSE p[b]]
FreeInWalk(p, S) == [b \in Buffers |-> IF b \in S THEN "pending" ELSE p[b]]
\* The regions a buffer may take: never used, or freed by an earlier list.
reserve(p) == {b \in Buffers : p[b] = "free"}
AllocInWalk(p, S) == [b \in Buffers |-> IF b \in S THEN "held" ELSE p[b]]

\* A list creates a buffer, draws with every live one, and frees some.  The
\* draws are submitted when the walk is over.
TakeList ==
    /\ device /\ loop.pc = "drain" /\ rx # <<>> /\ Head(rx).op = "list"
    /\ submitted' = submitted + 1
    /\ \E fresh \in SUBSET reserve(Recycle(pool)) :
         LET p == AllocInWalk(Recycle(pool), fresh)
             live == {b \in Buffers : p[b] = "held"}
         IN /\ Cardinality(fresh) <= 1
            /\ \E gone \in SUBSET live : pool' = FreeInWalk(p, gone)
            /\ lists' = lists \cup {[n |-> submitted, reads |-> live, waited |-> TRUE]}
            /\ transients' = transients \cup {submitted}
    /\ loop' = [pc |-> "fence", from |-> Head(rx).from, n |-> submitted]
    /\ rx' = Tail(rx)
    /\ UNCHANGED <<device, zero_copy, guestVars, redraw, minimised, current, vsync, scanout, unseen,
                   timeouts, lost, redraws, resizes>>

\* The list's fence signals: its transient objects are destroyed.
FenceSignals ==
    /\ loop.pc = "fence" /\ \A l \in lists : l.n # loop.n
    /\ transients' = transients \ {loop.n}
    /\ call' = [call EXCEPT ![loop.from] = "list_done"]
    /\ loop' = [pc |-> "drain"]
    /\ UNCHANGED <<device, zero_copy, calls, back, frames, rx, redraw, minimised, current, vsync, scanout, pool,
                   lists, unseen, boundVars>>

\* Or the wait runs out: they are left alone and the fence is dropped.
FenceTimesOut ==
    /\ loop.pc = "fence" /\ timeouts < MaxTimeouts
    /\ \E l \in lists : l.n = loop.n
    /\ timeouts' = timeouts + 1
    /\ lists' = {IF l.n = loop.n THEN [l EXCEPT !.waited = FALSE] ELSE l : l \in lists}
    /\ call' = [call EXCEPT ![loop.from] = "list_done"]
    /\ loop' = [pc |-> "drain"]
    /\ UNCHANGED <<device, zero_copy, calls, back, frames, rx, redraw, minimised, current, vsync, scanout, pool,
                   transients, unseen, submitted, lost, redraws, resizes>>

\* The GPU finishes a list, or the transfer of a present.
GpuRunsList(l) ==
    /\ l \in lists
    /\ lists' = lists \ {l}
    /\ UNCHANGED <<device, zero_copy, guestVars, loopVars, scanout, pool, transients, unseen, boundVars>>
GpuScansOut ==
    /\ \E b \in scanout : scanout' = scanout \ {b}
    /\ UNCHANGED <<device, zero_copy, guestVars, loopVars, pool, lists, transients, unseen, boundVars>>

----------------------------------------------------------------------------
(* RedrawRequested *)

Redrawing == device /\ loop.pc = "drain" /\ rx = <<>> /\ redraw

\* RedrawMinimised if it only skipped the present.
RedrawSkipped ==
    /\ Redrawing /\ minimised
    /\ redraw' = FALSE
    /\ UNCHANGED <<device, zero_copy, guestVars, rx, loop, minimised, current, vsync, gpuVars, boundVars>>

\* A window of size zero: nothing is presented, the flip is answered.
RedrawMinimised ==
    /\ Redrawing /\ minimised
    /\ call' = Answered(vsync) /\ vsync' = {}
    /\ unseen' = (unseen \/ vsync # {})
    /\ redraw' = FALSE
    /\ UNCHANGED <<device, zero_copy, calls, back, frames, rx, loop, minimised, current, scanout, pool, lists,
                   transients, boundVars>>

\* present: wait for the previous present, acquire an image, copy or import
\* the display buffer, submit, answer the flip.
\* The wait for the previous present, left out.
NoFenceWait == TRUE
PreviousPresented == scanout = {}
Present ==
    /\ Redrawing /\ ~minimised /\ PreviousPresented
    /\ scanout' = scanout \cup (IF zero_copy THEN {current} ELSE {})
    /\ call' = Answered(vsync) /\ vsync' = {}
    /\ redraw' = FALSE
    /\ UNCHANGED <<device, zero_copy, calls, back, frames, rx, loop, minimised, current, pool, lists, transients,
                   unseen, boundVars>>

\* present when no image can be acquired: it returns, the flip stays pending.
PresentNoImage ==
    /\ Redrawing /\ ~minimised /\ PreviousPresented /\ lost < MaxLost
    /\ lost' = lost + 1
    /\ redraw' = FALSE
    /\ UNCHANGED <<device, zero_copy, guestVars, rx, loop, minimised, current, vsync, gpuVars,
                   submitted, timeouts, redraws, resizes>>

----------------------------------------------------------------------------
(* The window system *)

\* A redraw of its own accord.
SpuriousRedraw ==
    /\ device /\ ~redraw /\ redraws < MaxRedraws
    /\ redraws' = redraws + 1 /\ redraw' = TRUE
    /\ UNCHANGED <<device, zero_copy, guestVars, rx, loop, minimised, current, vsync, gpuVars,
                   submitted, timeouts, lost, resizes>>

Resize ==
    /\ device /\ resizes < MaxResizes
    /\ resizes' = resizes + 1 /\ minimised' = ~minimised
    /\ UNCHANGED <<device, zero_copy, guestVars, rx, loop, redraw, current, vsync, gpuVars,
                   submitted, timeouts, lost, redraws>>

----------------------------------------------------------------------------
DisplayInit ==
    /\ device \in BOOLEAN /\ zero_copy \in BOOLEAN /\ (zero_copy => device)
    /\ call = [t \in GpuCallers |-> "idle"] /\ calls = 0 /\ back = 0 /\ frames = 0
    /\ rx = <<>> /\ loop = [pc |-> "drain"] /\ redraw = FALSE /\ minimised = FALSE
    /\ current = 1 /\ vsync = {}
    /\ scanout = {} /\ pool = [b \in Buffers |-> "free"] /\ lists = {} /\ transients = {} /\ unseen = FALSE
    /\ submitted = 0 /\ timeouts = 0 /\ lost = 0 /\ redraws = 0 /\ resizes = 0

LoopStep ==
    \/ DrainNoBackend \/ TakeFlip \/ TakeList \/ FenceSignals \/ FenceTimesOut
    \/ RedrawMinimised \/ Present \/ PresentNoImage
GpuStep == GpuScansOut \/ \E l \in lists : GpuRunsList(l)

DisplayNext ==
    \/ LoopStep \/ GpuStep
    \/ SubmitFlip \/ FlipReturns
    \/ \E t \in GpuCallers : RunCommandList(t) \/ ListReturns(t)
    \/ SpuriousRedraw \/ Resize

\* The event loop polls, the GPU runs, and a thread whose reply arrived goes
\* on.  Nothing obliges the window system or the guest to act.
DisplayFairness ==
    /\ WF_displayVars(LoopStep) /\ WF_displayVars(GpuStep)
    /\ WF_displayVars(FlipReturns) /\ \A t \in GpuCallers : WF_displayVars(ListReturns(t))

DisplaySpec == DisplayInit /\ [][DisplayNext]_displayVars /\ DisplayFairness

----------------------------------------------------------------------------
(* Properties *)

\* A guest thread blocked on the display thread is always released: with no
\* device, a minimised window, a hung GPU, another thread's calls in between.
\* Only a present that finds no swapchain image leaves a flip pending (never a
\* list), and when images can be had again the next redraw answers it.
BlockedCallReturns ==
    \A t \in GpuCallers :
        /\ (call[t] = "list") ~> (call[t] = "idle")
        /\ (call[t] = "flip") ~> (call[t] = "idle" \/ lost > 0)
        /\ (call[t] = "flip" /\ redraw /\ lost = MaxLost) ~> (call[t] = "idle")

\* No display buffer is written by the guest while a present reads it: the
\* copy is over before the flip is answered, and an imported buffer's
\* transfer before the flip after it is.  (A flip answered for a minimised
\* window has waited for nothing.)
NoTornScanout == (Writing \cap scanout = {}) \/ unseen

\* Memory the GPU may read is not given to another resource, and what a list
\* is made of is not destroyed under it; of a list given up as hung only its
\* own objects are kept, not the buffers it reads.
NothingReusedInFlight ==
    \A l \in lists :
      /\ l.n \in transients
      /\ l.waited => l.reads \cap In("free") = {}
=============================================================================
