--------------------------- MODULE DisplayProofs ---------------------------
(***************************************************************************)
(* Display, Surfaces, CommandBuffer and Snapshot, for any guest threads,   *)
(* regions, extents, arena, registers and bounds.                          *)
(*                                                                         *)
(* Display: a call that waits for a reply is in exactly one place: in the  *)
(* channel, in the walk of a list, or held as the pending vsync.  From     *)
(* that it follows which display buffer is current at every stage of a     *)
(* flip, and that the display thread waits for one list at a time.         *)
(***************************************************************************)
EXTENDS Display, Surfaces, CommandBuffer, Snapshot, WellFoundedInduction, TLAPS

Message == [op : {"flip"}, from : {Renderer}, buffer : {0, 1}]
             \cup [op : {"list"}, from : GpuCallers]
Pending == 1..Len(rx)
Walks == [pc : {"drain"}] \cup [pc : {"fence"}, from : GpuCallers, n : Nat]
Runs == [n : Nat, reads : SUBSET Buffers, waited : BOOLEAN]

DisplayTypeOK ==
    /\ device \in BOOLEAN /\ zero_copy \in BOOLEAN /\ (zero_copy => device)
    /\ call \in [GpuCallers -> {"idle", "flip", "list", "answered", "list_done"}]
    /\ \A t \in GpuCallers : call[t] \in {"flip", "answered"} => t = Renderer
    /\ back \in {0, 1} /\ current \in {0, 1}
    /\ rx \in Seq(Message)
    /\ loop \in Walks
    /\ vsync \subseteq {Renderer}
    /\ scanout \subseteq {0, 1} /\ (scanout # {} => zero_copy)
    /\ pool \in [Buffers -> {"free", "held", "pending"}]
    /\ lists \subseteq Runs
    /\ unseen \in BOOLEAN
    /\ submitted \in Nat

\* Whoever has a message in the channel is blocked in that call, and has no
\* other message there; a flip carries the renderer's back buffer.
InChannel ==
    \A i \in Pending :
        /\ call[rx[i].from] = rx[i].op
        /\ rx[i].op = "flip" => rx[i].buffer = back
        /\ \A j \in Pending : rx[i].from = rx[j].from => i = j

\* Whoever the walk is for is blocked in its list, and not in the channel.
ListInWalk ==
    loop.pc = "fence" => call[loop.from] = "list" /\ \A i \in Pending : rx[i].from # loop.from

\* Whoever the vsync reply is for is blocked in its flip, and not in the channel.
InVsync ==
    Renderer \in vsync => call[Renderer] = "flip" /\ \A i \in Pending : rx[i].from # Renderer

\* The current target is the buffer flipped last: the back buffer from the
\* moment the flip is taken until it returns, the other one at all other times.
CurrentFollows ==
    device => (current = back <=> Renderer \in vsync \/ call[Renderer] = "answered")

\* A present of the buffer the guest is about to write is over.
PresentsOver ==
    \/ unseen
    \/ /\ call[Renderer] \in {"idle", "list", "list_done"} => back \notin scanout
       /\ call[Renderer] = "answered" => 1 - back \notin scanout

\* The display thread waits for the list it is in, and for no other; what that
\* list reads is not in the pool's hands.
OneWaited ==
    \A l \in lists :
        /\ l.n \in transients
        /\ l.waited => /\ loop.pc = "fence" /\ l.n = loop.n
                       /\ \A b \in l.reads : pool[b] # "free"

Inv == /\ DisplayTypeOK /\ InChannel /\ ListInWalk /\ InVsync
       /\ CurrentFollows /\ PresentsOver /\ OneWaited

----------------------------------------------------------------------------
(* The channel *)

\* What sending does to a queue.
LEMMA SendFacts ==
    ASSUME NEW S, NEW q \in Seq(S), NEW m \in S
    PROVE  /\ Append(q, m) \in Seq(S) /\ Len(Append(q, m)) = Len(q) + 1 /\ Len(q) \in Nat
           /\ Append(q, m)[Len(q) + 1] = m
           /\ \A i \in 1..Len(q) : Append(q, m)[i] = q[i]
  OBVIOUS

\* What receiving does to a queue.
LEMMA ReceiveFacts ==
    ASSUME NEW S, NEW q \in Seq(S), q # << >>
    PROVE  /\ Tail(q) \in Seq(S) /\ Len(Tail(q)) = Len(q) - 1 /\ Len(q) \in Nat \ {0}
           /\ Head(q) = q[1] /\ Head(q) \in S
           /\ \A i \in 1..Len(Tail(q)) : Tail(q)[i] = q[i + 1]
  OBVIOUS

\* Messages are calls of guest threads.
LEMMA MessageFacts ==
    ASSUME NEW m \in Message
    PROVE  /\ m.from \in GpuCallers /\ m.op \in {"flip", "list"}
           /\ m.op = "flip" => m.from = Renderer /\ m.buffer \in {0, 1}
  BY DisplayAssumption DEF Message

\* A thread that sends a call has no message in the channel, is not the one a
\* walk is for, and afterwards is in the channel once.
LEMMA SendKeeps ==
    ASSUME Inv, NEW t \in GpuCallers, call[t] = "idle", NEW m \in Message, m.from = t,
           m.op = "flip" => m.buffer = back, m.op = "flip" => t = Renderer,
           call' = [call EXCEPT ![t] = m.op], rx' = Append(rx, m),
           UNCHANGED <<device, zero_copy, back, loop, current, vsync, gpuVars, submitted>>
    PROVE  Inv'
<1> USE DEF gpuVars
<1>1. m.op \in {"flip", "list"} /\ m.from \in GpuCallers
  BY MessageFacts
<1>2. /\ rx' \in Seq(Message) /\ Len(rx') = Len(rx) + 1 /\ Len(rx) \in Nat
      /\ rx'[Len(rx) + 1] = m /\ \A i \in 1..Len(rx) : rx'[i] = rx[i]
  BY SendFacts DEF Inv, DisplayTypeOK
<1>3. \A i \in Pending : rx[i] \in Message /\ rx[i].from \in GpuCallers
  BY MessageFacts DEF Inv, DisplayTypeOK, Pending
<1>4. \A i \in Pending : rx[i].from # t
  BY <1>3, MessageFacts DEF Inv, InChannel
<1>5. \A i \in Pending' : \/ i \in Pending /\ rx'[i] = rx[i]
                          \/ i = Len(rx) + 1 /\ rx'[i] = m
  BY <1>2 DEF Pending
<1>6. \A u \in GpuCallers : call'[u] = IF u = t THEN m.op ELSE call[u]
  BY DEF Inv, DisplayTypeOK
<1>7. DisplayTypeOK'
  <2>1. call' \in [GpuCallers -> {"idle", "flip", "list", "answered", "list_done"}]
    BY <1>1 DEF Inv, DisplayTypeOK
  <2>2. \A u \in GpuCallers : call'[u] \in {"flip", "answered"} => u = Renderer
    BY <1>1, <1>6 DEF Inv, DisplayTypeOK
  <2> QED
    BY <1>2, <2>1, <2>2 DEF Inv, DisplayTypeOK
<1>8. InChannel'
  <2>1. ASSUME NEW i \in Pending'
        PROVE  /\ call'[rx'[i].from] = rx'[i].op
               /\ rx'[i].op = "flip" => rx'[i].buffer = back'
               /\ \A j \in Pending' : rx'[i].from = rx'[j].from => i = j
    <3>1. CASE i \in Pending /\ rx'[i] = rx[i]
      <4>1. /\ call[rx[i].from] = rx[i].op
            /\ rx[i].op = "flip" => rx[i].buffer = back
            /\ \A j \in Pending : rx[i].from = rx[j].from => i = j
        BY <3>1 DEF Inv, InChannel
      <4>2. call'[rx[i].from] = call[rx[i].from]
        BY <1>3, <1>4, <1>6, <3>1
      <4>3. ASSUME NEW j \in Pending', rx'[i].from = rx'[j].from PROVE i = j
        <5>1. j \in Pending /\ rx'[j] = rx[j]
          BY <1>4, <1>5, <3>1, <4>3
        <5> QED
          BY <3>1, <4>1, <4>3, <5>1
      <4> QED
        BY <3>1, <4>1, <4>2, <4>3
    <3>2. CASE i = Len(rx) + 1 /\ rx'[i] = m
      BY <1>4, <1>5, <1>6, <3>2
    <3> QED
      BY <1>5, <3>1, <3>2
  <2> QED
    BY <2>1 DEF InChannel
<1>9. ListInWalk'
  BY <1>5, <1>6 DEF Inv, ListInWalk, DisplayTypeOK, Walks
<1>10. InVsync'
  BY <1>5, <1>6, DisplayAssumption DEF Inv, InVsync
<1>11. CurrentFollows'
  BY <1>1, <1>6, DisplayAssumption DEF Inv, CurrentFollows
<1>12. PresentsOver'
  BY <1>1, <1>6, DisplayAssumption DEF Inv, PresentsOver
<1>13. OneWaited'
  BY DEF Inv, OneWaited
<1> QED
  BY <1>7, <1>8, <1>9, <1>10, <1>11, <1>12, <1>13 DEF Inv

\* The renderer flips its back buffer.
LEMMA SubmitFlip_Inv == Inv /\ SubmitFlip => Inv'
<1> SUFFICES ASSUME Inv, SubmitFlip PROVE Inv'
  OBVIOUS
<1> DEFINE m == [op |-> "flip", from |-> Renderer, buffer |-> back]
<1>1. m \in Message /\ m.from = Renderer /\ m.op = "flip" /\ m.buffer = back
  BY DEF Message, Inv, DisplayTypeOK
<1>2. /\ call[Renderer] = "idle" /\ call' = [call EXCEPT ![Renderer] = m.op] /\ rx' = Append(rx, m)
      /\ UNCHANGED <<device, zero_copy, back, loop, current, vsync, gpuVars, submitted>>
  BY DEF SubmitFlip, boundVars
<1> HIDE DEF m
<1> QED
  BY <1>1, <1>2, SendKeeps, DisplayAssumption

\* Any thread ships a list.
LEMMA RunCommandList_Inv ==
    ASSUME Inv, NEW t \in GpuCallers, RunCommandList(t)
    PROVE  Inv'
<1> DEFINE m == [op |-> "list", from |-> t]
<1>1. m \in Message /\ m.from = t /\ m.op = "list" /\ m.op # "flip"
  BY DEF Message
<1>2. /\ call[t] = "idle" /\ call' = [call EXCEPT ![t] = m.op] /\ rx' = Append(rx, m)
      /\ UNCHANGED <<device, zero_copy, back, loop, current, vsync, gpuVars, submitted>>
  BY DEF RunCommandList, boundVars
<1> HIDE DEF m
<1> QED
  BY <1>1, <1>2, SendKeeps

\* The head of the channel is taken: who sent it is blocked in that call and
\* is nowhere else.
LEMMA Received ==
    ASSUME Inv, rx # << >>, rx' = Tail(rx)
    PROVE  /\ rx' \in Seq(Message) /\ Head(rx) \in Message /\ Head(rx).from \in GpuCallers
           /\ call[Head(rx).from] = Head(rx).op
           /\ Head(rx).op = "flip" => Head(rx).from = Renderer /\ Head(rx).buffer = back
           /\ \A i \in Pending' : i + 1 \in Pending /\ rx'[i] = rx[i + 1] /\ i \in Nat
           /\ \A i \in Pending' : rx'[i].from # Head(rx).from
           /\ loop.pc = "fence" => loop.from # Head(rx).from
           /\ Head(rx).from \notin vsync
<1>1. /\ rx' \in Seq(Message) /\ Len(rx') = Len(rx) - 1 /\ Len(rx) \in Nat \ {0}
      /\ Head(rx) = rx[1] /\ Head(rx) \in Message
      /\ \A i \in 1..Len(rx') : rx'[i] = rx[i + 1]
  BY ReceiveFacts DEF Inv, DisplayTypeOK
<1>2. /\ 1 \in Pending
      /\ \A i \in Pending' : i + 1 \in Pending /\ rx'[i] = rx[i + 1] /\ i + 1 # 1 /\ i \in Nat
  BY <1>1 DEF Pending
<1>3. /\ call[rx[1].from] = rx[1].op
      /\ rx[1].op = "flip" => rx[1].buffer = back
      /\ \A j \in Pending : rx[1].from = rx[j].from => 1 = j
  BY <1>2 DEF Inv, InChannel
<1>4. loop.pc = "fence" => loop.from # Head(rx).from
  BY <1>1, <1>2 DEF Inv, ListInWalk
<1>5. Head(rx).from \notin vsync
  BY <1>1, <1>2 DEF Inv, InVsync, DisplayTypeOK
<1>6. \A i \in Pending' : rx'[i].from # Head(rx).from
  BY <1>1, <1>2, <1>3
<1> QED
  BY <1>1, <1>2, <1>3, <1>4, <1>5, <1>6, MessageFacts

\* The messages that stay keep what InChannel says of them.
LEMMA OthersInChannel ==
    ASSUME Inv, rx # << >>, rx' = Tail(rx), UNCHANGED back,
           \A u \in GpuCallers : u # Head(rx).from /\ u \notin vsync => call'[u] = call[u]
    PROVE  InChannel'
<1>1. \A i \in Pending' : i + 1 \in Pending /\ rx'[i] = rx[i + 1] /\ i \in Nat
                          /\ rx'[i].from # Head(rx).from
  BY Received
<1>2. \A i \in Pending : rx[i].from \in GpuCallers
  BY MessageFacts DEF Inv, DisplayTypeOK, Pending
<1>3. \A i \in Pending : rx[i].from \notin vsync
  BY DEF Inv, InVsync, DisplayTypeOK
<1>4. \A i \in Pending' : call'[rx'[i].from] = call[rx'[i].from]
  BY <1>1, <1>2, <1>3
<1>5. \A i, j \in Pending' : i + 1 = j + 1 => i = j
  BY <1>1
<1>6. ASSUME NEW i \in Pending'
      PROVE  /\ call'[rx'[i].from] = rx'[i].op
             /\ rx'[i].op = "flip" => rx'[i].buffer = back
             /\ \A j \in Pending' : rx'[i].from = rx'[j].from => i = j
  <2>1. i + 1 \in Pending /\ rx'[i] = rx[i + 1]
    BY <1>1
  <2>2. /\ call[rx[i + 1].from] = rx[i + 1].op
        /\ rx[i + 1].op = "flip" => rx[i + 1].buffer = back
        /\ \A k \in Pending : rx[i + 1].from = rx[k].from => i + 1 = k
    BY <2>1 DEF Inv, InChannel
  <2>3. \A j \in Pending' : rx'[i].from = rx'[j].from => i = j
    <3> SUFFICES ASSUME NEW j \in Pending', rx'[i].from = rx'[j].from PROVE i = j
      OBVIOUS
    <3>1. j + 1 \in Pending /\ rx'[j] = rx[j + 1]
      BY <1>1
    <3>2. i + 1 = j + 1
      BY <2>1, <2>2, <3>1
    <3> QED BY <1>5, <3>2
  <2>4. call'[rx'[i].from] = rx'[i].op
    BY <1>4, <2>1, <2>2
  <2> QED
    BY <2>1, <2>2, <2>3, <2>4
<1> QED
  BY <1>6 DEF InChannel

----------------------------------------------------------------------------
(* Replies *)

\* Answering the pending vsync touches nobody but the thread it is for.
LEMMA AnswerFacts ==
    ASSUME Inv, call' = Answered(vsync)
    PROVE  /\ call' \in [GpuCallers -> {"idle", "flip", "list", "answered", "list_done"}]
           /\ \A u \in GpuCallers : call'[u] = IF u \in vsync THEN "answered" ELSE call[u]
           /\ \A u \in GpuCallers : call'[u] \in {"flip", "answered"} => u = Renderer
<1>1. \A u \in GpuCallers : call'[u] = IF u \in vsync THEN "answered" ELSE call[u]
  BY DEF Answered
<1>2. call' \in [GpuCallers -> {"idle", "flip", "list", "answered", "list_done"}]
  BY DEF Inv, DisplayTypeOK, Answered
<1> QED
  BY <1>1, <1>2 DEF Inv, DisplayTypeOK

\* When the channel is not touched, a thread whose call changes must not be
\* in it.
LEMMA ChannelStays ==
    ASSUME Inv, UNCHANGED <<rx, back>>,
           NEW S, \A i \in Pending : rx[i].from \notin S,
           \A u \in GpuCallers : u \notin S => call'[u] = call[u]
    PROVE  InChannel'
<1>1. Pending' = Pending /\ \A i \in Pending : rx'[i] = rx[i]
  BY DEF Pending
<1>2. \A i \in Pending : rx[i].from \in GpuCallers
  BY MessageFacts DEF Inv, DisplayTypeOK, Pending
<1>3. \A i \in Pending : call'[rx[i].from] = call[rx[i].from]
  BY <1>2
<1> QED
  BY <1>1, <1>3 DEF Inv, InChannel

\* A thread that is not waiting has no message in the channel, and neither the
\* walk nor the vsync is for it.
LEMMA NotWaiting ==
    ASSUME Inv, NEW t \in GpuCallers, call[t] \in {"idle", "answered", "list_done"}
    PROVE  /\ \A i \in Pending : rx[i].from # t
           /\ loop.pc = "fence" => loop.from # t
           /\ t \notin vsync
<1>1. \A i \in Pending : rx[i].op \in {"flip", "list"}
  BY MessageFacts DEF Inv, DisplayTypeOK, Pending
<1>2. \A i \in Pending : rx[i].from # t
  BY <1>1 DEF Inv, InChannel
<1>3. loop.pc = "fence" => loop.from # t
  BY DEF Inv, ListInWalk
<1>4. t \notin vsync
  BY DEF Inv, InVsync, DisplayTypeOK
<1> QED
  BY <1>2, <1>3, <1>4

\* What the walk is for.
LEMMA WalkFacts ==
    ASSUME Inv, loop.pc = "fence"
    PROVE  loop.from \in GpuCallers /\ loop.n \in Nat
  BY DEF Inv, DisplayTypeOK, Walks

\* The flip returns, and the renderer turns to the other buffer.
LEMMA FlipReturns_Inv == Inv /\ FlipReturns => Inv'
<1> SUFFICES ASSUME Inv, FlipReturns PROVE Inv'
  OBVIOUS
<1> USE DEF loopVars, gpuVars, boundVars
<1>0. Renderer \in GpuCallers
  BY DisplayAssumption
<1>1. /\ \A i \in Pending : rx[i].from # Renderer
      /\ loop.pc = "fence" => loop.from # Renderer
      /\ Renderer \notin vsync
  BY <1>0, NotWaiting DEF FlipReturns
<1>2. /\ call' \in [GpuCallers -> {"idle", "flip", "list", "answered", "list_done"}]
      /\ \A u \in GpuCallers : call'[u] = IF u = Renderer THEN "idle" ELSE call[u]
  BY DEF FlipReturns, Inv, DisplayTypeOK
<1>3. back \in {0, 1} /\ back' = 1 - back /\ back' \in {0, 1} /\ back' # back
  BY DEF FlipReturns, Inv, DisplayTypeOK
<1>4. DisplayTypeOK'
  BY <1>2, <1>3 DEF FlipReturns, Inv, DisplayTypeOK
<1>5. InChannel'
  <2>1. Pending' = Pending /\ \A i \in Pending : rx'[i] = rx[i]
    BY DEF Pending, FlipReturns
  <2>2. \A i \in Pending : rx[i].from \in GpuCallers /\ rx[i].op # "flip"
    BY <1>1, MessageFacts DEF Inv, DisplayTypeOK, Pending
  <2>3. \A i \in Pending : call'[rx[i].from] = call[rx[i].from]
    BY <1>1, <1>2, <2>2
  <2> QED
    BY <2>1, <2>2, <2>3 DEF Inv, InChannel
<1>6. ListInWalk'
  BY <1>1, <1>2, WalkFacts DEF FlipReturns, Inv, ListInWalk, Pending
<1>7. InVsync'
  BY <1>1 DEF FlipReturns, InVsync
<1>8. CurrentFollows'
  <2>1. current \in {0, 1} /\ (device => current = back)
    BY DEF FlipReturns, Inv, CurrentFollows, DisplayTypeOK
  <2> QED
    BY <1>0, <1>1, <1>2, <1>3, <2>1 DEF FlipReturns, CurrentFollows
<1>9. PresentsOver'
  BY <1>0, <1>2, <1>3 DEF FlipReturns, Inv, PresentsOver
<1>10. OneWaited'
  BY DEF FlipReturns, Inv, OneWaited
<1> QED
  BY <1>4, <1>5, <1>6, <1>7, <1>8, <1>9, <1>10 DEF Inv

\* A list's call returns.
LEMMA ListReturns_Inv ==
    ASSUME Inv, NEW t \in GpuCallers, ListReturns(t)
    PROVE  Inv'
<1> USE DEF loopVars, gpuVars, boundVars
<1>1. /\ \A i \in Pending : rx[i].from # t
      /\ loop.pc = "fence" => loop.from # t
      /\ t \notin vsync
  BY NotWaiting DEF ListReturns
<1>2. /\ call' \in [GpuCallers -> {"idle", "flip", "list", "answered", "list_done"}]
      /\ \A u \in GpuCallers : call'[u] = IF u = t THEN "idle" ELSE call[u]
      /\ call[t] = "list_done"
  BY DEF ListReturns, Inv, DisplayTypeOK
<1>3. DisplayTypeOK'
  BY <1>2 DEF ListReturns, Inv, DisplayTypeOK
<1>4. InChannel'
  <2>1. \A u \in GpuCallers : u \notin {t} => call'[u] = call[u]
    BY <1>2
  <2> QED
    BY <1>1, <2>1, ChannelStays DEF ListReturns
<1>5. ListInWalk'
  BY <1>1, <1>2, WalkFacts DEF ListReturns, Inv, ListInWalk, Pending
<1>6. InVsync'
  BY <1>1, <1>2, DisplayAssumption DEF ListReturns, Inv, InVsync, Pending
<1>7. CurrentFollows'
  BY <1>2, DisplayAssumption DEF ListReturns, Inv, CurrentFollows
<1>8. PresentsOver'
  BY <1>2, DisplayAssumption DEF ListReturns, Inv, PresentsOver
<1>9. OneWaited'
  BY DEF ListReturns, Inv, OneWaited
<1> QED
  BY <1>3, <1>4, <1>5, <1>6, <1>7, <1>8, <1>9 DEF Inv

----------------------------------------------------------------------------
(* Draining the channel *)

\* Without a device the head of the channel is answered at once.
LEMMA DrainNoBackend_Inv == Inv /\ DrainNoBackend => Inv'
<1> SUFFICES ASSUME Inv, DrainNoBackend PROVE Inv'
  OBVIOUS
<1> USE DEF gpuVars, boundVars
<1> DEFINE h == Head(rx)
           reply == IF h.op = "flip" THEN "answered" ELSE "list_done"
<1>1. rx # << >> /\ rx' = Tail(rx) /\ ~device /\ scanout = {}
  BY DEF DrainNoBackend, Inv, DisplayTypeOK
<1>2. /\ rx' \in Seq(Message) /\ h.from \in GpuCallers
      /\ h.op = "flip" => h.from = Renderer
      /\ \A i \in Pending' : i + 1 \in Pending /\ rx'[i] = rx[i + 1]
      /\ \A i \in Pending' : rx'[i].from # h.from
      /\ loop.pc = "fence" => loop.from # h.from
      /\ h.from \notin vsync
  BY <1>1, Received
<1>3. call' = [call EXCEPT ![h.from] = reply] /\ reply \in {"answered", "list_done"}
      /\ (reply = "answered" => h.op = "flip")
  BY DEF DrainNoBackend
<1> HIDE DEF h, reply
<1>4. /\ call' \in [GpuCallers -> {"idle", "flip", "list", "answered", "list_done"}]
      /\ \A u \in GpuCallers : call'[u] = IF u = h.from THEN reply ELSE call[u]
  BY <1>2, <1>3 DEF Inv, DisplayTypeOK
<1>5. DisplayTypeOK'
  <2>1. \A u \in GpuCallers : call'[u] \in {"flip", "answered"} => u = Renderer
    BY <1>2, <1>3, <1>4 DEF Inv, DisplayTypeOK
  <2> QED
    BY <1>2, <1>4, <2>1 DEF DrainNoBackend, Inv, DisplayTypeOK
<1>6. InChannel'
  <2>1. \A u \in GpuCallers : u # Head(rx).from /\ u \notin vsync => call'[u] = call[u]
    BY <1>4 DEF h
  <2> QED
    BY <1>1, <2>1, OthersInChannel DEF DrainNoBackend
<1>0. UNCHANGED <<loop, vsync>>
  BY DEF DrainNoBackend
<1>7. ListInWalk'
  <2> SUFFICES ASSUME loop.pc = "fence"
               PROVE  call'[loop.from] = "list" /\ \A i \in Pending' : rx'[i].from # loop.from
    BY <1>0 DEF ListInWalk
  <2>1. loop.from \in GpuCallers /\ call[loop.from] = "list" /\ \A i \in Pending : rx[i].from # loop.from
    BY WalkFacts DEF Inv, ListInWalk
  <2> QED
    BY <1>2, <1>4, <2>1
<1>8. InVsync'
  <2> SUFFICES ASSUME Renderer \in vsync
               PROVE  call'[Renderer] = "flip" /\ \A i \in Pending' : rx'[i].from # Renderer
    BY <1>0 DEF InVsync
  <2>1. call[Renderer] = "flip" /\ \A i \in Pending : rx[i].from # Renderer
    BY DEF Inv, InVsync
  <2> QED
    BY <1>2, <1>4, <2>1, DisplayAssumption
<1>9. CurrentFollows'
  BY <1>1 DEF DrainNoBackend, CurrentFollows
<1>10. PresentsOver'
  BY <1>1 DEF DrainNoBackend, PresentsOver
<1>11. OneWaited'
  BY DEF DrainNoBackend, Inv, OneWaited
<1> QED
  BY <1>5, <1>6, <1>7, <1>8, <1>9, <1>10, <1>11 DEF Inv

\* The loop takes a flip.  Its sender is the renderer, so no other flip is
\* pending, and the sender that is replaced belongs to nobody.
LEMMA TakeFlip_Inv == Inv /\ TakeFlip => Inv'
<1> SUFFICES ASSUME Inv, TakeFlip PROVE Inv'
  OBVIOUS
<1> USE DEF gpuVars, boundVars
<1>1. /\ rx # << >> /\ rx' = Tail(rx) /\ Head(rx).op = "flip" /\ loop.pc = "drain"
      /\ call' = Answered(vsync)
  BY DEF TakeFlip
<1>2. /\ rx' \in Seq(Message) /\ Head(rx).from = Renderer /\ Head(rx).buffer = back
      /\ call[Renderer] = "flip" /\ Renderer \notin vsync
      /\ \A i \in Pending' : rx'[i].from # Renderer
  BY <1>1, Received
<1>3. vsync = {}
  BY <1>2 DEF Inv, DisplayTypeOK
<1>4. /\ call' \in [GpuCallers -> {"idle", "flip", "list", "answered", "list_done"}]
      /\ \A u \in GpuCallers : call'[u] = call[u]
      /\ \A u \in GpuCallers : call'[u] \in {"flip", "answered"} => u = Renderer
  BY <1>1, <1>3, AnswerFacts
<1>5. current' = back /\ vsync' = {Renderer} /\ back \in {0, 1}
  BY <1>2 DEF TakeFlip, Inv, DisplayTypeOK
<1>6. DisplayTypeOK'
  BY <1>2, <1>4, <1>5 DEF TakeFlip, Inv, DisplayTypeOK
<1>7. InChannel'
  BY <1>1, <1>4, OthersInChannel DEF TakeFlip
<1>8. ListInWalk'
  BY <1>1 DEF TakeFlip, ListInWalk
<1>9. InVsync'
  BY <1>2, <1>4, DisplayAssumption DEF InVsync
<1>10. CurrentFollows'
  BY <1>5 DEF TakeFlip, CurrentFollows
<1>11. PresentsOver'
  BY <1>2, <1>4, DisplayAssumption DEF TakeFlip, PresentsOver
<1>12. OneWaited'
  BY DEF TakeFlip, Inv, OneWaited
<1> QED
  BY <1>6, <1>7, <1>8, <1>9, <1>10, <1>11, <1>12 DEF Inv

\* What a walk leaves in the pool: it frees nothing it drew with.
LEMMA WalkedPool ==
    ASSUME NEW p, NEW fresh, NEW gone,
           LET q == AllocInWalk(Recycle(p), fresh) IN gone \subseteq {b \in Buffers : q[b] = "held"},
           p \in [Buffers -> {"free", "held", "pending"}]
    PROVE  LET q == AllocInWalk(Recycle(p), fresh)
           IN /\ FreeInWalk(q, gone) \in [Buffers -> {"free", "held", "pending"}]
              /\ \A b \in Buffers : q[b] = "held" => FreeInWalk(q, gone)[b] # "free"
  BY DEF AllocInWalk, Recycle, FreeInWalk

\* The loop takes a list: it was waiting for none, and now waits for this one.
LEMMA TakeList_Inv == Inv /\ TakeList => Inv'
<1> SUFFICES ASSUME Inv, TakeList PROVE Inv'
  OBVIOUS
<1> USE DEF guestVars
<1>1. rx # << >> /\ rx' = Tail(rx) /\ Head(rx).op = "list" /\ loop.pc = "drain"
  BY DEF TakeList
<1>2. /\ rx' \in Seq(Message) /\ Head(rx).from \in GpuCallers
      /\ call[Head(rx).from] = "list"
      /\ \A i \in Pending' : i + 1 \in Pending /\ rx'[i] = rx[i + 1]
      /\ \A i \in Pending' : rx'[i].from # Head(rx).from
  BY <1>1, Received
<1>3. PICK fresh \in SUBSET reserve(Recycle(pool)) :
        LET p == AllocInWalk(Recycle(pool), fresh)
            live == {b \in Buffers : p[b] = "held"}
        IN /\ Cardinality(fresh) <= 1
           /\ \E gone \in SUBSET live : pool' = FreeInWalk(p, gone)
           /\ lists' = lists \cup {[n |-> submitted, reads |-> live, waited |-> TRUE]}
           /\ transients' = transients \cup {submitted}
  BY DEF TakeList
<1> DEFINE p == AllocInWalk(Recycle(pool), fresh)
           live == {b \in Buffers : p[b] = "held"}
           new == [n |-> submitted, reads |-> live, waited |-> TRUE]
<1>4. PICK gone \in SUBSET live : pool' = FreeInWalk(p, gone)
  BY <1>3
<1>5. lists' = lists \cup {new} /\ transients' = transients \cup {submitted}
  BY <1>3
<1>6. /\ pool' \in [Buffers -> {"free", "held", "pending"}]
      /\ \A b \in live : pool'[b] # "free"
  BY <1>4, WalkedPool DEF Inv, DisplayTypeOK
<1>7. live \subseteq Buffers
  OBVIOUS
<1> HIDE DEF p, live
<1>8. new \in Runs /\ new.n = submitted /\ new.reads = live
  BY <1>7 DEF Runs, Inv, DisplayTypeOK
<1> HIDE DEF new
<1>9. loop' \in Walks /\ loop'.pc = "fence" /\ loop'.from = Head(rx).from /\ loop'.n = submitted
  BY <1>2 DEF TakeList, Walks, Inv, DisplayTypeOK
<1>10. DisplayTypeOK'
  BY <1>2, <1>5, <1>6, <1>8, <1>9 DEF TakeList, Inv, DisplayTypeOK
<1>11. InChannel'
  BY <1>1, OthersInChannel DEF TakeList
<1>12. ListInWalk'
  BY <1>2, <1>9 DEF TakeList, ListInWalk
<1>13. InVsync'
  BY <1>2 DEF TakeList, Inv, InVsync
<1>14. CurrentFollows' /\ PresentsOver'
  BY DEF TakeList, Inv, CurrentFollows, PresentsOver
<1>15. OneWaited'
  <2>1. \A l \in lists : l.n \in transients /\ ~l.waited
    BY <1>1 DEF Inv, OneWaited
  <2> QED
    BY <1>5, <1>6, <1>8, <1>9, <2>1 DEF OneWaited
<1> QED
  BY <1>10, <1>11, <1>12, <1>13, <1>14, <1>15 DEF Inv

\* The walk ends, by the fence or by its timeout: its caller is answered.
LEMMA WalkEnds ==
    ASSUME Inv, loop.pc = "fence",
           call' = [call EXCEPT ![loop.from] = "list_done"], loop' = [pc |-> "drain"],
           UNCHANGED <<device, zero_copy, back, rx, current, vsync, scanout, pool, unseen, submitted>>,
           lists' \subseteq Runs
    PROVE  DisplayTypeOK' /\ InChannel' /\ ListInWalk' /\ InVsync' /\ CurrentFollows' /\ PresentsOver'
<1>1. /\ loop.from \in GpuCallers /\ call[loop.from] = "list"
      /\ \A i \in Pending : rx[i].from # loop.from
  BY WalkFacts DEF Inv, ListInWalk
<1>2. /\ call' \in [GpuCallers -> {"idle", "flip", "list", "answered", "list_done"}]
      /\ \A u \in GpuCallers : call'[u] = IF u = loop.from THEN "list_done" ELSE call[u]
  BY <1>1 DEF Inv, DisplayTypeOK
<1>3. DisplayTypeOK'
  <2>1. loop' \in Walks
    BY DEF Walks
  <2> QED
    BY <1>2, <2>1 DEF Inv, DisplayTypeOK
<1>4. InChannel'
  <2>1. \A u \in GpuCallers : u \notin {loop.from} => call'[u] = call[u]
    BY <1>2
  <2> QED
    BY <1>1, <2>1, ChannelStays
<1>5. ListInWalk'
  BY DEF ListInWalk
<1>6. InVsync'
  BY <1>1, <1>2, DisplayAssumption DEF Inv, InVsync, Pending
<1>7. CurrentFollows'
  BY <1>1, <1>2, DisplayAssumption DEF Inv, CurrentFollows
<1>8. PresentsOver'
  BY <1>1, <1>2, DisplayAssumption DEF Inv, PresentsOver
<1> QED
  BY <1>3, <1>4, <1>5, <1>6, <1>7, <1>8

\* The fence of the list signals: no list on the GPU has its number, so none
\* loses its objects, and none is waited for any more.
LEMMA FenceSignals_Inv == Inv /\ FenceSignals => Inv'
<1> SUFFICES ASSUME Inv, FenceSignals PROVE Inv'
  OBVIOUS
<1>1. DisplayTypeOK' /\ InChannel' /\ ListInWalk' /\ InVsync' /\ CurrentFollows' /\ PresentsOver'
  BY WalkEnds DEF FenceSignals, boundVars, Inv, DisplayTypeOK
<1>2. OneWaited'
  BY DEF FenceSignals, Inv, OneWaited
<1> QED
  BY <1>1, <1>2 DEF Inv

\* The wait for the list runs out: the list is no longer waited for, and keeps
\* its objects.
LEMMA FenceTimesOut_Inv == Inv /\ FenceTimesOut => Inv'
<1> SUFFICES ASSUME Inv, FenceTimesOut PROVE Inv'
  OBVIOUS
<1> DEFINE given(l) == IF l.n = loop.n THEN [l EXCEPT !.waited = FALSE] ELSE l
<1>1. lists' = {given(l) : l \in lists}
  BY DEF FenceTimesOut
<1>2. ASSUME NEW l \in lists
      PROVE  given(l) \in Runs /\ given(l).n = l.n /\ ~given(l).waited
  <2>1. l \in Runs
    BY DEF Inv, DisplayTypeOK
  <2>2. CASE l.n = loop.n
    BY <2>1, <2>2 DEF Runs
  <2>3. CASE l.n # loop.n
    BY <2>1, <2>3 DEF Inv, OneWaited
  <2> QED
    BY <2>2, <2>3
<1> HIDE DEF given
<1>3. lists' \subseteq Runs
  BY <1>1, <1>2
<1>4. DisplayTypeOK' /\ InChannel' /\ ListInWalk' /\ InVsync' /\ CurrentFollows' /\ PresentsOver'
  BY <1>3, WalkEnds DEF FenceTimesOut
<1>5. OneWaited'
  BY <1>1, <1>2 DEF FenceTimesOut, Inv, OneWaited
<1> QED
  BY <1>4, <1>5 DEF Inv

----------------------------------------------------------------------------
(* The GPU, the redraws and the window *)

\* A step that leaves the guest, the channel and the loop alone.
LEMMA GuestStays ==
    ASSUME Inv, UNCHANGED <<call, back, rx, loop, current, vsync, device>>
    PROVE  InChannel' /\ ListInWalk' /\ InVsync' /\ CurrentFollows'
  BY DEF Inv, InChannel, ListInWalk, InVsync, CurrentFollows, Pending

\* The GPU finishes a list.
LEMMA GpuRunsList_Inv ==
    ASSUME Inv, NEW l \in lists, GpuRunsList(l)
    PROVE  Inv'
<1> USE DEF GpuRunsList, guestVars, loopVars, boundVars
<1>1. InChannel' /\ ListInWalk' /\ InVsync' /\ CurrentFollows'
  BY GuestStays
<1>2. DisplayTypeOK'
  BY DEF Inv, DisplayTypeOK
<1>3. PresentsOver' /\ OneWaited'
  BY DEF Inv, PresentsOver, OneWaited
<1> QED
  BY <1>1, <1>2, <1>3 DEF Inv

\* The GPU finishes a present.
LEMMA GpuScansOut_Inv == Inv /\ GpuScansOut => Inv'
<1> SUFFICES ASSUME Inv, GpuScansOut PROVE Inv'
  OBVIOUS
<1> USE DEF GpuScansOut, guestVars, loopVars, boundVars
<1>1. InChannel' /\ ListInWalk' /\ InVsync' /\ CurrentFollows'
  BY GuestStays
<1>2. DisplayTypeOK'
  BY DEF Inv, DisplayTypeOK
<1>3. PresentsOver' /\ OneWaited'
  BY DEF Inv, PresentsOver, OneWaited
<1> QED
  BY <1>1, <1>2, <1>3 DEF Inv

\* The steps that only count or request something.
LEMMA Quiet_Inv == Inv /\ (PresentNoImage \/ SpuriousRedraw \/ Resize) => Inv'
<1> SUFFICES ASSUME Inv, PresentNoImage \/ SpuriousRedraw \/ Resize PROVE Inv'
  OBVIOUS
<1>0. UNCHANGED <<device, zero_copy, call, back, rx, loop, current, vsync, gpuVars, submitted>>
  BY DEF PresentNoImage, SpuriousRedraw, Resize, guestVars
<1>1. InChannel' /\ ListInWalk' /\ InVsync' /\ CurrentFollows'
  BY <1>0, GuestStays
<1>2. DisplayTypeOK'
  BY <1>0 DEF gpuVars, Inv, DisplayTypeOK
<1>3. PresentsOver' /\ OneWaited'
  BY <1>0 DEF gpuVars, Inv, PresentsOver, OneWaited
<1> QED
  BY <1>1, <1>2, <1>3 DEF Inv

\* A redraw that answers the pending flip.  A renderer that is answered was
\* waiting, so the current target is its back buffer.
LEMMA VsyncAnswered ==
    ASSUME Inv, call' = Answered(vsync), vsync' = {}, loop.pc = "drain",
           UNCHANGED <<device, zero_copy, back, rx, loop, current, pool, lists, transients, submitted>>
    PROVE  /\ InChannel' /\ ListInWalk' /\ InVsync' /\ CurrentFollows' /\ OneWaited'
           /\ scanout' \subseteq {0, 1} /\ (scanout' # {} => zero_copy) /\ unseen' \in BOOLEAN
                => DisplayTypeOK'
           /\ call'[Renderer] = IF Renderer \in vsync THEN "answered" ELSE call[Renderer]
<1>1. /\ call' \in [GpuCallers -> {"idle", "flip", "list", "answered", "list_done"}]
      /\ \A u \in GpuCallers : call'[u] = IF u \in vsync THEN "answered" ELSE call[u]
      /\ \A u \in GpuCallers : call'[u] \in {"flip", "answered"} => u = Renderer
  BY AnswerFacts
<1>2. \A i \in Pending : rx[i].from \notin vsync
  BY DEF Inv, InVsync, DisplayTypeOK
<1>3. InChannel'
  <2>1. \A u \in GpuCallers : u \notin vsync => call'[u] = call[u]
    BY <1>1
  <2> QED
    BY <1>2, <2>1, ChannelStays
<1>4. ListInWalk' /\ InVsync'
  BY DEF ListInWalk, InVsync
<1>5. CurrentFollows'
  BY <1>1, DisplayAssumption DEF Inv, CurrentFollows
<1>6. OneWaited'
  BY DEF Inv, OneWaited
<1>7. scanout' \subseteq {0, 1} /\ (scanout' # {} => zero_copy) /\ unseen' \in BOOLEAN
        => DisplayTypeOK'
  BY <1>1 DEF Inv, DisplayTypeOK
<1> QED
  BY <1>1, <1>3, <1>4, <1>5, <1>6, <1>7, DisplayAssumption

\* A redraw of a minimised window.
LEMMA RedrawMinimised_Inv == Inv /\ RedrawMinimised => Inv'
<1> SUFFICES ASSUME Inv, RedrawMinimised PROVE Inv'
  OBVIOUS
<1> USE DEF RedrawMinimised, Redrawing, boundVars
<1>1. /\ InChannel' /\ ListInWalk' /\ InVsync' /\ CurrentFollows' /\ OneWaited'
      /\ scanout' \subseteq {0, 1} /\ (scanout' # {} => zero_copy) /\ unseen' \in BOOLEAN
           => DisplayTypeOK'
      /\ call'[Renderer] = IF Renderer \in vsync THEN "answered" ELSE call[Renderer]
  BY VsyncAnswered
<1>2. DisplayTypeOK'
  BY <1>1 DEF Inv, DisplayTypeOK
<1>3. PresentsOver'
  BY <1>1 DEF Inv, PresentsOver
<1> QED
  BY <1>1, <1>2, <1>3 DEF Inv

\* A present.  The one before it is over, so only the current target is read
\* from now on: the back buffer of a renderer in its flip, the other buffer
\* of one that writes.
LEMMA Present_Inv == Inv /\ Present => Inv'
<1> SUFFICES ASSUME Inv, Present PROVE Inv'
  OBVIOUS
<1> USE DEF Present, Redrawing, PreviousPresented, boundVars
<1>1. /\ InChannel' /\ ListInWalk' /\ InVsync' /\ CurrentFollows' /\ OneWaited'
      /\ scanout' \subseteq {0, 1} /\ (scanout' # {} => zero_copy) /\ unseen' \in BOOLEAN
           => DisplayTypeOK'
      /\ call'[Renderer] = IF Renderer \in vsync THEN "answered" ELSE call[Renderer]
  BY VsyncAnswered
<1>2. scanout' \subseteq {current}
  OBVIOUS
<1>3. DisplayTypeOK'
  BY <1>1, <1>2 DEF Inv, DisplayTypeOK
<1>4. PresentsOver'
  <2>1. device /\ back \in {0, 1} /\ current \in {0, 1}
    BY DEF Inv, DisplayTypeOK
  <2>2. current = back <=> Renderer \in vsync \/ call[Renderer] = "answered"
    BY <2>1 DEF Inv, CurrentFollows
  <2>3. Renderer \in vsync => call[Renderer] = "flip"
    BY DEF Inv, InVsync
  <2>4. call'[Renderer] \in {"idle", "list", "list_done"} => back \notin scanout'
    BY <1>1, <1>2, <2>2
  <2>5. call'[Renderer] = "answered" => 1 - back \notin scanout'
    BY <1>1, <1>2, <2>1, <2>2
  <2> QED
    BY <2>4, <2>5 DEF PresentsOver
<1> QED
  BY <1>1, <1>3, <1>4 DEF Inv

----------------------------------------------------------------------------
(* The theorems *)

\* No call is made and nothing is on the GPU at first.
LEMMA InitInv == DisplayInit => Inv
<1> SUFFICES ASSUME DisplayInit PROVE Inv
  OBVIOUS
<1> USE DEF DisplayInit
<1>1. Pending = {}
  BY DEF Pending
<1>2. DisplayTypeOK
  <2>1. call \in [GpuCallers -> {"idle", "flip", "list", "answered", "list_done"}]
        /\ \A t \in GpuCallers : call[t] = "idle"
    OBVIOUS
  <2>2. rx \in Seq(Message) /\ loop \in Walks
    BY DEF Walks
  <2>3. pool \in [Buffers -> {"free", "held", "pending"}]
    OBVIOUS
  <2>4. /\ back \in {0, 1} /\ current \in {0, 1} /\ vsync \subseteq {Renderer} /\ submitted \in Nat
        /\ scanout \subseteq {0, 1} /\ scanout = {} /\ lists \subseteq Runs /\ unseen \in BOOLEAN
    OBVIOUS
  <2> QED
    BY <2>1, <2>2, <2>3, <2>4 DEF DisplayTypeOK
<1>3. InChannel /\ ListInWalk /\ InVsync
  BY <1>1 DEF InChannel, ListInWalk, InVsync
<1>4. CurrentFollows /\ PresentsOver /\ OneWaited
  BY DisplayAssumption DEF CurrentFollows, PresentsOver, OneWaited
<1> QED
  BY <1>2, <1>3, <1>4 DEF Inv

\* The inductive invariant holds of every state of the display thread, the
\* GPU and the guest threads that call them.
THEOREM Invariance == DisplaySpec => []Inv
<1>1. Inv /\ [DisplayNext]_displayVars => Inv'
  <2> SUFFICES ASSUME Inv, [DisplayNext]_displayVars PROVE Inv'
    OBVIOUS
  <2>1. CASE LoopStep
    BY <2>1, DrainNoBackend_Inv, TakeFlip_Inv, TakeList_Inv, FenceSignals_Inv, FenceTimesOut_Inv,
       RedrawMinimised_Inv, Present_Inv, Quiet_Inv DEF LoopStep
  <2>2. CASE GpuStep
    BY <2>2, GpuScansOut_Inv, GpuRunsList_Inv DEF GpuStep
  <2>3. CASE SubmitFlip \/ FlipReturns
    BY <2>3, SubmitFlip_Inv, FlipReturns_Inv
  <2>4. CASE \E t \in GpuCallers : RunCommandList(t) \/ ListReturns(t)
    BY <2>4, RunCommandList_Inv, ListReturns_Inv
  <2>5. CASE SpuriousRedraw \/ Resize
    BY <2>5, Quiet_Inv
  <2>6. CASE UNCHANGED displayVars
    BY <2>6, GuestStays
       DEF displayVars, guestVars, loopVars, gpuVars, boundVars, Inv, DisplayTypeOK, PresentsOver, OneWaited
  <2> QED
    BY <2>1, <2>2, <2>3, <2>4, <2>5, <2>6 DEF DisplayNext
<1> QED
  BY <1>1, InitInv, PTL DEF DisplaySpec

\* No display buffer is written by the guest while a present reads it (submit_flip
\* and present), unless a flip was answered for a minimised window: for any
\* number of callers, whatever the interleaving of flips, lists and redraws.
THEOREM NoTorn == DisplaySpec => []NoTornScanout
<1>1. Inv => NoTornScanout
  <2> SUFFICES ASSUME Inv, ~unseen PROVE Writing \cap scanout = {}
    BY DEF NoTornScanout
  <2>1. call[Renderer] \in {"idle", "flip", "list", "answered", "list_done"}
    BY DisplayAssumption DEF Inv, DisplayTypeOK
  <2> QED
    BY <2>1 DEF Inv, PresentsOver, Writing
<1> QED
  BY <1>1, Invariance, PTL

\* What a list on the GPU is made of exists, and what a list the loop waits
\* for reads has not been given away (the deferred recycling of the pool),
\* for any number of regions and any timeouts.
THEOREM NotReused == DisplaySpec => []NothingReusedInFlight
<1>1. Inv => NothingReusedInFlight
  BY DEF Inv, DisplayTypeOK, Runs, OneWaited, NothingReusedInFlight, In
<1> QED
  BY <1>1, Invariance, PTL
----------------------------------------------------------------------------
(***************************************************************************)
(* Surfaces, for any extents, pitches and tile modes and for micro tiles   *)
(* of any side.  Guest memory stays as it is while a texture is bound, so  *)
(* the claim about the bound texture is inductive; what it rests on is     *)
(* that the span of a descriptor and the size of its layout are the same   *)
(* number, and the layout's address of a texel the interpreter's, in each  *)
(* of the tilings an upload can have.                                      *)
(***************************************************************************)

\* Rounding up to whole tiles or whole runs of a pitch gives a number.
LEMMA DivCeilNat ==
    ASSUME NEW a \in Nat, NEW b \in Nat \ {0}
    PROVE  div_ceil(a, b) \in Nat
  BY Z3 DEF div_ceil

LEMMA ProductNat ==
    ASSUME NEW a \in Nat, NEW b \in Nat
    PROVE  a * b \in Nat
  BY Z3

LEMMA PitchNat ==
    ASSUME NEW w \in Nat, NEW d \in Nat
    PROVE  linear_aligned_pitch_or(w, d) \in Nat
<1>1. linear_aligned_pitch(w) \in Nat
  BY DivCeilNat, ProductNat, SurfaceAssumption DEF linear_aligned_pitch
<1> QED BY <1>1 DEF linear_aligned_pitch_or

\* The span read for a texture is what its layout takes (vbuf.rs:byte_span,
\* tile.rs:tiled_size), and its texels are where the interpreter has them
\* (tile.rs:detile, interp.rs:texel).
LEMMA LayoutAgrees ==
    ASSUME NEW t \in Textures, tile_kind(t.mode) # "Macro2d",
           NEW l, l = texture_surface_layout(t)
    PROVE  /\ l.width = t.width /\ l.height = t.height
           /\ byte_span(t) \in Nat /\ byte_span(t) = tiled_size(l)
           /\ \A x, y : TexelAt(l, x, y) = OracleOffset(t, x, y)
<1> DEFINE k == tile_kind(t.mode)
<1>1. t.width \in Nat /\ t.height \in Nat /\ t.pitch \in Nat
  BY SurfaceAssumption DEF Textures
<1>2. k \in {"Linear", "Thin1d", "LinearAligned"}
  BY DEF tile_kind
<1>3. l.width = t.width /\ l.height = t.height /\ l.pitch = t.pitch
  BY DEF texture_surface_layout
<1>4. l.tiling = CASE k = "Thin1d" -> "Thin1d" [] k = "LinearAligned" -> "LinearAligned" [] OTHER -> "LinearGeneral"
  BY DEF texture_surface_layout
<1> HIDE DEF k
<1>5. CASE k = "Linear"
  <2>1. l.tiling = "LinearGeneral"
    BY <1>4, <1>5
  <2>2. byte_span(t) = t.width * t.height
    BY <1>5 DEF byte_span, k
  <2>3. tiled_size(l) = t.width * t.height
    BY <1>3, <2>1 DEF tiled_size
  <2>4. \A x, y : TexelAt(l, x, y) = y * t.width + x
    BY <1>3, <2>1 DEF TexelAt
  <2>5. \A x, y : OracleOffset(t, x, y) = y * t.width + x
    BY <1>5 DEF OracleOffset, k
  <2> QED BY <1>1, <1>3, <2>2, <2>3, <2>4, <2>5, ProductNat
<1>6. CASE k = "LinearAligned"
  <2> DEFINE p == linear_aligned_pitch_or(t.width, t.pitch)
  <2>1. l.tiling = "LinearAligned" /\ aligned_pitch(l) = p
    BY <1>3, <1>4, <1>6 DEF aligned_pitch
  <2>2. p \in Nat
    BY <1>1, PitchNat
  <2>3. byte_span(t) = p * t.height
    BY <1>6 DEF byte_span, k
  <2>4. \A x, y : OracleOffset(t, x, y) = linear_aligned_texel_offset(x, y, p)
    BY <1>6 DEF OracleOffset, k
  <2> HIDE DEF p
  <2>5. tiled_size(l) = p * t.height
    BY <1>3, <2>1 DEF tiled_size
  <2>6. \A x, y : TexelAt(l, x, y) = linear_aligned_texel_offset(x, y, p)
    BY <2>1 DEF TexelAt
  <2> QED BY <1>1, <1>3, <2>2, <2>3, <2>4, <2>5, <2>6, ProductNat
<1>7. CASE k = "Thin1d"
  <2> DEFINE M == MICRO_TILE_DIM
             n == div_ceil(t.width, M) * div_ceil(t.height, M) * M * M
  <2>1. l.tiling = "Thin1d"
    BY <1>4, <1>7
  <2>2. byte_span(t) = n
    BY <1>7 DEF byte_span, k
  <2>3. tiled_size(l) = n
    BY <1>3, <2>1 DEF tiled_size
  <2>4. n \in Nat
    <3>1. M \in Nat /\ div_ceil(t.width, M) \in Nat /\ div_ceil(t.height, M) \in Nat
      BY <1>1, DivCeilNat, SurfaceAssumption
    <3>2. div_ceil(t.width, M) * div_ceil(t.height, M) \in Nat
      BY <3>1, ProductNat
    <3>3. div_ceil(t.width, M) * div_ceil(t.height, M) * M \in Nat
      BY <3>1, <3>2, ProductNat
    <3> QED BY <3>1, <3>3, ProductNat
  <2>5. \A x, y : TexelAt(l, x, y) = thin1d_texel_offset(x, y, t.width)
    BY <1>3, <2>1 DEF TexelAt
  <2>6. \A x, y : OracleOffset(t, x, y) = thin1d_texel_offset(x, y, t.width)
    BY <1>7 DEF OracleOffset, k
  <2> HIDE DEF n
  <2> QED BY <1>3, <2>2, <2>3, <2>4, <2>5, <2>6
<1> QED BY <1>2, <1>5, <1>6, <1>7

\* An upload puts in the picture what the interpreter would read.
LEMMA Upload_Texels ==
    ASSUME NEW t \in Textures, emit_image_upload(t)
    PROVE  UploadIsWhatTheOracleReads'
<1> DEFINE l == texture_surface_layout(t)
<1>1. tile_kind(t.mode) # "Macro2d" /\ texels' = texels
  BY DEF emit_image_upload
<1>2. /\ l.width = t.width /\ l.height = t.height
      /\ byte_span(t) \in Nat /\ byte_span(t) = tiled_size(l)
      /\ \A x, y : TexelAt(l, x, y) = OracleOffset(t, x, y)
  BY <1>1, LayoutAgrees
<1>3. \/ bound' = [Unbound EXCEPT !.how = "unreadable"]
      \/ bound' = [how |-> "upload", t |-> {t}, pic |-> detile(texels, l)]
  <2>1. ~(byte_span(t) < tiled_size(l))
    BY <1>2
  <2> QED BY <2>1 DEF emit_image_upload
<1>4. CASE bound' = [Unbound EXCEPT !.how = "unreadable"]
  BY <1>4 DEF UploadIsWhatTheOracleReads, Unbound
<1>5. CASE bound' = [how |-> "upload", t |-> {t}, pic |-> detile(texels, l)]
  <2>1. bound'.how = "upload" /\ bound'.t = {t} /\ bound'.pic = detile(texels, l)
    BY <1>5
  <2>2. ASSUME NEW p \in Grid(t.width, t.height)
        PROVE  detile(texels, l)[p] = texels[OracleOffset(t, p[1], p[2])]
    <3>1. p \in Grid(l.width, l.height)
      BY <1>2
    <3> HIDE DEF l
    <3> QED BY <1>2, <3>1 DEF detile
  <2> HIDE DEF l
  <2> QED BY <1>1, <2>1, <2>2 DEF UploadIsWhatTheOracleReads
<1> QED BY <1>3, <1>4, <1>5

\* A bound texture holds, texel by texel, what the interpreter would read from
\* guest memory with the same descriptor, whatever targets were rendered and
\* read back before, and no readable span is too short for its layout.
THEOREM UploadsRead == SurfaceSpec => []UploadIsWhatTheOracleReads
<1>1. SurfaceInit => UploadIsWhatTheOracleReads
  BY DEF SurfaceInit, Unbound, UploadIsWhatTheOracleReads
<1>2. UploadIsWhatTheOracleReads /\ [SurfaceNext]_surfaceVars => UploadIsWhatTheOracleReads'
  <2> SUFFICES ASSUME UploadIsWhatTheOracleReads, [SurfaceNext]_surfaceVars
               PROVE  UploadIsWhatTheOracleReads'
    OBVIOUS
  <2>1. CASE UNCHANGED <<texels, bound>>
    BY <2>1 DEF UploadIsWhatTheOracleReads
  <2>2. CASE bound'.how \notin {"short", "upload"}
    BY <2>2 DEF UploadIsWhatTheOracleReads
  <2>3. ASSUME NEW p, NEW s, NEW vw, NEW vh, NEW m, derive_target(p, s, vw, vh, m)
        PROVE  UNCHANGED <<texels, bound>>
    BY <2>3 DEF derive_target
  <2>4. CASE readback
    <3>1. bound' = Unbound
      BY <2>4 DEF readback
    <3> QED BY <2>2, <3>1 DEF Unbound
  <2>5. CASE white_dummy \/ next_draw
    BY <2>2, <2>5 DEF white_dummy, next_draw, Unbound
  <2>6. ASSUME NEW o, derive_texture(o) \/ derive_texture_inline(o)
        PROVE  UploadIsWhatTheOracleReads'
    BY <2>2, <2>6 DEF derive_texture, derive_texture_inline, Unresolved, Unbound
  <2>7. ASSUME NEW t \in Textures, bind_render_target(t) \/ defer_macro_tiled(t)
        PROVE  UploadIsWhatTheOracleReads'
    BY <2>2, <2>7 DEF bind_render_target, defer_macro_tiled, Unbound
  <2> QED BY <2>1, <2>3, <2>4, <2>5, <2>6, <2>7, Upload_Texels DEF SurfaceNext, surfaceVars
<1> QED BY <1>1, <1>2, PTL DEF SurfaceSpec

----------------------------------------------------------------------------
(***************************************************************************)
(* CommandBuffer, for an arena of any length and any slots, programs and   *)
(* shaders.  The draws the guest built are only implicit in the arena: the *)
(* invariant says that the dwords up to the cursor can be parted into      *)
(* packets (Parted), with the number of draws and the registers at each    *)
(* packet's start, and that the walk is always at such a start.  A builder *)
(* adds a packet, or a packet and the NOP that fills its slot, at the end; *)
(* what an earlier frame left behind the cursor never matters.             *)
(***************************************************************************)
Listed(s) == \E S : s \in Seq(S)

\* What is appended comes last, and the rest stays.
LEMMA AppendIs ==
    ASSUME NEW s, NEW e, Listed(s)
    PROVE  /\ Listed(Append(s, e)) /\ Len(s) \in Nat /\ Len(Append(s, e)) = Len(s) + 1
           /\ DOMAIN s = 1..Len(s) /\ DOMAIN Append(s, e) = 1..Len(s) + 1
           /\ \A i \in 1..Len(s) : Append(s, e)[i] = s[i]
           /\ Append(s, e)[Len(s) + 1] = e
<1>1. PICK S : s \in Seq(S)
  BY DEF Listed
<1>2. s \in Seq(S \cup {e})
  BY <1>1
<1>3. Append(s, e) \in Seq(S \cup {e})
  BY <1>2
<1>4. Listed(Append(s, e))
  BY <1>3 DEF Listed
<1> QED BY <1>2, <1>4

\* A draw the guest built, run with number n over the embedded shaders sh and
\* registers regs.
DrawMatches(w, n, sh, regs) ==
    /\ w.n = n
    /\ \A s \in Stages : s \in w.rebound \/ derive_bound_shaders(sh, regs)[s] = w.bound[s]

\* What the packet at b of arena a does: from i draws and registers r to j and q.
Effect(a, b, i, j, r, q, W, sh) ==
    \/ (a[b].type # 3 \/ a[b].op = "nop") /\ j = i /\ q = r
    \/ \E s \in Stages : /\ a[b].type = 3 /\ a[b].op = SetOp(s) /\ a[b].body = 2
                         /\ j = i /\ q = [r EXCEPT ![s] = a[b + 2].v]
    \/ a[b].type = 3 /\ a[b].op = "clear" /\ j = i /\ q = [s \in Stages |-> Unset]
    \/ a[b].type = 3 /\ a[b].op = "draw" /\ a[b].body = 2 /\ j = i + 1 /\ q = r
         /\ DrawMatches(W[j], a[b + 1].v, sh, r)

After(a, b) == b + 1 + a[b].body
IsRegs(r) == r = [s \in Stages |-> r[s]]

\* The dwords of a before c part into packets that start at the positions B;
\* at each, ix is the number of draws before it and st the registers.
Parted(a, c, W, sh, B, ix, st) ==
    /\ c \in Nat /\ B \subseteq 1..c /\ 1 \in B /\ c \in B
    /\ ix \in [B -> 0..Len(W)] /\ ix[1] = 0 /\ ix[c] = Len(W)
    /\ \A b \in B : IsRegs(st[b])
    /\ \A b \in B : b # c => /\ a[b].body \in Nat /\ After(a, b) \in B
                             /\ Effect(a, b, ix[b], ix[After(a, b)], st[b], st[After(a, b)], W, sh)

\* The same with what the walk needs of it: it is at p, after n draws and with
\* the registers r; at the end they are plan.
Laid(a, c, W, sh, plan, p, n, r) ==
    \E B, ix, st : /\ Parted(a, c, W, sh, B, ix, st)
                   /\ st[c] = plan /\ p \in B /\ ix[p] = n /\ st[p] = r

\* What is noted of a draw when it is built.
Noted(W) ==
    \A i \in 1..Len(W) : W[i] = [n |-> W[i].n, bound |-> W[i].bound, rebound |-> W[i].rebound]

At == IF walk.pos = 0 THEN 1 ELSE walk.pos

\* The draws run so far are the first of those built.
RanWanted ==
    \A i \in 1..Len(ran) :
        /\ ran[i].n = wanted[i].n
        /\ \A s \in Stages : s \in wanted[i].rebound \/ ran[i].bound[s] = wanted[i].bound[s]

CmdTypeOK ==
    /\ arena = [i \in 1..ArenaDwords |-> arena[i]]
    /\ IsRegs(sh_regs) /\ IsRegs(shaders)
    /\ walk = [pos |-> walk.pos, end |-> walk.end]

CleanFrame ==
    /\ Listed(wanted) /\ Listed(ran) /\ Noted(wanted)
    /\ Laid(arena, cursor, wanted, shaders, planned, At, Len(ran), sh_regs)
    /\ IF walk.pos = 0 THEN ran = <<>> ELSE walk.end = cursor /\ walk.pos \in Nat
    /\ RanWanted

CmdInv == CmdTypeOK /\ (clean => CleanFrame)

----------------------------------------------------------------------------
(* Parting an arena *)

\* Only what is before the cursor matters.
LEMMA SameBefore ==
    ASSUME NEW a, NEW d, NEW c, NEW W, NEW sh, NEW plan, NEW p, NEW n, NEW r,
           Laid(a, c, W, sh, plan, p, n, r), \A i \in 1..c - 1 : d[i] = a[i]
    PROVE  Laid(d, c, W, sh, plan, p, n, r)
<1>1. PICK B, ix, st : /\ Parted(a, c, W, sh, B, ix, st)
                       /\ st[c] = plan /\ p \in B /\ ix[p] = n /\ st[p] = r
  BY DEF Laid
<1>2. c \in Nat /\ B \subseteq 1..c
  BY <1>1 DEF Parted
<1>3. ASSUME NEW b \in B, b # c
      PROVE  /\ d[b].body \in Nat /\ After(d, b) \in B
             /\ Effect(d, b, ix[b], ix[After(d, b)], st[b], st[After(d, b)], W, sh)
  <2>1. /\ a[b].body \in Nat /\ After(a, b) \in B
        /\ Effect(a, b, ix[b], ix[After(a, b)], st[b], st[After(a, b)], W, sh)
    BY <1>1, <1>3 DEF Parted
  <2>2. b \in 1..c - 1 /\ d[b] = a[b]
    BY <1>2, <1>3
  <2>3. After(d, b) = After(a, b)
    BY <2>2 DEF After
  <2>4. ASSUME a[b].body = 2 PROVE d[b + 1] = a[b + 1] /\ d[b + 2] = a[b + 2]
    <3>1. b + 1 + 2 \in 1..c
      BY <1>2, <2>1, <2>4 DEF After
    <3>2. b + 1 \in 1..c - 1 /\ b + 2 \in 1..c - 1
      BY <1>2, <2>2, <3>1
    <3> QED BY <3>2
  <2>5. Effect(d, b, ix[b], ix[After(a, b)], st[b], st[After(a, b)], W, sh)
    BY <2>1, <2>2, <2>4, Zenon DEF Effect
  <2> QED BY <2>1, <2>2, <2>3, <2>5
<1>4. Parted(d, c, W, sh, B, ix, st)
  BY <1>1, <1>3 DEF Parted
<1> QED BY <1>1, <1>4 DEF Laid

\* One more packet at the end, and with it perhaps one more draw.
LEMMA PacketAdded ==
    ASSUME NEW a, NEW c, NEW W, NEW V, NEW sh, NEW plan, NEW q, NEW p, NEW n, NEW r, NEW e,
           Laid(a, c, W, sh, plan, p, n, r),
           Len(W) \in Nat, Len(V) \in Nat, Len(W) <= Len(V),
           \A i \in 1..Len(W) : V[i] = W[i],
           a[c].body \in Nat, e = After(a, c), IsRegs(q),
           Effect(a, c, Len(W), Len(V), plan, q, V, sh)
    PROVE  Laid(a, e, V, sh, q, p, n, r)
<1>1. PICK B, ix, st : /\ Parted(a, c, W, sh, B, ix, st)
                       /\ st[c] = plan /\ p \in B /\ ix[p] = n /\ st[p] = r
  BY DEF Laid
<1> DEFINE C == B \cup {e}
           jx == [b \in C |-> IF b = e THEN Len(V) ELSE ix[b]]
           sx == [b \in C |-> IF b = e THEN q ELSE st[b]]
<1>2. /\ c \in Nat /\ B \subseteq 1..c /\ 1 \in B /\ c \in B
      /\ ix \in [B -> 0..Len(W)] /\ ix[1] = 0 /\ ix[c] = Len(W)
  BY <1>1 DEF Parted
<1>3. e \in Nat /\ c < e /\ e \notin B
  BY <1>2 DEF After
<1>4. C \subseteq 1..e /\ 1 \in C /\ e \in C
  <2>1. \A b \in B : b \in 1..e
    BY <1>2, <1>3
  <2>2. e \in 1..e
    BY <1>2, <1>3
  <2> QED BY <1>2, <2>1, <2>2
<1>5. /\ jx[e] = Len(V) /\ sx[e] = q
      /\ \A b \in B : jx[b] = ix[b] /\ sx[b] = st[b]
  BY <1>3
<1>6. jx \in [C -> 0..Len(V)]
  <2>1. \A b \in C : (IF b = e THEN Len(V) ELSE ix[b]) \in 0..Len(V)
    BY <1>2, <1>3
  <2> QED BY <2>1
<1> HIDE DEF jx, sx
<1>7. \A b \in C : IsRegs(sx[b])
  BY <1>1, <1>5 DEF Parted
<1>8. ASSUME NEW b \in C, b # e
      PROVE  /\ a[b].body \in Nat /\ After(a, b) \in C
             /\ Effect(a, b, jx[b], jx[After(a, b)], sx[b], sx[After(a, b)], V, sh)
  <2>1. CASE b = c
    <3>1. jx[b] = Len(W) /\ sx[b] = plan /\ After(a, b) = e
      BY <1>1, <1>2, <1>5, <2>1
    <3> QED BY <1>5, <2>1, <3>1
  <2>2. CASE b # c
    <3>1. b \in B
      BY <1>8
    <3>2. /\ a[b].body \in Nat /\ After(a, b) \in B
          /\ Effect(a, b, ix[b], ix[After(a, b)], st[b], st[After(a, b)], W, sh)
      BY <1>1, <2>2, <3>1 DEF Parted
    <3> DEFINE f == After(a, b)
    <3>3. jx[b] = ix[b] /\ sx[b] = st[b] /\ jx[f] = ix[f] /\ sx[f] = st[f] /\ f \in C
      BY <1>5, <3>1, <3>2
    <3>4. ix[b] \in Nat /\ ix[f] \in 0..Len(W)
      <4>1. f \in B
        BY <3>2
      <4> HIDE DEF f
      <4>2. ix[b] \in 0..Len(W) /\ ix[f] \in 0..Len(W)
        BY <1>2, <3>1, <4>1
      <4> QED BY <4>2
    <3>5. ix[f] = ix[b] + 1 => V[ix[f]] = W[ix[f]]
      <4>1. ASSUME ix[f] = ix[b] + 1 PROVE ix[f] \in 1..Len(W)
        BY <3>4, <4>1
      <4> QED BY <4>1
    <3> HIDE DEF f
    <3>6. Effect(a, b, ix[b], ix[f], st[b], st[f], V, sh)
      <4>1. Effect(a, b, ix[b], ix[f], st[b], st[f], W, sh)
        BY <3>2 DEF f
      <4> QED BY <3>5, <4>1, Zenon DEF Effect
    <3> QED BY <3>2, <3>3, <3>6 DEF f
  <2> QED BY <2>1, <2>2
<1>9. jx[1] = 0
  BY <1>2, <1>5
<1>10. Parted(a, e, V, sh, C, jx, sx)
  BY <1>3, <1>4, <1>5, <1>6, <1>7, <1>8, <1>9 DEF Parted
<1>11. p \in C /\ jx[p] = n /\ sx[p] = r
  BY <1>1, <1>5
<1> HIDE DEF C
<1> QED BY <1>5, <1>10, <1>11 DEF Laid

\* V is W with every draw marked as rebound in stage t.
Marked(W, V, t) ==
    /\ Len(V) = Len(W)
    /\ \A i \in 1..Len(W) : V[i].n = W[i].n /\ V[i].bound = W[i].bound /\ V[i].rebound = W[i].rebound \cup {t}
Elsewhere(sh, su, t) == \A s \in Stages : s # t => su[s] = sh[s]

\* A rebind of stage t outside the buffer: draws that had it are marked.
LEMMA ReboundLaid ==
    ASSUME NEW a, NEW c, NEW W, NEW V, NEW sh, NEW su, NEW plan, NEW p, NEW n, NEW r, NEW t,
           Laid(a, c, W, sh, plan, p, n, r), Len(W) \in Nat,
           Elsewhere(sh, su, t), Marked(W, V, t)
    PROVE  Laid(a, c, V, su, plan, p, n, r)
<1>1. PICK B, ix, st : /\ Parted(a, c, W, sh, B, ix, st)
                       /\ st[c] = plan /\ p \in B /\ ix[p] = n /\ st[p] = r
  BY DEF Laid
<1>2. ix \in [B -> 0..Len(W)]
  BY <1>1 DEF Parted
<1>3. ASSUME NEW b \in B, b # c
      PROVE  Effect(a, b, ix[b], ix[After(a, b)], st[b], st[After(a, b)], V, su)
  <2> DEFINE f == After(a, b)
  <2>1. f \in B /\ Effect(a, b, ix[b], ix[f], st[b], st[f], W, sh)
    BY <1>1, <1>3 DEF Parted
  <2> HIDE DEF f
  <2>2. ASSUME ix[f] = ix[b] + 1, NEW x, DrawMatches(W[ix[f]], x, sh, st[b])
        PROVE  DrawMatches(V[ix[f]], x, su, st[b])
    <3>1. ix[f] \in 1..Len(W)
      BY <1>2, <2>1, <2>2
    <3>2. \A s \in Stages : s # t => derive_bound_shaders(su, st[b])[s] = derive_bound_shaders(sh, st[b])[s]
      BY DEF derive_bound_shaders, Elsewhere
    <3> QED BY <2>2, <3>1, <3>2 DEF DrawMatches, Marked
  <2>3. Effect(a, b, ix[b], ix[f], st[b], st[f], V, su)
    BY <2>1, <2>2, Zenon DEF Effect
  <2> QED BY <2>3 DEF f
<1>4. Parted(a, c, V, su, B, ix, st)
  BY <1>1, <1>3 DEF Parted, Marked
<1> QED BY <1>1, <1>4 DEF Laid

----------------------------------------------------------------------------
(* The builders *)

\* The dword that comes after a packet, if its slot is longer: the header of a
\* NOP that ends where the slot does.
Padded(a, c, e) ==
    \/ e = c
    \/ (a[c].type # 3 \/ a[c].op = "nop") /\ a[c].body \in Nat /\ e = After(a, c)

\* pad_to_reserved, in a slot it fills: the packet, then nothing or one NOP.
LEMMA PadIs ==
    ASSUME NEW S, NEW k \in Seq(S), NEW m \in Nat, m >= Len(k),
           NEW w, w = pad_to_reserved(k, m), Len(w) = m
    PROVE  /\ \A i \in 1..Len(k) : w[i] = k[i]
           /\ m > Len(k) => /\ w[Len(k) + 1].type # 3 \/ w[Len(k) + 1].op = "nop"
                            /\ w[Len(k) + 1].body = m - Len(k) - 1
<1> DEFINE gap == m - Len(k)
<1>1. gap \in Nat /\ Len(k) \in Nat
  OBVIOUS
<1>2. CASE gap <= 0 \/ gap > MAX_NOP_FILL_DWORDS
  <2>1. w = k \o <<>>
    BY <1>2 DEF pad_to_reserved
  <2>2. w = k
    BY <2>1
  <2> QED BY <2>2
<1>3. CASE gap = 1 /\ ~(gap > MAX_NOP_FILL_DWORDS)
  <2> DEFINE z == TYPE2_NOP
  <2>1. w = k \o <<z>>
    BY <1>3 DEF pad_to_reserved
  <2>2. z.type # 3 /\ z.body = 0
    BY DEF TYPE2_NOP
  <2> HIDE DEF z
  <2>3. k \in Seq(S \cup {z}) /\ <<z>> \in Seq(S \cup {z}) /\ Len(<<z>>) = 1 /\ <<z>>[1] = z
    OBVIOUS
  <2>4. (\A i \in 1..Len(k) : w[i] = k[i]) /\ w[Len(k) + 1] = z
    BY <1>1, <2>1, <2>3
  <2> QED BY <1>1, <1>3, <2>2, <2>4
<1>4. CASE gap > 1 /\ ~(gap > MAX_NOP_FILL_DWORDS)
  <2> DEFINE z == T3("nop", gap - 1)
             y == [i \in 1..gap - 1 |-> Zero]
             x == <<z>> \o y
  <2>1. w = k \o x
    BY <1>1, <1>4 DEF pad_to_reserved
  <2>2. z.op = "nop" /\ z.body = gap - 1
    BY DEF T3
  <2>3. gap - 1 \in Nat
    BY <1>1, <1>4
  <2>4. y \in Seq({Zero})
    <3> HIDE DEF gap
    <3> QED BY <2>3
  <2> HIDE DEF z, y
  <2>5. y \in Seq({Zero, z}) /\ <<z>> \in Seq({Zero, z}) /\ Len(<<z>>) = 1 /\ <<z>>[1] = z
    BY <2>4
  <2>6. x \in Seq({Zero, z}) /\ Len(x) >= 1 /\ x[1] = z
    BY <2>5
  <2> HIDE DEF x
  <2>7. k \in Seq(S \cup {Zero, z}) /\ x \in Seq(S \cup {Zero, z})
    BY <2>6
  <2>8. (\A i \in 1..Len(k) : w[i] = k[i]) /\ w[Len(k) + 1] = x[1]
    BY <1>1, <2>1, <2>6, <2>7
  <2> QED BY <1>1, <2>2, <2>6, <2>8
<1> QED BY <1>1, <1>2, <1>3, <1>4

\* What a builder leaves of a slot it fills: the packet, a NOP or nothing, and
\* the arena before it.
LEMMA EmitWrites ==
    ASSUME CmdInv, NEW S, NEW k \in Seq(S), Len(k) > 0, NEW m \in Slots, NEW cap,
           Emit(k, m, cap), clean'
    PROVE  /\ clean /\ cursor \in Nat /\ Building
           /\ \A i \in 1..cursor - 1 : arena'[i] = arena[i]
           /\ \A i \in 1..Len(k) : arena'[cursor + i - 1] = k[i]
           /\ Padded(arena', cursor + Len(k), cursor')
<1> DEFINE w == pad_to_reserved(k, m)
           slot == IF m = 0 THEN Len(k) ELSE m
           refused == (m # 0 /\ m < Len(k)) \/ m > cap
<1>1. m \in Nat /\ Len(k) \in Nat
  BY CommandBufferAssumption
<1>2. clean /\ ~refused /\ Len(w) = slot /\ Building /\ Fits(Later(slot, Len(w))) /\ cursor' = cursor + slot
  BY DEF Emit
<1>3. arena' = [i \in DOMAIN arena |-> IF i \in cursor..cursor + Len(w) - 1 THEN w[i - cursor + 1] ELSE arena[i]]
  BY <1>2 DEF Emit
<1>4. cursor \in Nat /\ cursor >= 1
  BY <1>2 DEF CmdInv, CleanFrame, Laid, Parted
<1>5. DOMAIN arena = 1..ArenaDwords /\ ArenaDwords \in Nat
  BY CommandBufferAssumption DEF CmdInv, CmdTypeOK
<1>6. slot \in Nat /\ cursor + slot - 1 <= ArenaDwords /\ slot >= Len(k)
  <2>1. slot \in Nat /\ slot >= Len(k)
    BY <1>1, <1>2
  <2>2. Later(slot, Len(w)) = slot
    BY <1>2 DEF Later
  <2> HIDE DEF slot, w
  <2> QED BY <1>2, <2>1, <2>2 DEF Fits
<1>7. /\ \A i \in 1..Len(k) : w[i] = k[i]
      /\ slot > Len(k) => /\ w[Len(k) + 1].type # 3 \/ w[Len(k) + 1].op = "nop"
                          /\ w[Len(k) + 1].body = slot - Len(k) - 1
  <2>1. CASE m = 0
    <3>1. w = k \o <<>>
      BY <1>1, <2>1 DEF pad_to_reserved
    <3>2. w = k
      BY <3>1
    <3> QED BY <1>1, <2>1, <3>2
  <2>2. CASE m # 0
    <3>1. m >= Len(k) /\ Len(w) = m /\ slot = m
      BY <1>1, <1>2, <2>2
    <3> HIDE DEF w
    <3>2. PICK v : v = w
      OBVIOUS
    <3>3. v = pad_to_reserved(k, m) /\ Len(v) = m
      BY <3>1, <3>2 DEF w
    <3> QED BY <1>1, <3>1, <3>2, <3>3, PadIs
  <2> QED BY <2>1, <2>2
<1> HIDE DEF w, slot, refused
<1>8. \A i \in 1..slot : arena'[cursor + i - 1] = w[i]
  <2> SUFFICES ASSUME NEW i \in 1..slot PROVE arena'[cursor + i - 1] = w[i]
    OBVIOUS
  <2> DEFINE j == cursor + i - 1
  <2>1. j \in 1..ArenaDwords /\ j \in cursor..cursor + Len(w) - 1 /\ j - cursor + 1 = i
    BY <1>2, <1>4, <1>5, <1>6
  <2> HIDE DEF j
  <2>2. arena'[j] = w[i]
    BY <1>3, <1>5, <2>1
  <2> QED BY <2>2 DEF j
<1>9. \A i \in 1..cursor - 1 : arena'[i] = arena[i]
  <2> SUFFICES ASSUME NEW i \in 1..cursor - 1 PROVE arena'[i] = arena[i]
    OBVIOUS
  <2>1. i \in 1..ArenaDwords /\ i \notin cursor..cursor + Len(w) - 1
    BY <1>2, <1>4, <1>5, <1>6
  <2> QED BY <1>3, <1>5, <2>1
<1>10. \A i \in 1..Len(k) : arena'[cursor + i - 1] = k[i]
  <2> SUFFICES ASSUME NEW i \in 1..Len(k) PROVE arena'[cursor + i - 1] = k[i]
    OBVIOUS
  <2>1. i \in 1..slot
    BY <1>1, <1>6
  <2> QED BY <1>7, <1>8, <2>1
<1>11. Padded(arena', cursor + Len(k), cursor')
  <2>1. CASE slot = Len(k)
    BY <1>2, <2>1 DEF Padded
  <2>2. CASE slot > Len(k)
    <3> DEFINE c == cursor + Len(k)
    <3>1. Len(k) + 1 \in 1..slot /\ cursor + (Len(k) + 1) - 1 = c
      BY <1>1, <1>4, <1>6, <2>2
    <3>2. arena'[c] = w[Len(k) + 1]
      BY <1>8, <3>1
    <3>3. arena'[c].body = slot - Len(k) - 1 /\ slot - Len(k) - 1 \in Nat
      BY <1>1, <1>6, <1>7, <2>2, <3>2
    <3>4. cursor' = c + 1 + arena'[c].body
      BY <1>1, <1>2, <1>4, <1>6, <3>3
    <3> HIDE DEF c
    <3>5. Padded(arena', c, cursor')
      BY <1>7, <2>2, <3>2, <3>3, <3>4 DEF Padded, After
    <3> QED BY <3>5 DEF c
  <2> QED BY <1>1, <1>6, <2>1, <2>2
<1> QED BY <1>2, <1>4, <1>9, <1>10, <1>11

\* A NOP at the end changes nothing else.
LEMMA PadAdded ==
    ASSUME NEW a, NEW c, NEW e, NEW W, NEW sh, NEW plan, NEW p, NEW n, NEW r,
           Laid(a, c, W, sh, plan, p, n, r), Len(W) \in Nat, Padded(a, c, e)
    PROVE  Laid(a, e, W, sh, plan, p, n, r)
<1>1. CASE e = c
  BY <1>1
<1>2. CASE (a[c].type # 3 \/ a[c].op = "nop") /\ a[c].body \in Nat /\ e = After(a, c)
  <2>1. Effect(a, c, Len(W), Len(W), plan, plan, W, sh)
    BY <1>2 DEF Effect
  <2>2. IsRegs(plan)
    BY DEF Laid, Parted
  <2> QED BY <1>2, <2>1, <2>2, PacketAdded
<1> QED BY <1>1, <1>2 DEF Padded

\* After a builder call, with no walk under way.
LEMMA BuilderDone ==
    ASSUME CmdInv, clean, walk.pos = 0, UNCHANGED <<walk, ran, sh_regs>>,
           Listed(wanted'), Noted(wanted'), Laid(arena', cursor', wanted', shaders', planned', 1, 0, sh_regs)
    PROVE  CleanFrame'
<1>1. ran = <<>> /\ ran' = <<>> /\ Listed(ran') /\ Len(ran') = 0
  BY DEF CmdInv, CleanFrame
<1>2. At' = 1 /\ walk'.pos = 0
  BY DEF At
<1>3. RanWanted'
  BY <1>1 DEF RanWanted
<1> QED BY <1>1, <1>2, <1>3 DEF CleanFrame

\* Before one.
LEMMA BuilderBegins ==
    ASSUME CmdInv, clean, walk.pos = 0
    PROVE  /\ Listed(wanted) /\ Len(wanted) \in Nat /\ DOMAIN wanted = 1..Len(wanted)
           /\ Laid(arena, cursor, wanted, shaders, planned, 1, 0, sh_regs)
           /\ IsRegs(planned) /\ cursor \in Nat /\ cursor >= 1 /\ Noted(wanted)
<1>1. Listed(wanted) /\ Noted(wanted) /\ ran = <<>> /\ At = 1
      /\ Laid(arena, cursor, wanted, shaders, planned, At, Len(ran), sh_regs)
  BY DEF CmdInv, CleanFrame, At
<1>2. Len(ran) = 0
  BY <1>1
<1>3. IsRegs(planned) /\ cursor \in Nat /\ cursor >= 1
  BY <1>1 DEF Laid, Parted
<1>4. Len(wanted) \in Nat /\ DOMAIN wanted = 1..Len(wanted)
  BY <1>1 DEF Listed
<1> QED BY <1>1, <1>2, <1>3, <1>4

\* The arena keeps its length, the banks their stages.
LEMMA EmitTypeOK ==
    ASSUME CmdInv, NEW k, NEW m, NEW cap, Emit(k, m, cap),
           UNCHANGED <<sh_regs, walk>>, IsRegs(shaders')
    PROVE  CmdTypeOK'
<1>1. arena' = [i \in 1..ArenaDwords |-> arena'[i]]
  <2>1. DOMAIN arena = 1..ArenaDwords /\ arena = [i \in 1..ArenaDwords |-> arena[i]]
    BY DEF CmdInv, CmdTypeOK
  <2> DEFINE w == pad_to_reserved(k, m)
  <2>2. \/ arena' = arena
        \/ arena' = [i \in DOMAIN arena |-> IF i \in cursor..cursor + Len(w) - 1 THEN w[i - cursor + 1] ELSE arena[i]]
    BY DEF Emit
  <2> HIDE DEF w
  <2> QED BY <2>1, <2>2
<1> QED BY <1>1 DEF CmdInv, CmdTypeOK, IsRegs

\* A draw goes into the buffer.
LEMMA Draw_Cmd ==
    ASSUME CmdInv, NEW m \in Slots, sce_gnm_draw_index_auto(m)
    PROVE  CmdInv'
<1> DEFINE x == [n |-> sends, bound |-> derive_bound_shaders(shaders, planned), rebound |-> {}]
           c == cursor
<1>1. /\ Emit(draw_index_auto(sends), m, MAX_DRAW_RESERVED_DWORDS)
      /\ wanted' = Append(wanted, x)
      /\ UNCHANGED <<sh_regs, shaders, walk, ran, planned>>
  BY DEF sce_gnm_draw_index_auto
<1>2. CmdTypeOK'
  BY <1>1, EmitTypeOK DEF CmdInv, CmdTypeOK
<1>3. ASSUME clean' PROVE CleanFrame'
  <2> DEFINE d1 == T3("draw", 2)
             d2 == Word(sends)
             k == draw_index_auto(sends)
  <2>1. k = <<d1, d2, Zero>>
    BY DEF draw_index_auto
  <2>2. d1.type = 3 /\ d1.op = "draw" /\ d1.body = 2 /\ d2.v = sends
    BY DEF T3, Word
  <2>3. /\ x.n = sends /\ x.bound = derive_bound_shaders(shaders, planned)
        /\ x = [n |-> x.n, bound |-> x.bound, rebound |-> x.rebound]
    OBVIOUS
  <2> HIDE DEF d1, d2, k, x, c
  <2>4. k \in Seq({d1, d2, Zero}) /\ Len(k) = 3 /\ k[1] = d1 /\ k[2] = d2
    BY <2>1
  <2>4a. Emit(k, m, MAX_DRAW_RESERVED_DWORDS) /\ Len(k) > 0
    BY <1>1, <2>4 DEF k
  <2>5. /\ clean /\ cursor \in Nat /\ Building
        /\ \A i \in 1..cursor - 1 : arena'[i] = arena[i]
        /\ \A i \in 1..Len(k) : arena'[cursor + i - 1] = k[i]
        /\ Padded(arena', cursor + Len(k), cursor')
    BY <1>3, <2>4, <2>4a, EmitWrites
  <2>6. walk.pos = 0
    BY <2>5 DEF Building
  <2>7. /\ Listed(wanted) /\ Len(wanted) \in Nat
        /\ Laid(arena, c, wanted, shaders, planned, 1, 0, sh_regs)
        /\ IsRegs(planned) /\ c \in Nat /\ Noted(wanted)
    BY <2>5, <2>6, BuilderBegins DEF c
  <2>8. Laid(arena', c, wanted, shaders, planned, 1, 0, sh_regs)
    BY <2>5, <2>7, SameBefore DEF c
  <2>9. /\ Listed(wanted') /\ Len(wanted') = Len(wanted) + 1
        /\ \A i \in 1..Len(wanted) : wanted'[i] = wanted[i]
        /\ wanted'[Len(wanted) + 1] = x
    BY <1>1, <2>7, AppendIs
  <2>10. arena'[c] = d1 /\ arena'[c + 1] = d2
    <3>1. arena'[c + 1 - 1] = k[1] /\ arena'[c + 2 - 1] = k[2]
      BY <2>4, <2>5 DEF c
    <3>2. c + 1 - 1 = c /\ c + 2 - 1 = c + 1
      BY <2>7
    <3> QED BY <2>4, <3>1, <3>2
  <2>11. DrawMatches(x, sends, shaders, planned)
    BY <2>3 DEF DrawMatches
  <2>12. Effect(arena', c, Len(wanted), Len(wanted'), planned, planned, wanted', shaders)
    BY <2>2, <2>9, <2>10, <2>11 DEF Effect
  <2>13. After(arena', c) = c + Len(k)
    BY <2>2, <2>4, <2>7, <2>10 DEF After
  <2>14. Len(wanted') \in Nat /\ Len(wanted) <= Len(wanted') /\ arena'[c].body \in Nat
    BY <2>2, <2>7, <2>9, <2>10
  <2>15. Laid(arena', c + Len(k), wanted', shaders, planned, 1, 0, sh_regs)
    BY <2>7, <2>8, <2>9, <2>12, <2>13, <2>14, PacketAdded
  <2>16. Laid(arena', cursor', wanted', shaders, planned, 1, 0, sh_regs)
    BY <2>5, <2>14, <2>15, PadAdded DEF c
  <2>17. Noted(wanted')
    <3> SUFFICES ASSUME NEW i \in 1..Len(wanted')
                 PROVE  wanted'[i] = [n |-> wanted'[i].n, bound |-> wanted'[i].bound, rebound |-> wanted'[i].rebound]
      BY DEF Noted
    <3>1. CASE i \in 1..Len(wanted)
      BY <2>7, <2>9, <3>1 DEF Noted
    <3>2. CASE i = Len(wanted) + 1
      BY <2>3, <2>9, <3>2
    <3> QED BY <2>7, <2>9, <3>1, <3>2
  <2> QED BY <1>1, <2>5, <2>6, <2>9, <2>16, <2>17, BuilderDone
<1> QED BY <1>2, <1>3 DEF CmdInv

LEMMA MarkIs ==
    ASSUME NEW a, NEW b, NEW d, NEW t
    PROVE  [[n |-> a, bound |-> b, rebound |-> d] EXCEPT !.rebound = @ \cup {t}]
             = [n |-> a, bound |-> b, rebound |-> d \cup {t}]
OBVIOUS

\* A rebind outside the buffer marks the draws that are in it.
LEMMA Rebind ==
    ASSUME CmdInv, clean, walk.pos = 0, NEW s \in Stages, NEW id,
           shaders' = [shaders EXCEPT ![s] = id], Rebound(s)
    PROVE  /\ Listed(wanted') /\ Len(wanted') = Len(wanted) /\ Noted(wanted')
           /\ Laid(arena, cursor, wanted', shaders', planned, 1, 0, sh_regs)
<1>1. /\ Listed(wanted) /\ Len(wanted) \in Nat /\ DOMAIN wanted = 1..Len(wanted) /\ Noted(wanted)
      /\ Laid(arena, cursor, wanted, shaders, planned, 1, 0, sh_regs)
  BY BuilderBegins
<1> DEFINE x(i) == [wanted[i] EXCEPT !.rebound = @ \cup {s}]
<1>2. wanted' = [i \in 1..Len(wanted) |-> x(i)]
  BY <1>1 DEF Rebound
<1>3. Listed(wanted') /\ Len(wanted') = Len(wanted)
  <2> DEFINE S == {x(i) : i \in 1..Len(wanted)}
  <2>1. \A i \in 1..Len(wanted) : x(i) \in S
    OBVIOUS
  <2> HIDE DEF S, x
  <2>2. wanted' \in Seq(S) /\ Len(wanted') = Len(wanted)
    BY <1>1, <1>2, <2>1
  <2> QED BY <2>2 DEF Listed
<1>4. ASSUME NEW i \in 1..Len(wanted)
      PROVE  /\ wanted'[i] = [n |-> wanted'[i].n, bound |-> wanted'[i].bound, rebound |-> wanted'[i].rebound]
             /\ wanted'[i].n = wanted[i].n /\ wanted'[i].bound = wanted[i].bound
             /\ wanted'[i].rebound = wanted[i].rebound \cup {s}
  <2>1. wanted[i] = [n |-> wanted[i].n, bound |-> wanted[i].bound, rebound |-> wanted[i].rebound]
    BY <1>1, <1>4 DEF Noted
  <2>2. x(i) = [n |-> wanted[i].n, bound |-> wanted[i].bound, rebound |-> wanted[i].rebound \cup {s}]
    <3>1. PICK a, b, d : wanted[i] = [n |-> a, bound |-> b, rebound |-> d]
      BY <2>1
    <3>2. x(i) = [[n |-> a, bound |-> b, rebound |-> d] EXCEPT !.rebound = @ \cup {s}]
      BY <3>1
    <3> HIDE DEF x
    <3>3. x(i) = [n |-> a, bound |-> b, rebound |-> d \cup {s}]
      BY <3>2, MarkIs
    <3> QED BY <3>1, <3>3
  <2>3. wanted'[i] = x(i)
    BY <1>2, <1>4
  <2> HIDE DEF x
  <2> QED BY <2>2, <2>3
<1>5. Noted(wanted')
  BY <1>3, <1>4 DEF Noted
<1>6. \A t \in Stages : t # s => shaders'[t] = shaders[t]
  BY DEF CmdInv, CmdTypeOK, IsRegs
<1>7. Laid(arena, cursor, wanted', shaders', planned, 1, 0, sh_regs)
  <2>1. PICK V, su : V = wanted' /\ su = shaders'
    OBVIOUS
  <2>2. Marked(wanted, V, s)
    BY <1>3, <1>4, <2>1 DEF Marked
  <2>3. Elsewhere(shaders, su, s)
    BY <1>6, <2>1 DEF Elsewhere
  <2>4. Laid(arena, cursor, V, su, planned, 1, 0, sh_regs)
    BY <1>1, <2>2, <2>3, ReboundLaid
  <2> QED BY <2>1, <2>4
<1> QED BY <1>3, <1>5, <1>7

\* sceGnmSetEmbeddedVsShader and its like.
LEMMA Embedded_Cmd ==
    ASSUME CmdInv, NEW s \in Stages, NEW id, sce_gnm_set_embedded_shader(s, id)
    PROVE  CmdInv'
<1>1. /\ walk.pos = 0 /\ shaders' = [shaders EXCEPT ![s] = id] /\ Rebound(s)
      /\ UNCHANGED <<arena, cursor, planned, clean, sh_regs, walk, ran>>
  BY DEF sce_gnm_set_embedded_shader, Building, builderVars
<1>2. CmdTypeOK'
  BY <1>1 DEF CmdInv, CmdTypeOK, IsRegs
<1>3. ASSUME clean' PROVE CleanFrame'
  BY <1>1, <1>3, Rebind, BuilderDone
<1> QED BY <1>2, <1>3 DEF CmdInv

\* The packets that set one stage's program.
LEMMA SetRegLaid ==
    ASSUME NEW a, NEW c, NEW W, NEW sh, NEW plan, NEW p, NEW n, NEW r, NEW s \in Stages, NEW v,
           Laid(a, c, W, sh, plan, p, n, r), Len(W) \in Nat,
           a[c] = T3(SetOp(s), 2), a[c + 2] = Word(v)
    PROVE  Laid(a, c + 3, W, sh, [plan EXCEPT ![s] = v], p, n, r)
<1>1. IsRegs(plan) /\ c \in Nat
  BY DEF Laid, Parted
<1>2. IsRegs([plan EXCEPT ![s] = v])
  BY <1>1 DEF IsRegs
<1>3. a[c].type = 3 /\ a[c].op = SetOp(s) /\ a[c].body = 2 /\ a[c + 2].v = v
  BY DEF T3, Word
<1>4. c + 3 = After(a, c)
  BY <1>1, <1>3 DEF After
<1>5. Effect(a, c, Len(W), Len(W), plan, [plan EXCEPT ![s] = v], W, sh)
  BY <1>3 DEF Effect
<1> QED BY <1>2, <1>3, <1>4, <1>5, PacketAdded

\* sceGnmSetVsShader and its like: a register packet, a marker and the padding.
LEMMA SetShader_Cmd ==
    ASSUME CmdInv, NEW s \in Stages, NEW v, NEW m \in Slots, sce_gnm_set_shader(s, v, m)
    PROVE  CmdInv'
<1>1. /\ Emit(set_shader(s, v), m, m)
      /\ shaders' = [shaders EXCEPT ![s] = Unset]
      /\ planned' = IF clean' THEN [planned EXCEPT ![s] = v] ELSE planned
      /\ IF shaders[s] = Unset THEN UNCHANGED wanted ELSE Rebound(s)
      /\ UNCHANGED <<sh_regs, walk, ran>>
  BY DEF sce_gnm_set_shader, emit_into_cmdbuf
<1>2. CmdTypeOK'
  <2>1. IsRegs(shaders')
    BY <1>1 DEF CmdInv, CmdTypeOK, IsRegs
  <2> QED BY <1>1, <2>1, EmitTypeOK
<1>3. ASSUME clean' PROVE CleanFrame'
  <2> DEFINE d1 == T3(SetOp(s), 2)
             d3 == Word(v)
             d4 == T3("nop", 1)
             k == set_shader(s, v)
             c == cursor
  <2>1. k = <<d1, Zero, d3>> \o <<d4, Zero>>
    BY DEF set_shader, SetRegPacket
  <2>2. d4.op = "nop" /\ d4.body = 1
    BY DEF T3
  <2> HIDE DEF d1, d3, d4, k, c
  <2>3. /\ k \in Seq({d1, d3, d4, Zero}) /\ Len(k) = 5 /\ Len(k) > 0
        /\ k[1] = d1 /\ k[3] = d3 /\ k[4] = d4
    BY <2>1
  <2>4. Emit(k, m, m)
    BY <1>1 DEF k
  <2>5. /\ clean /\ cursor \in Nat /\ Building
        /\ \A i \in 1..cursor - 1 : arena'[i] = arena[i]
        /\ \A i \in 1..Len(k) : arena'[cursor + i - 1] = k[i]
        /\ Padded(arena', cursor + Len(k), cursor')
    BY <1>3, <2>3, <2>4, EmitWrites
  <2>6. walk.pos = 0
    BY <2>5 DEF Building
  <2>7. /\ Listed(wanted') /\ Len(wanted') \in Nat /\ Noted(wanted')
        /\ Laid(arena, c, wanted', shaders', planned, 1, 0, sh_regs)
    <3>1. CASE shaders[s] = Unset
      <4>1. wanted' = wanted /\ shaders' = shaders
        BY <1>1, <3>1 DEF CmdInv, CmdTypeOK, IsRegs
      <4> QED BY <2>5, <2>6, <4>1, BuilderBegins DEF c
    <3>2. CASE shaders[s] # Unset
      <4>1. Rebound(s)
        BY <1>1, <3>2
      <4> QED BY <1>1, <2>5, <2>6, <4>1, Rebind, BuilderBegins DEF c
    <3> QED BY <3>1, <3>2
  <2>8. Laid(arena', c, wanted', shaders', planned, 1, 0, sh_regs)
    BY <2>5, <2>7, SameBefore DEF c
  <2>9. c \in Nat /\ arena'[c] = d1 /\ arena'[c + 2] = d3 /\ arena'[c + 3] = d4
    <3>1. arena'[c + 1 - 1] = k[1] /\ arena'[c + 3 - 1] = k[3] /\ arena'[c + 4 - 1] = k[4]
      BY <2>3, <2>5 DEF c
    <3>2. c \in Nat /\ c + 1 - 1 = c /\ c + 3 - 1 = c + 2 /\ c + 4 - 1 = c + 3
      BY <2>5 DEF c
    <3> QED BY <2>3, <3>1, <3>2
  <2>10. Laid(arena', c + 3, wanted', shaders', planned', 1, 0, sh_regs)
    <3>1. planned' = [planned EXCEPT ![s] = v]
      BY <1>1, <1>3
    <3>2. arena'[c] = T3(SetOp(s), 2) /\ arena'[c + 2] = Word(v)
      BY <2>9 DEF d1, d3
    <3>3. Laid(arena', c + 3, wanted', shaders', [planned EXCEPT ![s] = v], 1, 0, sh_regs)
      BY <2>7, <2>8, <3>2, SetRegLaid
    <3> QED BY <3>1, <3>3
  <2>11. Padded(arena', c + 3, c + 5)
    <3>1. After(arena', c + 3) = c + 5
      BY <2>2, <2>9 DEF After
    <3> QED BY <2>2, <2>9, <3>1 DEF Padded
  <2>12. Laid(arena', c + 5, wanted', shaders', planned', 1, 0, sh_regs)
    BY <2>7, <2>10, <2>11, PadAdded
  <2>13. Padded(arena', c + 5, cursor')
    BY <2>3, <2>5 DEF c
  <2>14. Laid(arena', cursor', wanted', shaders', planned', 1, 0, sh_regs)
    BY <2>7, <2>12, <2>13, PadAdded
  <2> QED BY <1>1, <2>5, <2>6, <2>7, <2>14, BuilderDone
<1> QED BY <1>2, <1>3 DEF CmdInv

\* A builder that emits nothing spoils the frame.
LEMMA NoPm4_Cmd ==
    ASSUME CmdInv, NEW m, no_pm4(m)
    PROVE  CmdInv'
BY DEF no_pm4, CmdInv, CmdTypeOK, IsRegs

\* A packet the guest writes itself.
LEMMA RawWrites ==
    ASSUME CmdInv, NEW S, NEW k \in Seq(S), Len(k) > 0, Raw(k)
    PROVE  /\ CmdTypeOK' /\ clean' = clean /\ walk.pos = 0
           /\ UNCHANGED <<sh_regs, shaders, walk, ran, wanted>> /\ cursor' = cursor + Len(k)
           /\ clean => /\ \A i \in 1..cursor - 1 : arena'[i] = arena[i]
                       /\ \A i \in 1..Len(k) : arena'[cursor + i - 1] = k[i]
<1>1. /\ walk.pos = 0 /\ Fits(Len(k))
      /\ arena' = [i \in DOMAIN arena |-> IF i \in cursor..cursor + Len(k) - 1 THEN k[i - cursor + 1] ELSE arena[i]]
      /\ cursor' = cursor + Len(k)
      /\ UNCHANGED <<sh_regs, shaders, walk, ran, wanted, clean>>
  BY DEF Raw, Building
<1>2. arena = [i \in 1..ArenaDwords |-> arena[i]] /\ DOMAIN arena = 1..ArenaDwords
  BY DEF CmdInv, CmdTypeOK
<1>3. arena' = [i \in 1..ArenaDwords |-> arena'[i]]
  BY <1>1, <1>2
<1>4. CmdTypeOK'
  BY <1>1, <1>3 DEF CmdInv, CmdTypeOK, IsRegs
<1>5. ASSUME clean
      PROVE  /\ \A i \in 1..cursor - 1 : arena'[i] = arena[i]
             /\ \A i \in 1..Len(k) : arena'[cursor + i - 1] = k[i]
  <2>1. cursor \in Nat /\ cursor >= 1 /\ Len(k) \in Nat /\ ArenaDwords \in Nat
    BY <1>1, <1>5, BuilderBegins, CommandBufferAssumption
  <2>2. cursor + Len(k) - 1 <= ArenaDwords
    BY <1>1 DEF Fits
  <2>3. ASSUME NEW i \in 1..cursor - 1 PROVE arena'[i] = arena[i]
    <3>1. i \in 1..ArenaDwords /\ i \notin cursor..cursor + Len(k) - 1
      BY <2>1, <2>2
    <3> QED BY <1>1, <1>2, <3>1
  <2>4. ASSUME NEW i \in 1..Len(k) PROVE arena'[cursor + i - 1] = k[i]
    <3> DEFINE j == cursor + i - 1
    <3>1. j \in 1..ArenaDwords /\ j \in cursor..cursor + Len(k) - 1 /\ j - cursor + 1 = i
      BY <2>1, <2>2
    <3> HIDE DEF j
    <3>2. arena'[j] = k[i]
      BY <1>1, <1>2, <3>1
    <3> QED BY <3>2 DEF j
  <2> QED BY <2>3, <2>4
<1> QED BY <1>1, <1>4, <1>5

LEMMA RawSetReg_Cmd ==
    ASSUME CmdInv, NEW s \in Stages, NEW v, raw_set_reg(s, v)
    PROVE  CmdInv'
<1> DEFINE d1 == T3(SetOp(s), 2)
           d3 == Word(v)
           k == SetRegPacket(s, v)
           c == cursor
<1>1. k = <<d1, Zero, d3>>
  BY DEF SetRegPacket
<1>2. Raw(k) /\ planned' = [planned EXCEPT ![s] = v]
  BY DEF raw_set_reg
<1> HIDE DEF d1, d3, k, c
<1>3. k \in Seq({d1, d3, Zero}) /\ Len(k) = 3 /\ Len(k) > 0 /\ k[1] = d1 /\ k[3] = d3
  BY <1>1
<1>4. /\ CmdTypeOK' /\ clean' = clean /\ walk.pos = 0
      /\ UNCHANGED <<sh_regs, shaders, walk, ran, wanted>> /\ cursor' = cursor + Len(k)
      /\ clean => /\ \A i \in 1..cursor - 1 : arena'[i] = arena[i]
                  /\ \A i \in 1..Len(k) : arena'[cursor + i - 1] = k[i]
  BY <1>2, <1>3, RawWrites
<1>5. ASSUME clean' PROVE CleanFrame'
  <2>1. /\ Listed(wanted) /\ Len(wanted) \in Nat /\ Noted(wanted) /\ c \in Nat
        /\ Laid(arena, c, wanted, shaders, planned, 1, 0, sh_regs)
    BY <1>4, <1>5, BuilderBegins DEF c
  <2>2. Laid(arena', c, wanted, shaders, planned, 1, 0, sh_regs)
    BY <1>4, <1>5, <2>1, SameBefore DEF c
  <2>3. arena'[c] = d1 /\ arena'[c + 2] = d3
    <3>1. arena'[c + 1 - 1] = k[1] /\ arena'[c + 3 - 1] = k[3]
      BY <1>3, <1>4, <1>5 DEF c
    <3>2. c + 1 - 1 = c /\ c + 3 - 1 = c + 2
      BY <2>1
    <3> QED BY <1>3, <3>1, <3>2
  <2>4. arena'[c] = T3(SetOp(s), 2) /\ arena'[c + 2] = Word(v)
    BY <2>3 DEF d1, d3
  <2>5. Laid(arena', c + 3, wanted, shaders, [planned EXCEPT ![s] = v], 1, 0, sh_regs)
    BY <2>1, <2>2, <2>4, SetRegLaid
  <2>6. Laid(arena', cursor', wanted', shaders', planned', 1, 0, sh_regs)
    BY <1>2, <1>3, <1>4, <2>5 DEF c
  <2>7. Listed(wanted') /\ Noted(wanted')
    BY <1>4, <2>1
  <2> QED BY <1>4, <1>5, <2>6, <2>7, BuilderDone
<1> QED BY <1>4, <1>5 DEF CmdInv

LEMMA RawClear_Cmd ==
    ASSUME CmdInv, raw_clear_state
    PROVE  CmdInv'
<1> DEFINE d1 == T3("clear", 1)
           k == <<d1, Zero>>
           c == cursor
           q == [s \in Stages |-> Unset]
<1>1. Raw(k) /\ planned' = q
  BY DEF raw_clear_state
<1>2. d1.type = 3 /\ d1.op = "clear" /\ d1.body = 1
  BY DEF T3
<1> HIDE DEF d1, c
<1>3. k \in Seq({d1, Zero}) /\ Len(k) = 2 /\ Len(k) > 0 /\ k[1] = d1
  OBVIOUS
<1> HIDE DEF k
<1>4. /\ CmdTypeOK' /\ clean' = clean /\ walk.pos = 0
      /\ UNCHANGED <<sh_regs, shaders, walk, ran, wanted>> /\ cursor' = cursor + Len(k)
      /\ clean => /\ \A i \in 1..cursor - 1 : arena'[i] = arena[i]
                  /\ \A i \in 1..Len(k) : arena'[cursor + i - 1] = k[i]
  BY <1>1, <1>3, RawWrites
<1>5. ASSUME clean' PROVE CleanFrame'
  <2>1. /\ Listed(wanted) /\ Len(wanted) \in Nat /\ Noted(wanted) /\ c \in Nat
        /\ Laid(arena, c, wanted, shaders, planned, 1, 0, sh_regs)
    BY <1>4, <1>5, BuilderBegins DEF c
  <2>2. Laid(arena', c, wanted, shaders, planned, 1, 0, sh_regs)
    BY <1>4, <1>5, <2>1, SameBefore DEF c
  <2>3. arena'[c] = d1
    <3>1. arena'[c + 1 - 1] = k[1]
      BY <1>3, <1>4, <1>5 DEF c
    <3>2. c + 1 - 1 = c
      BY <2>1
    <3> QED BY <1>3, <3>1, <3>2
  <2>4. Effect(arena', c, Len(wanted), Len(wanted), planned, q, wanted, shaders)
    BY <1>2, <2>3 DEF Effect
  <2>5. c + 2 = After(arena', c) /\ arena'[c].body \in Nat
    BY <1>2, <2>1, <2>3 DEF After
  <2>6. IsRegs(q)
    BY DEF IsRegs
  <2> HIDE DEF q
  <2>7. Laid(arena', c + 2, wanted, shaders, q, 1, 0, sh_regs)
    BY <2>1, <2>2, <2>4, <2>5, <2>6, PacketAdded
  <2>8. Laid(arena', cursor', wanted', shaders', planned', 1, 0, sh_regs)
    BY <1>1, <1>3, <1>4, <2>7 DEF c
  <2>9. Listed(wanted') /\ Noted(wanted')
    BY <1>4, <2>1
  <2> QED BY <1>4, <1>5, <2>8, <2>9, BuilderDone
<1> QED BY <1>4, <1>5 DEF CmdInv

----------------------------------------------------------------------------
(* The walk *)

\* The walk is at a packet that was built: it knows where the next one is.
LEMMA WalkAt ==
    ASSUME CmdInv, clean, walk.pos # 0, walk.pos < walk.end
    PROVE  \E j, q : /\ Effect(arena, walk.pos, Len(ran), j, sh_regs, q, wanted, shaders)
                     /\ Laid(arena, cursor, wanted, shaders, planned, After(arena, walk.pos), j, q)
                     /\ Header.body \in Nat /\ walk.pos \in Nat /\ walk.pos >= 1
                     /\ walk.pos + Header.body < walk.end
                     /\ j \in 0..Len(wanted) /\ Len(wanted) \in Nat /\ IsRegs(q)
<1>1. walk.end = cursor /\ At = walk.pos /\ walk.pos \in Nat /\ Listed(wanted)
      /\ Laid(arena, cursor, wanted, shaders, planned, At, Len(ran), sh_regs)
  BY DEF CmdInv, CleanFrame, At
<1> DEFINE p == walk.pos
           f == After(arena, p)
<1>2. PICK B, ix, st : /\ Parted(arena, cursor, wanted, shaders, B, ix, st)
                       /\ st[cursor] = planned /\ p \in B /\ ix[p] = Len(ran) /\ st[p] = sh_regs
  BY <1>1 DEF Laid
<1>3. p # cursor /\ cursor \in Nat /\ B \subseteq 1..cursor
  BY <1>1, <1>2 DEF Parted
<1>4. /\ arena[p].body \in Nat /\ f \in B
      /\ Effect(arena, p, ix[p], ix[f], st[p], st[f], wanted, shaders)
  BY <1>2, <1>3 DEF Parted
<1>5. IsRegs(st[f]) /\ ix[f] \in 0..Len(wanted)
  <2> HIDE DEF f, p
  <2> QED BY <1>2, <1>4 DEF Parted
<1>6. Laid(arena, cursor, wanted, shaders, planned, f, ix[f], st[f])
  <2> HIDE DEF f, p
  <2> QED BY <1>2, <1>4 DEF Laid
<1>7. p \in Nat /\ p >= 1 /\ p + arena[p].body < walk.end
  <2>1. p \in 1..cursor /\ f \in 1..cursor /\ f = p + 1 + arena[p].body
    BY <1>2, <1>3, <1>4 DEF After
  <2> HIDE DEF f, p
  <2> QED BY <1>1, <1>3, <1>4, <2>1
<1>8. Len(wanted) \in Nat
  BY <1>1 DEF Listed
<1>9. Header = arena[p]
  BY DEF Header
<1> HIDE DEF f
<1>10. /\ Effect(arena, walk.pos, Len(ran), ix[f], sh_regs, st[f], wanted, shaders)
       /\ Laid(arena, cursor, wanted, shaders, planned, After(arena, walk.pos), ix[f], st[f])
  BY <1>2, <1>4, <1>6 DEF f
<1> QED BY <1>4, <1>5, <1>7, <1>8, <1>9, <1>10

\* A step of the walk that leaves the arena and the guest's notes alone: it
\* suffices that it does with the draws and registers what the packet says.
LEMMA WalkStepKeeps ==
    ASSUME CmdInv, InWalk, Step, UNCHANGED <<arena, cursor, shaders, histVars>>, IsRegs(sh_regs'),
           clean => /\ Listed(ran')
                    /\ \A j, q : /\ Effect(arena, walk.pos, Len(ran), j, sh_regs, q, wanted, shaders)
                                 /\ j \in 0..Len(wanted) /\ Len(wanted) \in Nat
                                 => j = Len(ran') /\ q = sh_regs' /\ RanWanted'
    PROVE  CmdInv'
<1>0. UNCHANGED <<wanted, planned, clean>>
  BY DEF histVars
<1>1. walk.pos > 0 /\ walk.pos < walk.end
  BY DEF InWalk
<1>2. walk = [pos |-> walk.pos, end |-> walk.end]
  BY DEF CmdInv, CmdTypeOK
<1>3. walk' = [pos |-> walk.pos + 1 + Header.body, end |-> walk.end]
  BY <1>2 DEF Step
<1>4. walk'.pos = walk.pos + 1 + Header.body /\ walk'.end = walk.end
      /\ walk' = [pos |-> walk'.pos, end |-> walk'.end]
  BY <1>3
<1>5. CmdTypeOK'
  BY <1>4 DEF CmdInv, CmdTypeOK, IsRegs
<1>6. ASSUME clean' PROVE CleanFrame'
  <2>1. clean /\ Listed(wanted) /\ Noted(wanted) /\ walk.pos # 0 /\ walk.end = cursor /\ walk.pos \in Nat
    BY <1>0, <1>1, <1>6 DEF CmdInv, CleanFrame
  <2>2. PICK j, q : /\ Effect(arena, walk.pos, Len(ran), j, sh_regs, q, wanted, shaders)
                    /\ Laid(arena, cursor, wanted, shaders, planned, After(arena, walk.pos), j, q)
                    /\ Header.body \in Nat
                    /\ j \in 0..Len(wanted) /\ Len(wanted) \in Nat
    BY <1>1, <2>1, WalkAt
  <2>3. j = Len(ran') /\ q = sh_regs' /\ RanWanted' /\ Listed(ran')
    BY <2>1, <2>2
  <2>4. walk'.pos \in Nat /\ walk'.pos # 0 /\ walk'.pos = After(arena, walk.pos)
    BY <1>4, <2>1, <2>2 DEF After, Header
  <2>5. At' = walk'.pos
    BY <2>4 DEF At
  <2>6. Laid(arena', cursor', wanted', shaders', planned', At', Len(ran'), sh_regs')
    BY <1>0, <2>2, <2>3, <2>4, <2>5
  <2>7. Listed(wanted') /\ Noted(wanted')
    BY <1>0, <2>1
  <2> QED BY <1>4, <2>1, <2>3, <2>4, <2>6, <2>7 DEF CleanFrame
<1> QED BY <1>5, <1>6 DEF CmdInv

\* What the two notes on draws say survives when neither changes.
LEMMA SameRan ==
    ASSUME CmdInv, UNCHANGED <<ran, wanted>>, clean
    PROVE  RanWanted' /\ Listed(ran')
BY DEF CmdInv, CleanFrame, RanWanted

LEMMA OpsDiffer ==
    /\ \A s \in Stages : SetOp(s) # "nop" /\ SetOp(s) # "clear" /\ SetOp(s) # "draw"
    /\ \A s, t \in Stages : SetOp(s) = SetOp(t) => s = t
BY DEF SetOp, Stages

LEMMA Other_Cmd ==
    ASSUME CmdInv, decode_other
    PROVE  CmdInv'
<1>1. /\ InWalk /\ Step /\ (Header.type # 3 \/ Header.op = "nop")
      /\ UNCHANGED <<arena, cursor, sh_regs, shaders, ran, histVars>>
  BY DEF decode_other
<1>2. IsRegs(sh_regs')
  BY <1>1 DEF CmdInv, CmdTypeOK
<1>3. ASSUME clean
      PROVE  /\ Listed(ran')
             /\ \A j, q : /\ Effect(arena, walk.pos, Len(ran), j, sh_regs, q, wanted, shaders)
                          /\ j \in 0..Len(wanted) /\ Len(wanted) \in Nat
                          => j = Len(ran') /\ q = sh_regs' /\ RanWanted'
  <2>1. RanWanted' /\ Listed(ran')
    BY <1>1, <1>3, SameRan DEF histVars
  <2>2. ASSUME NEW j, NEW q, Effect(arena, walk.pos, Len(ran), j, sh_regs, q, wanted, shaders)
        PROVE  j = Len(ran) /\ q = sh_regs
    <3>1. arena[walk.pos].type # 3 \/ arena[walk.pos].op = "nop"
      BY <1>1 DEF Header
    <3> QED BY <2>2, <3>1, OpsDiffer DEF Effect
  <2> QED BY <1>1, <2>1, <2>2
<1> QED BY <1>1, <1>2, <1>3, WalkStepKeeps

LEMMA SetReg_Cmd ==
    ASSUME CmdInv, NEW s \in Stages, apply_set_reg(s)
    PROVE  CmdInv'
<1>1. /\ InWalk /\ Step /\ Header.type = 3 /\ Header.op = SetOp(s)
      /\ sh_regs' = [sh_regs EXCEPT ![s] = Body(2).v]
      /\ UNCHANGED <<arena, cursor, shaders, ran, histVars>>
  BY DEF apply_set_reg
<1>2. IsRegs(sh_regs')
  <2>1. sh_regs = [t \in Stages |-> sh_regs[t]]
    BY DEF CmdInv, CmdTypeOK, IsRegs
  <2> QED BY <1>1, <2>1 DEF IsRegs
<1>3. ASSUME clean
      PROVE  /\ Listed(ran')
             /\ \A j, q : /\ Effect(arena, walk.pos, Len(ran), j, sh_regs, q, wanted, shaders)
                          /\ j \in 0..Len(wanted) /\ Len(wanted) \in Nat
                          => j = Len(ran') /\ q = sh_regs' /\ RanWanted'
  <2>1. RanWanted' /\ Listed(ran')
    BY <1>1, <1>3, SameRan DEF histVars
  <2>2. ASSUME NEW j, NEW q, Effect(arena, walk.pos, Len(ran), j, sh_regs, q, wanted, shaders)
        PROVE  j = Len(ran) /\ q = sh_regs'
    <3>1. arena[walk.pos].type = 3 /\ arena[walk.pos].op = SetOp(s)
      BY <1>1 DEF Header
    <3>2. j = Len(ran) /\ q = [sh_regs EXCEPT ![s] = arena[walk.pos + 2].v]
      BY <2>2, <3>1, OpsDiffer DEF Effect
    <3> QED BY <1>1, <3>2 DEF Body
  <2> QED BY <1>1, <2>1, <2>2
<1> QED BY <1>1, <1>2, <1>3, WalkStepKeeps

LEMMA Clear_Cmd ==
    ASSUME CmdInv, clear_regs
    PROVE  CmdInv'
<1>1. /\ InWalk /\ Step /\ Header.type = 3 /\ Header.op = "clear"
      /\ sh_regs' = [s \in Stages |-> Unset]
      /\ UNCHANGED <<arena, cursor, shaders, ran, histVars>>
  BY DEF clear_regs
<1>2. IsRegs(sh_regs')
  BY <1>1 DEF IsRegs
<1>3. ASSUME clean
      PROVE  /\ Listed(ran')
             /\ \A j, q : /\ Effect(arena, walk.pos, Len(ran), j, sh_regs, q, wanted, shaders)
                          /\ j \in 0..Len(wanted) /\ Len(wanted) \in Nat
                          => j = Len(ran') /\ q = sh_regs' /\ RanWanted'
  <2>1. RanWanted' /\ Listed(ran')
    BY <1>1, <1>3, SameRan DEF histVars
  <2>2. ASSUME NEW j, NEW q, Effect(arena, walk.pos, Len(ran), j, sh_regs, q, wanted, shaders)
        PROVE  j = Len(ran) /\ q = sh_regs'
    <3>1. arena[walk.pos].type = 3 /\ arena[walk.pos].op = "clear"
      BY <1>1 DEF Header
    <3> QED BY <1>1, <2>2, <3>1, OpsDiffer DEF Effect
  <2> QED BY <1>1, <2>1, <2>2
<1> QED BY <1>1, <1>2, <1>3, WalkStepKeeps

LEMMA DrawAuto_Cmd ==
    ASSUME CmdInv, dispatch_draw_auto
    PROVE  CmdInv'
<1> DEFINE e == [n |-> Body(1).v, bound |-> derive_bound_shaders(shaders, sh_regs)]
<1>1. /\ InWalk /\ Step /\ Header.type = 3 /\ Header.op = "draw"
      /\ ran' = Append(ran, e)
      /\ UNCHANGED <<arena, cursor, sh_regs, shaders, histVars>>
  BY DEF dispatch_draw_auto
<1>2. IsRegs(sh_regs')
  BY <1>1 DEF CmdInv, CmdTypeOK
<1>3. e.n = arena[walk.pos + 1].v /\ e.bound = derive_bound_shaders(shaders, sh_regs)
  BY DEF Body
<1> HIDE DEF e
<1>4. ASSUME clean
      PROVE  /\ Listed(ran')
             /\ \A j, q : /\ Effect(arena, walk.pos, Len(ran), j, sh_regs, q, wanted, shaders)
                          /\ j \in 0..Len(wanted) /\ Len(wanted) \in Nat
                          => j = Len(ran') /\ q = sh_regs' /\ RanWanted'
  <2>1. RanWanted /\ Listed(ran)
    BY <1>4 DEF CmdInv, CleanFrame
  <2>2. /\ Listed(ran') /\ Len(ran) \in Nat /\ Len(ran') = Len(ran) + 1
        /\ \A i \in 1..Len(ran) : ran'[i] = ran[i]
        /\ ran'[Len(ran) + 1] = e
    BY <1>1, <2>1, AppendIs
  <2>3. ASSUME NEW j, NEW q, Effect(arena, walk.pos, Len(ran), j, sh_regs, q, wanted, shaders)
        PROVE  j = Len(ran') /\ q = sh_regs' /\ RanWanted'
    <3>1. arena[walk.pos].type = 3 /\ arena[walk.pos].op = "draw"
      BY <1>1 DEF Header
    <3>2. j = Len(ran) + 1 /\ q = sh_regs
          /\ DrawMatches(wanted[j], arena[walk.pos + 1].v, shaders, sh_regs)
      BY <2>3, <3>1, OpsDiffer DEF Effect
    <3>3. wanted' = wanted
      BY <1>1 DEF histVars
    <3>4. ASSUME NEW i \in 1..Len(ran')
          PROVE  /\ ran'[i].n = wanted[i].n
                 /\ \A s \in Stages : s \in wanted[i].rebound \/ ran'[i].bound[s] = wanted[i].bound[s]
      <4>1. CASE i \in 1..Len(ran)
        BY <2>1, <2>2, <4>1 DEF RanWanted
      <4>2. CASE i = Len(ran) + 1
        BY <1>3, <2>2, <3>2, <4>2 DEF DrawMatches
      <4> QED BY <2>2, <4>1, <4>2
    <3>5. RanWanted'
      BY <3>3, <3>4 DEF RanWanted
    <3> QED BY <1>1, <2>2, <3>2, <3>5
  <2> QED BY <2>2, <2>3
<1> QED BY <1>1, <1>2, <1>4, WalkStepKeeps

----------------------------------------------------------------------------
(* The submit *)

LEMMA Submit_Cmd ==
    ASSUME CmdInv, record_submit
    PROVE  CmdInv'
<1>1. /\ walk.pos = 0 /\ walk' = [pos |-> 1, end |-> cursor] /\ ran' = <<>>
      /\ UNCHANGED <<arena, cursor, sh_regs, shaders, wanted, planned, clean>>
  BY DEF record_submit, histVars
<1>2. walk'.pos = 1 /\ walk'.end = cursor /\ walk' = [pos |-> walk'.pos, end |-> walk'.end]
  BY <1>1
<1>3. CmdTypeOK'
  BY <1>1, <1>2 DEF CmdInv, CmdTypeOK, IsRegs
<1>4. ASSUME clean' PROVE CleanFrame'
  <2>1. /\ Listed(wanted) /\ Noted(wanted)
        /\ Laid(arena, cursor, wanted, shaders, planned, 1, 0, sh_regs)
    BY <1>1, <1>4, BuilderBegins
  <2>2. At' = 1
    BY <1>2 DEF At
  <2>3. ran' \in Seq({}) /\ Len(ran') = 0
    BY <1>1
  <2>4. Listed(ran') /\ RanWanted'
    BY <2>3 DEF Listed, RanWanted
  <2>5. Laid(arena', cursor', wanted', shaders', planned', At', Len(ran'), sh_regs')
    BY <1>1, <2>1, <2>2, <2>3
  <2>6. Listed(wanted') /\ Noted(wanted')
    BY <1>1, <2>1
  <2> QED BY <1>1, <1>2, <2>4, <2>5, <2>6 DEF CleanFrame
<1> QED BY <1>3, <1>4 DEF CmdInv

\* An arena in which nothing has been built yet, whatever it holds.
LEMMA EmptyLaid ==
    ASSUME NEW a, NEW sh, NEW r, IsRegs(r)
    PROVE  Laid(a, 1, <<>>, sh, r, 1, 0, r)
<1> DEFINE B == {1}
           ix == [b \in B |-> 0]
           st == [b \in B |-> r]
<1>1. Len(<<>>) = 0
  OBVIOUS
<1>2. Parted(a, 1, <<>>, sh, B, ix, st)
  BY <1>1 DEF Parted
<1>3. st[1] = r /\ 1 \in B /\ ix[1] = 0
  OBVIOUS
<1> HIDE DEF B, ix, st
<1> QED BY <1>2, <1>3 DEF Laid

LEMMA SubmitEnd_Cmd ==
    ASSUME CmdInv, submit_end
    PROVE  CmdInv'
<1>1. /\ walk' = [pos |-> 0, end |-> 0] /\ cursor' = 1 /\ wanted' = <<>> /\ ran' = <<>>
      /\ planned' = sh_regs /\ UNCHANGED <<arena, sh_regs, shaders>>
  BY DEF submit_end
<1>2. walk'.pos = 0 /\ walk'.end = 0 /\ walk' = [pos |-> walk'.pos, end |-> walk'.end]
  BY <1>1
<1>3. CmdTypeOK'
  BY <1>1, <1>2 DEF CmdInv, CmdTypeOK, IsRegs
<1>4. CleanFrame'
  <2>1. /\ Listed(wanted') /\ Listed(ran') /\ Len(ran') = 0 /\ Len(wanted') = 0
    <3>1. <<>> \in Seq({}) /\ Len(<<>>) = 0
      OBVIOUS
    <3> QED BY <1>1, <3>1 DEF Listed
  <2>2. Noted(wanted') /\ RanWanted'
    BY <2>1 DEF Noted, RanWanted
  <2>3. At' = 1
    BY <1>2 DEF At
  <2>4. Laid(arena, 1, <<>>, shaders, sh_regs, 1, 0, sh_regs)
    BY EmptyLaid DEF CmdInv, CmdTypeOK
  <2>5. Laid(arena', cursor', wanted', shaders', planned', At', Len(ran'), sh_regs')
    BY <1>1, <2>1, <2>3, <2>4
  <2> QED BY <1>2, <2>1, <2>2, <2>5 DEF CleanFrame
<1> QED BY <1>3, <1>4 DEF CmdInv

----------------------------------------------------------------------------
LEMMA EmptyFrame ==
    ASSUME wanted = <<>>, ran = <<>>, cursor = 1, walk.pos = 0, IsRegs(sh_regs), planned = sh_regs
    PROVE  CleanFrame
<1>1. Listed(wanted) /\ Listed(ran) /\ Len(ran) = 0 /\ Len(wanted) = 0
  <2>1. <<>> \in Seq({}) /\ Len(<<>>) = 0
    OBVIOUS
  <2> QED BY <2>1 DEF Listed
<1>2. Noted(wanted) /\ RanWanted
  BY <1>1 DEF Noted, RanWanted
<1>3. At = 1
  BY DEF At
<1>4. Laid(arena, cursor, wanted, shaders, planned, At, Len(ran), sh_regs)
  BY <1>1, <1>3, EmptyLaid
<1> QED BY <1>1, <1>2, <1>4 DEF CleanFrame

LEMMA CmdInit_Cmd ==
    ASSUME CmdInit
    PROVE  CmdInv
<1>1. arena = [i \in 1..ArenaDwords |-> arena[i]]
  BY DEF CmdInit
<1>2. IsRegs(sh_regs) /\ IsRegs(shaders) /\ planned = sh_regs
  BY DEF CmdInit, IsRegs
<1>3. walk.pos = 0 /\ walk = [pos |-> walk.pos, end |-> walk.end]
  BY DEF CmdInit
<1>4. CleanFrame
  BY <1>2, <1>3, EmptyFrame DEF CmdInit
<1> QED BY <1>1, <1>2, <1>3, <1>4 DEF CmdInv, CmdTypeOK

LEMMA CmdStutter ==
    ASSUME CmdInv, UNCHANGED cmdVars
    PROVE  CmdInv'
BY DEF cmdVars, CmdInv, CmdTypeOK, IsRegs, CleanFrame, At, RanWanted

LEMMA CmdNext_Cmd ==
    ASSUME CmdInv, [CmdNext]_cmdVars
    PROVE  CmdInv'
<1>1. ASSUME NEW m \in Slots, sce_gnm_draw_index_auto(m)
      PROVE  CmdInv'
  BY <1>1, Draw_Cmd
<1>2. ASSUME NEW m \in Slots,
             \/ sce_gnm_draw_init_default_hardware_state(m) \/ sce_gnm_draw_index(m)
             \/ sce_gnm_dispatch_direct(m) \/ sce_gnm_set_other_shader(m)
      PROVE  CmdInv'
  BY <1>2, NoPm4_Cmd DEF sce_gnm_draw_init_default_hardware_state, sce_gnm_draw_index,
                         sce_gnm_dispatch_direct, sce_gnm_set_other_shader
<1>3. ASSUME NEW s \in Stages, NEW v \in Programs,
             raw_set_reg(s, v) \/ \E m \in Slots : sce_gnm_set_shader(s, v, m)
      PROVE  CmdInv'
  BY <1>3, RawSetReg_Cmd, SetShader_Cmd
<1>4. ASSUME NEW s \in Stages, NEW id \in EmbeddedIds, sce_gnm_set_embedded_shader(s, id)
      PROVE  CmdInv'
  BY <1>4, Embedded_Cmd
<1>5. ASSUME raw_clear_state \/ record_submit \/ submit_end
      PROVE  CmdInv'
  BY <1>5, RawClear_Cmd, Submit_Cmd, SubmitEnd_Cmd
<1>6. ASSUME decode_other \/ clear_regs \/ dispatch_draw_auto \/ \E s \in Stages : apply_set_reg(s)
      PROVE  CmdInv'
  BY <1>6, Other_Cmd, Clear_Cmd, DrawAuto_Cmd, SetReg_Cmd
<1> QED BY <1>1, <1>2, <1>3, <1>4, <1>5, <1>6, CmdStutter DEF CmdNext

\* The invariant has the property's four parts.
LEMMA CmdInv_Walk ==
    ASSUME CmdInv
    PROVE  WalkRunsWhatWasBuilt
<1> SUFFICES ASSUME clean, walk.pos > 0
             PROVE  /\ IsPrefix([i \in DOMAIN ran |-> ran[i].n], [i \in DOMAIN wanted |-> wanted[i].n])
                    /\ \A i \in DOMAIN ran : \A s \in Stages :
                          s \in wanted[i].rebound \/ ran[i].bound[s] = wanted[i].bound[s]
                    /\ ~Truncated
                    /\ WalkOver => Len(ran) = Len(wanted)
  BY DEF WalkRunsWhatWasBuilt
<1>1. /\ CleanFrame /\ RanWanted /\ Listed(ran) /\ Listed(wanted) /\ walk.end = cursor
      /\ walk.pos \in Nat /\ walk.pos # 0
  BY DEF CmdInv, CleanFrame
<1>2. /\ Len(ran) \in Nat /\ DOMAIN ran = 1..Len(ran)
      /\ Len(wanted) \in Nat /\ DOMAIN wanted = 1..Len(wanted)
  BY <1>1 DEF Listed
<1>3. PICK B, ix, st : /\ Parted(arena, cursor, wanted, shaders, B, ix, st)
                       /\ walk.pos \in B /\ ix[walk.pos] = Len(ran)
  BY <1>1 DEF CleanFrame, Laid, At
<1>4. Len(ran) <= Len(wanted)
  <2>1. ix \in [B -> 0..Len(wanted)] /\ walk.pos \in B /\ ix[walk.pos] = Len(ran)
    BY <1>3 DEF Parted
  <2>2. Len(ran) \in 0..Len(wanted)
    BY <2>1
  <2> QED BY <1>2, <2>2
<1>5. IsPrefix([i \in DOMAIN ran |-> ran[i].n], [i \in DOMAIN wanted |-> wanted[i].n])
  <2> DEFINE u == [i \in 1..Len(ran) |-> ran[i].n]
             v == [i \in 1..Len(wanted) |-> wanted[i].n]
             S == {v[i] : i \in 1..Len(wanted)}
  <2>1. \A i \in 1..Len(ran) : i \in 1..Len(wanted) /\ u[i] = v[i]
    BY <1>1, <1>2, <1>4 DEF RanWanted
  <2>2. v \in Seq(S) /\ Len(v) = Len(wanted)
    <3>1. \A i \in 1..Len(wanted) : v[i] \in S
      OBVIOUS
    <3> HIDE DEF S
    <3> QED BY <1>2, <3>1
  <2>3. \A i \in 1..Len(ran) : u[i] \in S
    BY <2>1
  <2> HIDE DEF S
  <2>4. u \in Seq(S) /\ Len(u) = Len(ran)
    BY <1>2, <2>3
  <2> HIDE DEF u, v
  <2>5. u = SubSeq(v, 1, Len(u))
    BY <1>2, <1>4, <2>1, <2>2, <2>4
  <2>6. IsPrefix(u, v)
    BY <1>2, <1>4, <2>2, <2>4, <2>5 DEF IsPrefix
  <2> QED BY <1>2, <2>6 DEF u, v
<1>6. \A i \in DOMAIN ran : \A s \in Stages :
         s \in wanted[i].rebound \/ ran[i].bound[s] = wanted[i].bound[s]
  BY <1>1, <1>2 DEF RanWanted
<1>7. ~Truncated
  <2>1. CASE walk.pos < walk.end
    <3>1. Header.body \in Nat /\ walk.pos + Header.body < walk.end
      BY <1>1, <2>1, WalkAt
    <3>2. cursor \in Nat
      BY <1>3 DEF Parted
    <3> QED BY <1>1, <2>1, <3>1, <3>2 DEF Truncated
  <2>2. CASE ~(walk.pos < walk.end)
    BY <2>2 DEF Truncated
  <2> QED BY <2>1, <2>2
<1>8. ASSUME WalkOver PROVE Len(ran) = Len(wanted)
  <2>1. walk.pos = cursor
    BY <1>1, <1>3, <1>8 DEF WalkOver, Parted
  <2> QED BY <1>3, <2>1 DEF Parted
<1> QED BY <1>5, <1>6, <1>7, <1>8

\* When every slot of a frame was written in full, the submit's walk runs the
\* draws the guest built, in their order, each with the shaders bound where it
\* was built unless the stage was rebound outside the buffer, and never stops
\* short or reads what an earlier frame left (emit.rs:pad_to_reserved,
\* decode.rs:Decoder::next, state.rs:derive_bound_shaders).
THEOREM WalkRuns == CmdSpec => []WalkRunsWhatWasBuilt
<1>1. CmdInit => CmdInv
  BY CmdInit_Cmd
<1>2. CmdInv /\ [CmdNext]_cmdVars => CmdInv'
  BY CmdNext_Cmd
<1>3. CmdInv => WalkRunsWhatWasBuilt
  BY CmdInv_Walk
<1> QED BY <1>1, <1>2, <1>3, PTL DEF CmdSpec

----------------------------------------------------------------------------
(***************************************************************************)
(* Snapshot, for any registers, shaders, textures and bounds.  Records     *)
(* relates what the recorder has to what the frame did; it holds for an    *)
(* armed recorder and its frame, and for every capture and the frame it is *)
(* labelled with, which no later step touches.  The recorder is armed only *)
(* while a frame runs: a flush is under way only between two frames,       *)
(* because its token is the last thing in the writer's queue.              *)
(***************************************************************************)
IsFcn(f) == f = [x \in DOMAIN f |-> f[x]]

\* f is the register file after each of the records ds, c the draws among the
\* events es.
Rebuilds(f, ds) == f = [i \in 0..Len(ds) |-> IF i = 0 THEN <<>> ELSE Apply(f[i - 1], ds[i].reg_delta)]
CountsDraws(c, es) == c = [i \in 0..Len(es) |-> IF i = 0 THEN 0 ELSE c[i - 1] + (IF es[i].draw THEN 1 ELSE 0)]

\* Event i of a frame, of which n are draws: its record.
Recorded(f, m, df, e, i, n) ==
    IF e.draw THEN n \in 1..m /\ f[n] = e.regs
    ELSE i - n \in 1..Len(df) /\ df[i - n].after_draw = n

Records(ds, df, es, prev) ==
    /\ Listed(ds) /\ Listed(df) /\ Listed(es)
    /\ \E f, c : /\ Rebuilds(f, ds) /\ f[Len(ds)] = prev
                 /\ CountsDraws(c, es) /\ c[Len(es)] = Len(ds)
                 /\ Len(df) = Len(es) - Len(ds)
                 /\ \A i \in 1..Len(es) : Recorded(f, Len(ds), df, es[i], i, c[i])

IsRecorder(r) ==
    r = [armed |-> r.armed, frame |-> r.frame, draws |-> r.draws, deferred |-> r.deferred, prev_regs |-> r.prev_regs,
         shaders |-> r.shaders, with_sb |-> r.with_sb, rt_dumps |-> r.rt_dumps, textures |-> r.textures, detiled |-> r.detiled]

SnapTypeOK ==
    /\ IsFcn(shadow_regs) /\ flip_count \in Nat /\ submit_at \in {"frame", "claim", "flush"}
    /\ IsRecorder(recorder) /\ IsFcn(captures)
    /\ shown = [f \in 0..flip_count |-> shown[f]] /\ \A f \in 0..flip_count : Listed(shown[f])

\* The frame that runs, while it is recorded.
FrameRecorded ==
    recorder.armed =>
        /\ submit_at = "frame" /\ recorder.frame \in Nat /\ flip_count = recorder.frame + 1
        /\ Records(recorder.draws, recorder.deferred, shown[flip_count], recorder.prev_regs)

\* A frame that was captured is over.
FramesCaptured ==
    \A f \in DOMAIN captures :
        /\ f \in Nat /\ f + 1 <= flip_count /\ (submit_at = "frame" => f + 1 # flip_count)
        /\ \E prev : Records(captures[f].draws, captures[f].deferred, shown[f + 1], prev)

TokenLast ==
    /\ Listed(queue)
    /\ \A i \in 1..Len(queue) : queue[i] = FlushToken => submit_at = "flush" /\ i = Len(queue)

SnapInv == SnapTypeOK /\ FrameRecorded /\ FramesCaptured /\ TokenLast

\* The deltas of two register files, applied to the one, give the other.
LEMMA ApplyDelta ==
    ASSUME NEW now, NEW before, IsFcn(now)
    PROVE  Apply(before, delta(now, before)) = now
<1> DEFINE C == {q \in DOMAIN now \cup DOMAIN before :
                    ~(q \in DOMAIN now /\ q \in DOMAIN before /\ now[q] = before[q])}
           D(r) == [reg |-> r, from |-> IF r \in DOMAIN before THEN {before[r]} ELSE {},
                    to |-> IF r \in DOMAIN now THEN {now[r]} ELSE {}]
           ch == delta(now, before)
           set == {c \in ch : c.to # {}}
           gone == {c.reg : c \in {x \in ch : x.to = {}}}
<1>1. ch = {D(r) : r \in C}
  BY DEF delta
<1>2. \A r : D(r).reg = r /\ D(r).to = IF r \in DOMAIN now THEN {now[r]} ELSE {}
  OBVIOUS
<1> HIDE DEF D, ch
<1>3. \A c \in ch : c = D(c.reg) /\ c.reg \in C
  BY <1>1, <1>2
<1>4. \A r : (\E c \in set : c.reg = r) <=> r \in C /\ r \in DOMAIN now
  <2>1. ASSUME NEW r, NEW c \in set, c.reg = r PROVE r \in C /\ r \in DOMAIN now
    <3>1. c \in ch /\ c.to # {}
      OBVIOUS
    <3> HIDE DEF C
    <3>2. D(r).to # {} /\ r \in C
      BY <1>3, <2>1, <3>1
    <3> QED BY <1>2, <3>2
  <2>2. ASSUME NEW r, r \in C, r \in DOMAIN now PROVE \E c \in set : c.reg = r
    <3>1. D(r) \in ch /\ D(r).to # {} /\ D(r).reg = r
      BY <1>1, <1>2, <2>2
    <3> QED BY <3>1
  <2> QED BY <2>1, <2>2
<1>5. \A r : r \in gone <=> r \in C /\ r \notin DOMAIN now
  <2>1. ASSUME NEW r, r \in gone PROVE r \in C /\ r \notin DOMAIN now
    <3>1. PICK c \in ch : c.to = {} /\ c.reg = r
      BY <2>1
    <3> HIDE DEF C
    <3>2. D(r).to = {} /\ r \in C
      BY <1>3, <3>1
    <3> QED BY <1>2, <3>2
  <2>2. ASSUME NEW r, r \in C, r \notin DOMAIN now PROVE r \in gone
    <3>1. D(r) \in ch /\ D(r).to = {} /\ D(r).reg = r
      BY <1>1, <1>2, <2>2
    <3> QED BY <3>1
  <2> QED BY <2>1, <2>2
<1>6. (DOMAIN before \ gone) \cup {c.reg : c \in set} = DOMAIN now
  <2>1. \A r : r \in {c.reg : c \in set} <=> r \in C /\ r \in DOMAIN now
    BY <1>4
  <2> HIDE DEF set, gone
  <2> QED BY <1>5, <2>1
<1> DEFINE G(r) == IF \E c \in set : c.reg = r THEN CHOOSE v \in (CHOOSE c \in set : c.reg = r).to : TRUE ELSE before[r]
<1>7. ASSUME NEW r \in DOMAIN now
      PROVE  G(r) = now[r]
  <2>1. CASE \E c \in set : c.reg = r
    <3> DEFINE d == CHOOSE c \in set : c.reg = r
    <3>1. d \in set /\ d.reg = r
      BY <2>1
    <3>2. d \in ch
      BY <3>1
    <3> HIDE DEF d, set
    <3>3. d = D(r)
      BY <1>3, <3>1, <3>2
    <3>4. d.to = {now[r]}
      BY <1>2, <3>3
    <3>5. (CHOOSE v \in d.to : TRUE) = now[r]
      BY <3>4
    <3> QED BY <2>1, <3>5 DEF d
  <2>2. CASE ~(\E c \in set : c.reg = r)
    <3>1. r \notin C
      BY <1>4, <2>2
    <3> QED BY <2>2, <3>1
  <2> QED BY <2>1, <2>2
<1>8. Apply(before, ch) = [r \in (DOMAIN before \ gone) \cup {c.reg : c \in set} |-> G(r)]
  BY DEF Apply
<1> HIDE DEF set, gone, G
<1>9. Apply(before, ch) = [r \in DOMAIN now |-> now[r]]
  <2>1. Apply(before, ch) = [r \in DOMAIN now |-> G(r)]
    BY <1>6, <1>8
  <2> QED BY <1>7, <2>1
<1> QED BY <1>9 DEF IsFcn, ch

----------------------------------------------------------------------------
(* What the recorder adds *)

\* f with one more value at the end.
Longer(f, n, x) == [i \in 0..n + 1 |-> IF i = n + 1 THEN x ELSE f[i]]

LEMMA LongerIs ==
    ASSUME NEW f, NEW n \in Nat, NEW x
    PROVE  /\ DOMAIN Longer(f, n, x) = 0..n + 1 /\ Longer(f, n, x)[n + 1] = x
           /\ \A i \in 0..n : Longer(f, n, x)[i] = f[i]
BY DEF Longer

LEMMA RebuildsMore ==
    ASSUME NEW f, NEW ds, NEW d, NEW x, Listed(ds), Rebuilds(f, ds), x = Apply(f[Len(ds)], d.reg_delta)
    PROVE  Rebuilds(Longer(f, Len(ds), x), Append(ds, d))
<1> DEFINE n == Len(ds)
           h == Longer(f, n, x)
           es == Append(ds, d)
<1>1. n \in Nat /\ Len(es) = n + 1 /\ es[n + 1] = d /\ \A i \in 1..n : es[i] = ds[i]
  BY AppendIs
<1>2. \A i \in 0..n : f[i] = IF i = 0 THEN <<>> ELSE Apply(f[i - 1], ds[i].reg_delta)
  BY DEF Rebuilds
<1> HIDE DEF n, es
<1>3. h = Longer(f, n, x) /\ h[n + 1] = x /\ \A i \in 0..n : h[i] = f[i]
  BY <1>1, LongerIs
<1>4. h = [i \in 0..n + 1 |-> h[i]]
  BY DEF Longer
<1> HIDE DEF h
<1>5. ASSUME NEW i \in 0..n + 1 PROVE h[i] = IF i = 0 THEN <<>> ELSE Apply(h[i - 1], es[i].reg_delta)
  <2>1. CASE i = n + 1
    <3>1. h[i - 1] = f[n] /\ i # 0 /\ es[i] = d
      BY <1>1, <1>3, <2>1
    <3>2. x = Apply(f[n], d.reg_delta)
      BY DEF n
    <3> QED BY <1>3, <2>1, <3>1, <3>2
  <2>2. CASE i # n + 1 /\ i # 0
    <3>1. i \in 0..n /\ i - 1 \in 0..n /\ i \in 1..n
      BY <1>1, <2>2
    <3>2. h[i] = f[i] /\ h[i - 1] = f[i - 1] /\ es[i] = ds[i]
      BY <1>1, <1>3, <3>1
    <3> QED BY <1>2, <2>2, <3>1, <3>2
  <2>3. CASE i = 0
    <3>1. 0 \in 0..n
      BY <1>1
    <3> QED BY <1>2, <1>3, <2>3, <3>1
  <2> QED BY <2>1, <2>2, <2>3
<1>6. h = [i \in 0..Len(es) |-> IF i = 0 THEN <<>> ELSE Apply(h[i - 1], es[i].reg_delta)]
  BY <1>1, <1>4, <1>5
<1>7. Rebuilds(h, es)
  BY <1>6 DEF Rebuilds
<1> QED BY <1>7 DEF h, n, es

LEMMA CountsMore ==
    ASSUME NEW c, NEW es, NEW e, NEW x, Listed(es), CountsDraws(c, es),
           x = c[Len(es)] + (IF e.draw THEN 1 ELSE 0)
    PROVE  CountsDraws(Longer(c, Len(es), x), Append(es, e))
<1> DEFINE n == Len(es)
           h == Longer(c, n, x)
           fs == Append(es, e)
<1>1. n \in Nat /\ Len(fs) = n + 1 /\ fs[n + 1] = e /\ \A i \in 1..n : fs[i] = es[i]
  BY AppendIs
<1>2. \A i \in 0..n : c[i] = IF i = 0 THEN 0 ELSE c[i - 1] + (IF es[i].draw THEN 1 ELSE 0)
  BY DEF CountsDraws
<1> HIDE DEF n, fs
<1>3. h = Longer(c, n, x) /\ h[n + 1] = x /\ \A i \in 0..n : h[i] = c[i]
  BY <1>1, LongerIs
<1>4. h = [i \in 0..n + 1 |-> h[i]]
  BY DEF Longer
<1> HIDE DEF h
<1>5. ASSUME NEW i \in 0..n + 1 PROVE h[i] = IF i = 0 THEN 0 ELSE h[i - 1] + (IF fs[i].draw THEN 1 ELSE 0)
  <2>1. CASE i = n + 1
    <3>1. h[i - 1] = c[n] /\ i # 0 /\ fs[i] = e
      BY <1>1, <1>3, <2>1
    <3>2. x = c[n] + (IF e.draw THEN 1 ELSE 0)
      BY DEF n
    <3> QED BY <1>3, <2>1, <3>1, <3>2
  <2>2. CASE i # n + 1 /\ i # 0
    <3>1. i \in 0..n /\ i - 1 \in 0..n /\ i \in 1..n
      BY <1>1, <2>2
    <3>2. h[i] = c[i] /\ h[i - 1] = c[i - 1] /\ fs[i] = es[i]
      BY <1>1, <1>3, <3>1
    <3> QED BY <1>2, <2>2, <3>1, <3>2
  <2>3. CASE i = 0
    <3>1. 0 \in 0..n
      BY <1>1
    <3> QED BY <1>2, <1>3, <2>3, <3>1
  <2> QED BY <2>1, <2>2, <2>3
<1>6. h = [i \in 0..Len(fs) |-> IF i = 0 THEN 0 ELSE h[i - 1] + (IF fs[i].draw THEN 1 ELSE 0)]
  BY <1>1, <1>4, <1>5
<1>7. CountsDraws(h, fs)
  BY <1>6 DEF CountsDraws
<1> QED BY <1>7 DEF h, n, fs

\* A draw's record: the registers as they changed since the last.
LEMMA DrawRecorded ==
    ASSUME NEW ds, NEW df, NEW es, NEW prev, NEW d, NEW e, NEW now,
           Records(ds, df, es, prev), IsFcn(now), d.reg_delta = delta(now, prev),
           e.draw = TRUE, e.regs = now
    PROVE  Records(Append(ds, d), df, Append(es, e), now)
<1> DEFINE m == Len(ds)
           n == Len(es)
           dt == Append(ds, d)
           et == Append(es, e)
<1>1. Listed(ds) /\ Listed(df) /\ Listed(es)
  BY DEF Records
<1>2. PICK f, c : /\ Rebuilds(f, ds) /\ f[m] = prev
                  /\ CountsDraws(c, es) /\ c[n] = m /\ Len(df) = n - m
                  /\ \A i \in 1..n : Recorded(f, m, df, es[i], i, c[i])
  BY DEF Records
<1>3. m \in Nat /\ Listed(dt) /\ Len(dt) = m + 1
  BY <1>1, AppendIs
<1>4. /\ n \in Nat /\ Listed(et) /\ Len(et) = n + 1 /\ et[n + 1] = e
      /\ \A i \in 1..n : et[i] = es[i]
  BY <1>1, AppendIs
<1> DEFINE g == Longer(f, m, now)
           b == Longer(c, n, m + 1)
<1>5. Rebuilds(g, dt)
  <2>1. now = Apply(f[m], d.reg_delta)
    BY <1>2, ApplyDelta
  <2> QED BY <1>1, <1>2, <2>1, RebuildsMore
<1>6. CountsDraws(b, et)
  <2>1. m + 1 = c[n] + (IF e.draw THEN 1 ELSE 0)
    BY <1>2
  <2> QED BY <1>1, <1>2, <2>1, CountsMore
<1>7. g[m + 1] = now /\ \A i \in 0..m : g[i] = f[i]
  BY <1>3, LongerIs
<1>8. b[n + 1] = m + 1 /\ \A i \in 0..n : b[i] = c[i]
  BY <1>4, LongerIs
<1> HIDE DEF m, n, dt, et, g, b
<1>9. ASSUME NEW i \in 1..n + 1 PROVE Recorded(g, m + 1, df, et[i], i, b[i])
  <2>1. CASE i = n + 1
    BY <1>3, <1>4, <1>7, <1>8, <2>1 DEF Recorded
  <2>2. CASE i # n + 1
    <3>1. i \in 1..n /\ i \in 0..n
      BY <1>4, <2>2
    <3>2. b[i] = c[i] /\ et[i] = es[i] /\ Recorded(f, m, df, es[i], i, c[i])
      BY <1>2, <1>4, <1>8, <3>1
    <3>3. c[i] \in 1..m => c[i] \in 1..m + 1 /\ g[c[i]] = f[c[i]]
      BY <1>3, <1>7
    <3> QED BY <3>2, <3>3 DEF Recorded
  <2> QED BY <2>1, <2>2
<1>10. Len(df) = (n + 1) - (m + 1)
  BY <1>2, <1>3, <1>4
<1>11. /\ Rebuilds(g, dt) /\ g[Len(dt)] = now
       /\ CountsDraws(b, et) /\ b[Len(et)] = Len(dt)
       /\ Len(df) = Len(et) - Len(dt)
       /\ \A i \in 1..Len(et) : Recorded(g, Len(dt), df, et[i], i, b[i])
  BY <1>3, <1>4, <1>5, <1>6, <1>7, <1>8, <1>9, <1>10
<1>12. Records(dt, df, et, now)
  BY <1>1, <1>3, <1>4, <1>11 DEF Records
<1> QED BY <1>12 DEF dt, et

\* A draw that was rejected: after how many others it came.
LEMMA DeferredRecorded ==
    ASSUME NEW ds, NEW df, NEW es, NEW prev, NEW d, NEW e,
           Records(ds, df, es, prev), d.after_draw = Len(ds), e.draw = FALSE
    PROVE  Records(ds, Append(df, d), Append(es, e), prev)
<1> DEFINE m == Len(ds)
           n == Len(es)
           k == Len(df)
           dt == Append(df, d)
           et == Append(es, e)
<1>1. Listed(ds) /\ Listed(df) /\ Listed(es)
  BY DEF Records
<1>2. PICK f, c : /\ Rebuilds(f, ds) /\ f[m] = prev
                  /\ CountsDraws(c, es) /\ c[n] = m /\ k = n - m
                  /\ \A i \in 1..n : Recorded(f, m, df, es[i], i, c[i])
  BY DEF Records
<1>3. /\ k \in Nat /\ Listed(dt) /\ Len(dt) = k + 1 /\ dt[k + 1] = d
      /\ \A i \in 1..k : dt[i] = df[i]
  BY <1>1, AppendIs
<1>4. /\ n \in Nat /\ Listed(et) /\ Len(et) = n + 1 /\ et[n + 1] = e
      /\ \A i \in 1..n : et[i] = es[i]
  BY <1>1, AppendIs
<1>5. m \in Nat
  BY <1>1 DEF Listed
<1> DEFINE b == Longer(c, n, m)
<1>6. CountsDraws(b, et)
  <2>1. m = c[n] + (IF e.draw THEN 1 ELSE 0)
    BY <1>2, <1>5
  <2> QED BY <1>1, <1>2, <2>1, CountsMore
<1>7. b[n + 1] = m /\ \A i \in 0..n : b[i] = c[i]
  <2> HIDE DEF m, n
  <2> QED BY <1>4, LongerIs
<1>8. d.after_draw = m
  OBVIOUS
<1> HIDE DEF m, n, k, dt, et, b
<1>9. ASSUME NEW i \in 1..n + 1 PROVE Recorded(f, m, dt, et[i], i, b[i])
  <2>1. CASE i = n + 1
    <3>1. i - b[i] = k + 1 /\ k + 1 \in 1..Len(dt)
      BY <1>2, <1>3, <1>4, <1>5, <1>7, <2>1
    <3> QED BY <1>3, <1>4, <1>7, <1>8, <2>1, <3>1 DEF Recorded
  <2>2. CASE i # n + 1
    <3>1. i \in 1..n /\ i \in 0..n
      BY <1>4, <2>2
    <3>2. b[i] = c[i] /\ et[i] = es[i] /\ Recorded(f, m, df, es[i], i, c[i])
      BY <1>2, <1>4, <1>7, <3>1
    <3>3. i - c[i] \in 1..k => i - c[i] \in 1..k + 1 /\ dt[i - c[i]] = df[i - c[i]]
      BY <1>3
    <3> QED BY <1>3, <3>2, <3>3 DEF Recorded, k
  <2> QED BY <2>1, <2>2
<1>10. k + 1 = (n + 1) - m
  BY <1>2, <1>3, <1>4, <1>5
<1>11. /\ Rebuilds(f, ds) /\ f[Len(ds)] = prev
       /\ CountsDraws(b, et) /\ b[Len(et)] = Len(ds)
       /\ Len(dt) = Len(et) - Len(ds)
       /\ \A i \in 1..Len(et) : Recorded(f, Len(ds), dt, et[i], i, b[i])
  BY <1>2, <1>3, <1>4, <1>6, <1>7, <1>9, <1>10 DEF m
<1>12. Records(ds, dt, et, prev)
  BY <1>1, <1>3, <1>4, <1>11 DEF Records
<1> QED BY <1>12 DEF dt, et

\* Before the first event.
LEMMA NothingRecorded == Records(<<>>, <<>>, <<>>, <<>>)
<1> DEFINE f == [i \in 0..0 |-> <<>>]
           c == [i \in 0..0 |-> 0]
<1>1. <<>> \in Seq({}) /\ Len(<<>>) = 0
  OBVIOUS
<1>2. Listed(<<>>)
  BY <1>1 DEF Listed
<1>3. Rebuilds(f, <<>>) /\ f[0] = <<>>
  BY <1>1 DEF Rebuilds
<1>4. CountsDraws(c, <<>>) /\ c[0] = 0
  BY <1>1 DEF CountsDraws
<1> HIDE DEF f, c
<1> QED BY <1>1, <1>2, <1>3, <1>4 DEF Records

\* What the capture's file keeps of the records is enough.
LEMMA JsonRecords ==
    ASSUME NEW r, NEW es, NEW prev, Records(r.draws, r.deferred, es, prev)
    PROVE  Records(draws_json(r).draws, draws_json(r).deferred, es, prev)
<1> DEFINE ds == r.draws
           n == Len(ds)
           J(i) == draw_json(ds[i])
           js == [i \in DOMAIN ds |-> J(i)]
<1>1. Listed(ds) /\ n \in Nat /\ DOMAIN ds = 1..n
  BY DEF Records, Listed
<1>2. draws_json(r).draws = js /\ draws_json(r).deferred = r.deferred
  BY DEF draws_json
<1>3. \A i : J(i).reg_delta = ds[i].reg_delta
  BY DEF draw_json
<1> HIDE DEF J, n, ds
<1>4. Listed(js) /\ Len(js) = n
  <2> DEFINE S == {J(i) : i \in 1..n}
  <2>1. \A i \in 1..n : J(i) \in S
    OBVIOUS
  <2> HIDE DEF S
  <2>2. js \in Seq(S) /\ Len(js) = n
    BY <1>1, <2>1
  <2> QED BY <2>2 DEF Listed
<1>5. \A i \in 1..n : js[i].reg_delta = ds[i].reg_delta
  BY <1>1, <1>3
<1> HIDE DEF js
<1>6. ASSUME NEW f, Rebuilds(f, ds) PROVE Rebuilds(f, js)
  <2>1. f = [i \in 0..n |-> IF i = 0 THEN <<>> ELSE Apply(f[i - 1], ds[i].reg_delta)]
    BY <1>6 DEF Rebuilds, n
  <2>2. \A i \in 0..n : i # 0 => js[i].reg_delta = ds[i].reg_delta
    BY <1>1, <1>5
  <2>3. f = [i \in 0..n |-> IF i = 0 THEN <<>> ELSE Apply(f[i - 1], js[i].reg_delta)]
    BY <2>1, <2>2
  <2> QED BY <1>4, <2>3 DEF Rebuilds
<1>7. Records(ds, r.deferred, es, prev)
  BY DEF ds
<1>8. Records(js, r.deferred, es, prev)
  BY <1>4, <1>6, <1>7 DEF Records, n
<1> QED BY <1>2, <1>8

----------------------------------------------------------------------------
(* The steps *)

\* The display thread, the guest between two draws.
LEMMA SnapKeeps ==
    ASSUME SnapInv, UNCHANGED <<flip_count, submit_at, recorder, queue, captures, shown>>, IsFcn(shadow_regs')
    PROVE  SnapInv'
BY DEF SnapInv, SnapTypeOK, FrameRecorded, FramesCaptured, TokenLast

LEMMA WriteReg_Snap ==
    ASSUME SnapInv, NEW r, NEW v, write_reg(r, v)
    PROVE  SnapInv'
<1>1. IsFcn(shadow_regs')
  BY DEF write_reg, IsFcn
<1> QED BY <1>1, SnapKeeps DEF write_reg

LEMMA Quiet_Snap ==
    ASSUME SnapInv, (\E n : request(n)) \/ clear_banks \/ (\E a : NewCode(a))
    PROVE  SnapInv'
<1>1. IsFcn(shadow_regs')
  <2>1. IsFcn(<<>>)
    BY DEF IsFcn
  <2> QED BY <2>1 DEF SnapInv, SnapTypeOK, request, clear_banks, NewCode
<1> QED BY <1>1, SnapKeeps DEF request, clear_banks, NewCode

\* No file is called as the token is.
Files(F) == \A f \in F : f[1] # "flush"

LEMMA FilesJoin ==
    ASSUME NEW F, NEW G, Files(F), Files(G)
    PROVE  Files(F \cup G)
BY DEF Files

LEMMA FilesNotToken ==
    ASSUME NEW F, Files(F)
    PROVE  F # FlushToken
<1>1. <<"flush">>[1] = "flush"
  OBVIOUS
<1> QED BY <1>1 DEF Files, FlushToken

LEMMA ShaderFilesFiles ==
    ASSUME NEW a
    PROVE  Files(ShaderFiles(a)) /\ Files(dump_shader(a).files)
<1>1. \A b : <<"spv", b>>[1] # "flush" /\ <<"txt", b>>[1] # "flush" /\ <<"sb", b>>[1] # "flush"
  OBVIOUS
<1>2. Files(ShaderFiles(a))
  BY <1>1 DEF Files, ShaderFiles
<1>3. dump_shader(a).files = {} \/ dump_shader(a).files = ShaderFiles(a)
  BY DEF dump_shader
<1> QED BY <1>2, <1>3 DEF Files

LEMMA TextureFilesFiles ==
    ASSUME NEW texel, NEW layout
    PROVE  Files(dump_texture(texel, layout).files)
<1> DEFINE linear == {<<"detiled", texel, layout>>} \cup (IF layout \in Narrow THEN {} ELSE {<<"png", texel, layout>>})
<1>1. dump_texture(texel, layout).files
        = (IF texel \in recorder.textures THEN {} ELSE {<<"raw", texel>>})
          \cup (IF layout \in Undetilable \/ <<texel, layout>> \in recorder.detiled THEN {} ELSE linear)
  BY DEF dump_texture
<1>2. Files(linear)
  BY DEF Files
<1>3. Files({<<"raw", texel>>}) /\ Files({})
  BY DEF Files
<1> HIDE DEF linear
<1> QED BY <1>1, <1>2, <1>3 DEF Files

LEMMA TargetFilesFiles ==
    ASSUME NEW base
    PROVE  Files(request_rt_dump(base))
<1>1. RtFile(base)[1] # "flush"
  BY DEF RtFile
<1> QED BY <1>1 DEF Files, request_rt_dump

\* A batch of files goes to the writer while a frame runs.
LEMMA EnqueueToken ==
    ASSUME SnapInv, NEW F, Files(F), Enqueue(F), submit_at = "frame", UNCHANGED submit_at
    PROVE  TokenLast'
<1>1. Listed(queue) /\ \A i \in 1..Len(queue) : queue[i] # FlushToken
  BY DEF SnapInv, TokenLast
<1>2. CASE queue' = queue
  BY <1>1, <1>2 DEF TokenLast
<1>3. CASE queue' = Append(queue, F)
  <2>1. /\ Listed(queue') /\ Len(queue) \in Nat /\ Len(queue') = Len(queue) + 1
        /\ \A i \in 1..Len(queue) : queue'[i] = queue[i]
        /\ queue'[Len(queue) + 1] = F
    BY <1>1, <1>3, AppendIs
  <2>2. ASSUME NEW i \in 1..Len(queue') PROVE queue'[i] # FlushToken
    <3>1. CASE i = Len(queue) + 1
      BY <2>1, <3>1, FilesNotToken
    <3>2. CASE i \in 1..Len(queue)
      BY <1>1, <2>1, <3>2
    <3> QED BY <2>1, <3>1, <3>2
  <2> QED BY <2>1, <2>2 DEF TokenLast
<1> QED BY <1>2, <1>3 DEF Enqueue

\* An event of the frame that runs touches no other frame.
LEMMA HappenedKeeps ==
    ASSUME SnapInv, NEW e, Happened(e), submit_at = "frame",
           UNCHANGED <<shadow_regs, flip_count, submit_at, captures>>, IsRecorder(recorder')
    PROVE  /\ SnapTypeOK' /\ FramesCaptured'
           /\ shown'[flip_count] = Append(shown[flip_count], e) /\ Listed(shown[flip_count])
<1>1. /\ flip_count \in Nat /\ shown = [f \in 0..flip_count |-> shown[f]]
      /\ \A f \in 0..flip_count : Listed(shown[f])
  BY DEF SnapInv, SnapTypeOK
<1>2. flip_count \in 0..flip_count
  BY <1>1
<1>3. /\ shown' = [f \in 0..flip_count |-> shown'[f]]
      /\ shown'[flip_count] = Append(shown[flip_count], e)
      /\ \A f \in 0..flip_count : f # flip_count => shown'[f] = shown[f]
  BY <1>1, <1>2 DEF Happened
<1>4. Listed(shown'[flip_count])
  BY <1>1, <1>2, <1>3, AppendIs
<1>5. \A f \in 0..flip_count : Listed(shown'[f])
  BY <1>1, <1>3, <1>4
<1>6. SnapTypeOK'
  BY <1>1, <1>3, <1>5 DEF SnapInv, SnapTypeOK
<1>7. ASSUME NEW f \in DOMAIN captures
      PROVE  /\ f \in Nat /\ f + 1 <= flip_count /\ f + 1 # flip_count
             /\ \E prev : Records(captures[f].draws, captures[f].deferred, shown'[f + 1], prev)
  <2>1. /\ f \in Nat /\ f + 1 <= flip_count /\ f + 1 # flip_count
        /\ \E prev : Records(captures[f].draws, captures[f].deferred, shown[f + 1], prev)
    BY <1>7 DEF SnapInv, FramesCaptured
  <2>2. shown'[f + 1] = shown[f + 1]
    BY <1>1, <1>3, <2>1
  <2> QED BY <2>1, <2>2
<1>8. FramesCaptured'
  BY <1>7 DEF FramesCaptured
<1> QED BY <1>1, <1>2, <1>3, <1>6, <1>8

LEMMA RecordDraw_Snap ==
    ASSUME SnapInv, NEW vs, NEW ps, NEW base, NEW sampled, record_draw(vs, ps, base, sampled)
    PROVE  SnapInv'
<1> DEFINE e == [draw |-> TRUE, regs |-> shadow_regs]
           tex == IF sampled = <<>> THEN {} ELSE {dump_texture(sampled[1], sampled[2])}
           v == dump_shader(vs)
           p == dump_shader(ps)
           d == [reg_delta |-> delta(shadow_regs, recorder.prev_regs), vs |-> v.ref, ps |-> p.ref,
                 target_dump |-> target_dump_outcome(base), sampled |-> {t.ref : t \in tex}]
           F == request_rt_dump(base) \cup (UNION {t.files : t \in tex}) \cup v.files \cup p.files
<1>1. submit_at = "frame" /\ Happened(e) /\ UNCHANGED <<shadow_regs, flip_count, submit_at, captures>>
  BY DEF record_draw, Room
<1>2. e.draw = TRUE /\ e.regs = shadow_regs
  OBVIOUS
<1>3. d.reg_delta = delta(shadow_regs, recorder.prev_regs)
  OBVIOUS
<1>4. IsRecorder(recorder) /\ IsFcn(shadow_regs)
  BY DEF SnapInv, SnapTypeOK
<1>5. CASE ~recorder.armed
  <2>1. UNCHANGED <<recorder, queue>>
    BY <1>5 DEF record_draw
  <2>2. SnapTypeOK' /\ FramesCaptured'
    <3> HIDE DEF e
    <3> QED BY <1>1, <1>4, <2>1, HappenedKeeps
  <2>3. FrameRecorded' /\ TokenLast'
    BY <1>1, <1>5, <2>1 DEF SnapInv, FrameRecorded, TokenLast
  <2> QED BY <2>2, <2>3 DEF SnapInv
<1>6. CASE recorder.armed
  <2>1. Enqueue(F)
    BY <1>6 DEF record_draw
  <2>2. /\ IsRecorder(recorder') /\ recorder'.armed = recorder.armed /\ recorder'.frame = recorder.frame
        /\ recorder'.draws = Append(recorder.draws, d) /\ recorder'.deferred = recorder.deferred
        /\ recorder'.prev_regs = shadow_regs
    <3> DEFINE x1 == recorder.shaders \cup {vs, ps}
               x2 == recorder.with_sb \cup ({vs, ps} \ (recorder.shaders \cup Unreadable))
               x3 == recorder.rt_dumps \cup ({base} \cap RtBases)
               x4 == IF sampled = <<>> THEN recorder.textures ELSE recorder.textures \cup {sampled[1]}
               x5 == IF sampled = <<>> \/ sampled[2] \in Undetilable THEN recorder.detiled ELSE recorder.detiled \cup {sampled}
    <3>1. recorder' = [recorder EXCEPT !.draws = Append(recorder.draws, d), !.prev_regs = shadow_regs, !.shaders = x1,
                           !.with_sb = x2, !.rt_dumps = x3, !.textures = x4, !.detiled = x5]
      BY <1>6 DEF record_draw
    <3> HIDE DEF d, x1, x2, x3, x4, x5
    <3>2. recorder' = [armed |-> recorder.armed, frame |-> recorder.frame, draws |-> Append(recorder.draws, d),
                       deferred |-> recorder.deferred, prev_regs |-> shadow_regs, shaders |-> x1, with_sb |-> x2,
                       rt_dumps |-> x3, textures |-> x4, detiled |-> x5]
      BY <1>4, <3>1 DEF IsRecorder
    <3> QED BY <3>2 DEF IsRecorder
  <2> HIDE DEF d, e
  <2>3. Files(F)
    <3>1. Files(v.files) /\ Files(p.files) /\ Files(request_rt_dump(base))
      BY ShaderFilesFiles, TargetFilesFiles
    <3>2. \A t \in tex : Files(t.files)
      BY TextureFilesFiles
    <3> HIDE DEF v, p, tex
    <3>3. Files(UNION {t.files : t \in tex})
      BY <3>2 DEF Files
    <3> QED BY <3>1, <3>3, FilesJoin
  <2> HIDE DEF F
  <2>4. TokenLast'
    BY <1>1, <2>1, <2>3, EnqueueToken
  <2>5. /\ SnapTypeOK' /\ FramesCaptured'
        /\ shown'[flip_count] = Append(shown[flip_count], e)
    BY <1>1, <2>2, HappenedKeeps
  <2>6. /\ recorder.frame \in Nat /\ flip_count = recorder.frame + 1
        /\ Records(recorder.draws, recorder.deferred, shown[flip_count], recorder.prev_regs)
    BY <1>6 DEF SnapInv, FrameRecorded
  <2>7. Records(Append(recorder.draws, d), recorder.deferred, Append(shown[flip_count], e), shadow_regs)
    BY <1>2, <1>3, <1>4, <2>6, DrawRecorded
  <2>8. FrameRecorded'
    BY <1>1, <2>2, <2>5, <2>6, <2>7 DEF FrameRecorded
  <2> QED BY <2>4, <2>5, <2>8 DEF SnapInv
<1> QED BY <1>5, <1>6

LEMMA RecordDeferred_Snap ==
    ASSUME SnapInv, NEW a, record_deferred_gcn(a)
    PROVE  SnapInv'
<1> DEFINE e == [draw |-> FALSE, regs |-> shadow_regs]
           d == [after_draw |-> Len(recorder.draws), shader |-> a]
           F == IF a \in recorder.shaders THEN {} ELSE ShaderFiles(a) \ {<<"spv", a>>}
<1>1. submit_at = "frame" /\ Happened(e) /\ UNCHANGED <<shadow_regs, flip_count, submit_at, captures>>
  BY DEF record_deferred_gcn, Room
<1>2. e.draw = FALSE /\ d.after_draw = Len(recorder.draws)
  OBVIOUS
<1>3. IsRecorder(recorder)
  BY DEF SnapInv, SnapTypeOK
<1>4. CASE ~recorder.armed
  <2>1. UNCHANGED <<recorder, queue>>
    BY <1>4 DEF record_deferred_gcn
  <2>2. SnapTypeOK' /\ FramesCaptured'
    <3> HIDE DEF e
    <3> QED BY <1>1, <1>3, <2>1, HappenedKeeps
  <2>3. FrameRecorded' /\ TokenLast'
    BY <1>1, <1>4, <2>1 DEF SnapInv, FrameRecorded, TokenLast
  <2> QED BY <2>2, <2>3 DEF SnapInv
<1>5. CASE recorder.armed
  <2>1. Enqueue(F)
    BY <1>5 DEF record_deferred_gcn
  <2>2. /\ IsRecorder(recorder') /\ recorder'.armed = recorder.armed /\ recorder'.frame = recorder.frame
        /\ recorder'.draws = recorder.draws /\ recorder'.deferred = Append(recorder.deferred, d)
        /\ recorder'.prev_regs = recorder.prev_regs
    <3> DEFINE x1 == recorder.shaders \cup {a}
               x2 == recorder.with_sb \cup ({a} \ (recorder.shaders \cup Unreadable))
    <3>1. recorder' = [recorder EXCEPT !.deferred = Append(recorder.deferred, d), !.shaders = x1, !.with_sb = x2]
      BY <1>5 DEF record_deferred_gcn
    <3> HIDE DEF d, x1, x2
    <3>2. recorder' = [armed |-> recorder.armed, frame |-> recorder.frame, draws |-> recorder.draws,
                       deferred |-> Append(recorder.deferred, d), prev_regs |-> recorder.prev_regs, shaders |-> x1,
                       with_sb |-> x2, rt_dumps |-> recorder.rt_dumps, textures |-> recorder.textures, detiled |-> recorder.detiled]
      BY <1>3, <3>1 DEF IsRecorder
    <3> QED BY <3>2 DEF IsRecorder
  <2> HIDE DEF d, e
  <2>3. Files(F)
    BY ShaderFilesFiles DEF Files
  <2> HIDE DEF F
  <2>4. TokenLast'
    BY <1>1, <2>1, <2>3, EnqueueToken
  <2>5. /\ SnapTypeOK' /\ FramesCaptured'
        /\ shown'[flip_count] = Append(shown[flip_count], e)
    BY <1>1, <2>2, HappenedKeeps
  <2>6. /\ recorder.frame \in Nat /\ flip_count = recorder.frame + 1
        /\ Records(recorder.draws, recorder.deferred, shown[flip_count], recorder.prev_regs)
    BY <1>5 DEF SnapInv, FrameRecorded
  <2>7. Records(recorder.draws, Append(recorder.deferred, d), Append(shown[flip_count], e), recorder.prev_regs)
    BY <1>2, <2>6, DeferredRecorded DEF d, e
  <2>8. FrameRecorded'
    BY <1>1, <2>2, <2>5, <2>6, <2>7 DEF FrameRecorded
  <2> QED BY <2>4, <2>5, <2>8 DEF SnapInv
<1> QED BY <1>4, <1>5

\* The frame is over: what the recorder has becomes its capture.
LEMMA WriteCapture_Snap ==
    ASSUME SnapInv, NEW ok, write_capture(ok)
    PROVE  SnapInv'
<1>1. /\ submit_at = "frame" /\ submit_at' = "claim"
      /\ recorder' = [recorder EXCEPT !.armed = FALSE, !.draws = <<>>, !.deferred = <<>>]
      /\ captures' = IF recorder.armed /\ ok THEN [f \in DOMAIN captures \cup {recorder.frame} |->
                          IF f = recorder.frame THEN draws_json(recorder) ELSE captures[f]] ELSE captures
      /\ UNCHANGED <<shadow_regs, flip_count, queue, shown>>
  BY DEF write_capture
<1>2. IsRecorder(recorder') /\ recorder'.armed = FALSE
  <2>1. recorder' = [armed |-> FALSE, frame |-> recorder.frame, draws |-> <<>>, deferred |-> <<>>,
                     prev_regs |-> recorder.prev_regs, shaders |-> recorder.shaders, with_sb |-> recorder.with_sb,
                     rt_dumps |-> recorder.rt_dumps, textures |-> recorder.textures, detiled |-> recorder.detiled]
    BY <1>1 DEF SnapInv, SnapTypeOK, IsRecorder
  <2> QED BY <2>1 DEF IsRecorder
<1>3. IsFcn(captures')
  BY <1>1 DEF SnapInv, SnapTypeOK, IsFcn
<1>4. SnapTypeOK'
  BY <1>1, <1>2, <1>3 DEF SnapInv, SnapTypeOK
<1>5. ASSUME NEW f \in DOMAIN captures'
      PROVE  /\ f \in Nat /\ f + 1 <= flip_count
             /\ \E prev : Records(captures'[f].draws, captures'[f].deferred, shown[f + 1], prev)
  <2>1. CASE f \in DOMAIN captures /\ captures'[f] = captures[f]
    BY <2>1 DEF SnapInv, FramesCaptured
  <2>2. CASE recorder.armed /\ f = recorder.frame /\ captures'[f] = draws_json(recorder)
    <3>1. /\ recorder.frame \in Nat /\ flip_count = recorder.frame + 1
          /\ Records(recorder.draws, recorder.deferred, shown[flip_count], recorder.prev_regs)
      BY <2>2 DEF SnapInv, FrameRecorded
    <3>2. Records(draws_json(recorder).draws, draws_json(recorder).deferred, shown[flip_count], recorder.prev_regs)
      BY <3>1, JsonRecords
    <3> QED BY <2>2, <3>1, <3>2
  <2> QED BY <1>1, <1>5, <2>1, <2>2
<1>6. FramesCaptured'
  BY <1>1, <1>5 DEF FramesCaptured
<1>7. FrameRecorded' /\ TokenLast'
  BY <1>1, <1>2 DEF SnapInv, FrameRecorded, TokenLast
<1> QED BY <1>4, <1>6, <1>7 DEF SnapInv

\* The next frame begins with no events.
LEMMA NextFrameKeeps ==
    ASSUME SnapInv, NextFrame, UNCHANGED <<shadow_regs, captures>>, IsRecorder(recorder')
    PROVE  SnapTypeOK' /\ FramesCaptured' /\ shown'[flip_count + 1] = <<>>
<1> DEFINE n == flip_count
<1>1. /\ n \in Nat /\ DOMAIN shown = 0..n /\ \A f \in 0..n : Listed(shown[f])
  BY DEF SnapInv, SnapTypeOK
<1>2. /\ flip_count' = n + 1 /\ submit_at' = "frame"
      /\ shown' = [f \in 0..n \cup {n + 1} |-> IF f = n + 1 THEN <<>> ELSE shown[f]]
  BY <1>1 DEF NextFrame
<1>3. 0..n \cup {n + 1} = 0..n + 1
  BY <1>1
<1>4. /\ shown' = [f \in 0..n + 1 |-> shown'[f]] /\ shown'[n + 1] = <<>>
      /\ \A f \in 0..n : shown'[f] = shown[f]
  BY <1>1, <1>2, <1>3
<1>5. Listed(<<>>)
  <2>1. <<>> \in Seq({})
    OBVIOUS
  <2> QED BY <2>1 DEF Listed
<1>6. \A f \in 0..n + 1 : Listed(shown'[f])
  BY <1>1, <1>4, <1>5
<1>7. SnapTypeOK'
  <2>1. IsFcn(shadow_regs') /\ IsFcn(captures')
    BY DEF SnapInv, SnapTypeOK
  <2>2. flip_count' \in Nat
    BY <1>1, <1>2
  <2>3. shown' = [f \in 0..flip_count' |-> shown'[f]] /\ \A f \in 0..flip_count' : Listed(shown'[f])
    BY <1>2, <1>4, <1>6
  <2> QED BY <1>2, <2>1, <2>2, <2>3 DEF SnapTypeOK
<1>8. ASSUME NEW f \in DOMAIN captures
      PROVE  /\ f \in Nat /\ f + 1 <= n + 1 /\ f + 1 # n + 1
             /\ \E prev : Records(captures[f].draws, captures[f].deferred, shown'[f + 1], prev)
  <2>1. /\ f \in Nat /\ f + 1 <= n
        /\ \E prev : Records(captures[f].draws, captures[f].deferred, shown[f + 1], prev)
    BY <1>8 DEF SnapInv, FramesCaptured
  <2>2. shown'[f + 1] = shown[f + 1]
    BY <1>1, <1>4, <2>1
  <2> QED BY <1>1, <2>1, <2>2
<1>9. FramesCaptured'
  BY <1>2, <1>8 DEF FramesCaptured
<1> QED BY <1>4, <1>7, <1>9

LEMMA TakeFrame_Snap ==
    ASSUME SnapInv, take_frame
    PROVE  SnapInv'
<1>1. /\ submit_at = "claim" /\ recorder' = Armed /\ NextFrame
      /\ UNCHANGED <<shadow_regs, queue, captures>>
  BY DEF take_frame
<1>2. /\ IsRecorder(recorder') /\ recorder'.armed = TRUE /\ recorder'.frame = flip_count
      /\ recorder'.draws = <<>> /\ recorder'.deferred = <<>> /\ recorder'.prev_regs = <<>>
  <2>1. recorder' = [armed |-> TRUE, frame |-> flip_count, draws |-> <<>>, deferred |-> <<>>,
                     prev_regs |-> <<>>, shaders |-> recorder.shaders, with_sb |-> recorder.with_sb,
                     rt_dumps |-> {}, textures |-> recorder.textures, detiled |-> recorder.detiled]
    BY <1>1 DEF SnapInv, SnapTypeOK, IsRecorder, Armed
  <2> QED BY <2>1 DEF IsRecorder
<1>3. SnapTypeOK' /\ FramesCaptured' /\ shown'[flip_count + 1] = <<>>
  BY <1>1, <1>2, NextFrameKeeps
<1>4. submit_at' = "frame" /\ flip_count' = flip_count + 1 /\ flip_count \in Nat
  BY <1>1 DEF NextFrame, SnapInv, SnapTypeOK
<1>5. FrameRecorded'
  BY <1>2, <1>3, <1>4, NothingRecorded DEF FrameRecorded
<1>6. TokenLast'
  BY <1>1, <1>4 DEF SnapInv, TokenLast
<1> QED BY <1>3, <1>5, <1>6 DEF SnapInv

LEMMA NoFrame_Snap ==
    ASSUME SnapInv, no_frame
    PROVE  SnapInv'
<1>1. submit_at = "claim" /\ UNCHANGED <<shadow_regs, recorder, captures>>
  BY DEF no_frame
<1>2. ~recorder.armed /\ IsRecorder(recorder)
  BY <1>1 DEF SnapInv, FrameRecorded, SnapTypeOK
<1>3. FrameRecorded'
  BY <1>1, <1>2 DEF FrameRecorded
<1>4. Listed(queue) /\ \A i \in 1..Len(queue) : queue[i] # FlushToken
  BY <1>1 DEF SnapInv, TokenLast
<1>5. CASE wrote
  <2>1. submit_at' = "flush" /\ queue' = Append(queue, FlushToken) /\ UNCHANGED <<flip_count, shown>>
    BY <1>5 DEF no_frame
  <2>2. SnapTypeOK' /\ FramesCaptured'
    BY <1>1, <2>1 DEF SnapInv, SnapTypeOK, FramesCaptured
  <2>3. /\ Listed(queue') /\ Len(queue) \in Nat /\ Len(queue') = Len(queue) + 1
        /\ \A i \in 1..Len(queue) : queue'[i] = queue[i]
    BY <1>4, <2>1, AppendIs
  <2>4. ASSUME NEW i \in 1..Len(queue'), queue'[i] = FlushToken PROVE i = Len(queue')
    BY <1>4, <2>3, <2>4
  <2>5. TokenLast'
    BY <2>1, <2>3, <2>4 DEF TokenLast
  <2> QED BY <1>3, <2>2, <2>5 DEF SnapInv
<1>6. CASE ~wrote
  <2>1. NextFrame /\ UNCHANGED queue
    BY <1>6 DEF no_frame
  <2>2. SnapTypeOK' /\ FramesCaptured'
    BY <1>1, <1>2, <2>1, NextFrameKeeps
  <2>3. TokenLast'
    BY <1>4, <2>1 DEF TokenLast
  <2> QED BY <1>3, <2>2, <2>3 DEF SnapInv
<1> QED BY <1>5, <1>6

LEMMA TailIs ==
    ASSUME NEW s, Listed(s), s # <<>>
    PROVE  /\ Listed(Tail(s)) /\ Len(s) \in Nat /\ Len(s) >= 1 /\ Len(Tail(s)) = Len(s) - 1 /\ Head(s) = s[1]
           /\ \A i \in 1..Len(s) - 1 : Tail(s)[i] = s[i + 1]
<1>1. PICK S : s \in Seq(S)
  BY DEF Listed
<1>2. Tail(s) \in Seq(S)
  BY <1>1
<1>3. Listed(Tail(s))
  BY <1>2 DEF Listed
<1> QED BY <1>1, <1>3

LEMMA WriterFlush_Snap ==
    ASSUME SnapInv, writer_flush
    PROVE  SnapInv'
<1>1. /\ queue # <<>> /\ Head(queue) = FlushToken /\ queue' = Tail(queue) /\ NextFrame
      /\ UNCHANGED <<shadow_regs, recorder, captures>>
  BY DEF writer_flush
<1>2. /\ Listed(queue') /\ Len(queue) \in Nat /\ Len(queue) >= 1 /\ Len(queue') = Len(queue) - 1
      /\ queue[1] = FlushToken
  BY <1>1, TailIs DEF SnapInv, TokenLast
<1>3. submit_at = "flush" /\ Len(queue) = 1
  BY <1>2 DEF SnapInv, TokenLast
<1>4. ~recorder.armed /\ IsRecorder(recorder)
  BY <1>3 DEF SnapInv, FrameRecorded, SnapTypeOK
<1>5. SnapTypeOK' /\ FramesCaptured'
  BY <1>1, <1>4, NextFrameKeeps
<1>6. TokenLast'
  BY <1>2, <1>3 DEF TokenLast
<1>7. FrameRecorded'
  BY <1>1, <1>4 DEF FrameRecorded
<1> QED BY <1>5, <1>6, <1>7 DEF SnapInv

LEMMA WriterFiles_Snap ==
    ASSUME SnapInv, NEW ok, writer_files(ok)
    PROVE  SnapInv'
<1>1. /\ queue # <<>> /\ queue' = Tail(queue)
      /\ UNCHANGED <<shadow_regs, flip_count, submit_at, recorder, captures, shown>>
  BY DEF writer_files
<1>2. /\ Listed(queue') /\ Len(queue) \in Nat /\ Len(queue) >= 1 /\ Len(queue') = Len(queue) - 1
      /\ \A i \in 1..Len(queue) - 1 : queue'[i] = queue[i + 1]
  BY <1>1, TailIs DEF SnapInv, TokenLast
<1>3. ASSUME NEW i \in 1..Len(queue'), queue'[i] = FlushToken
      PROVE  submit_at' = "flush" /\ i = Len(queue')
  <2>1. i + 1 \in 1..Len(queue) /\ queue[i + 1] = FlushToken
    BY <1>2, <1>3
  <2>2. submit_at = "flush" /\ i + 1 = Len(queue)
    BY <2>1 DEF SnapInv, TokenLast
  <2>3. i = Len(queue')
    BY <1>2, <2>2
  <2> QED BY <1>1, <2>2, <2>3
<1>4. TokenLast'
  BY <1>2, <1>3 DEF TokenLast
<1> QED BY <1>1, <1>4 DEF SnapInv, SnapTypeOK, FrameRecorded, FramesCaptured

----------------------------------------------------------------------------
LEMMA SnapInit_Snap ==
    ASSUME SnapInit
    PROVE  SnapInv
<1>1. IsFcn(<<>>) /\ Listed(<<>>) /\ DOMAIN <<>> = {} /\ Len(<<>>) = 0
  <2>1. <<>> \in Seq({})
    OBVIOUS
  <2> QED BY <2>1 DEF IsFcn, Listed
<1>2. IsRecorder(recorder) /\ ~recorder.armed
  BY DEF SnapInit, IsRecorder
<1>3. shown = [f \in 0..0 |-> shown[f]] /\ shown[0] = <<>>
  BY DEF SnapInit
<1>4. SnapTypeOK
  BY <1>1, <1>2, <1>3 DEF SnapInit, SnapTypeOK
<1> QED BY <1>1, <1>2, <1>4 DEF SnapInit, SnapInv, FrameRecorded, FramesCaptured, TokenLast

LEMMA SnapStutter ==
    ASSUME SnapInv, UNCHANGED snapVars
    PROVE  SnapInv'
BY DEF snapVars, SnapInv, SnapTypeOK, FrameRecorded, FramesCaptured, TokenLast

LEMMA SnapNext_Snap ==
    ASSUME SnapInv, [SnapNext]_snapVars
    PROVE  SnapInv'
<1>1. ASSUME NEW n \in {1, Burst}, request(n) PROVE SnapInv'
  BY <1>1, Quiet_Snap
<1>2. ASSUME NEW r \in SnapRegs, NEW v \in RegValues, write_reg(r, v) PROVE SnapInv'
  BY <1>2, WriteReg_Snap
<1>3. ASSUME clear_banks PROVE SnapInv'
  BY <1>3, Quiet_Snap
<1>4. ASSUME NEW a \in ShaderAddrs, NewCode(a) \/ record_deferred_gcn(a) PROVE SnapInv'
  BY <1>4, Quiet_Snap, RecordDeferred_Snap
<1>5. ASSUME NEW vs \in VertexShaders, NEW ps \in PixelShaders, NEW base \in RtBases \cup {0}, NEW s \in Sampled,
             record_draw(vs, ps, base, s)
      PROVE  SnapInv'
  BY <1>5, RecordDraw_Snap
<1>6. ASSUME NEW ok \in BOOLEAN, write_capture(ok) \/ writer_files(ok) PROVE SnapInv'
  BY <1>6, WriteCapture_Snap, WriterFiles_Snap
<1>7. ASSUME take_frame \/ no_frame \/ writer_flush PROVE SnapInv'
  BY <1>7, TakeFrame_Snap, NoFrame_Snap, WriterFlush_Snap
<1> QED BY <1>1, <1>2, <1>3, <1>4, <1>5, <1>6, <1>7, SnapStutter DEF SnapNext

\* A set of numbers has a least one.
LEMMA LeastBelow ==
    ASSUME NEW T, T \subseteq Nat, T # {}
    PROVE  \E x \in T : \A y \in T : x <= y
<1> DEFINE R == OpToRel(<, Nat)
<1>1. PICK x \in T : \A y \in T : <<y, x>> \notin R
  BY NatLessThanWellFounded, WFMin
<1>2. \A y \in T : ~(y < x)
  BY <1>1 DEF OpToRel
<1> HIDE DEF R
<1>3. \A y \in T : x <= y
  BY <1>2
<1> QED BY <1>3

\* There is one register file after each record, and one count of the draws.
LEMMA RebuiltIs ==
    ASSUME NEW f, NEW ds, Len(ds) \in Nat, Rebuilds(f, ds)
    PROVE  \A i \in 0..Len(ds) : Rebuilt(ds)[i] = f[i]
<1> DEFINE n == Len(ds)
           r == CHOOSE g : Rebuilds(g, ds)
           Bad == {i \in 0..n : r[i] # f[i]}
<1>1. Rebuilds(r, ds)
  OBVIOUS
<1>2. Rebuilt(ds) = r
  BY Zenon DEF Rebuilt, Rebuilds
<1> HIDE DEF r
<1>3. \A i \in 0..n : /\ f[i] = IF i = 0 THEN <<>> ELSE Apply(f[i - 1], ds[i].reg_delta)
                      /\ r[i] = IF i = 0 THEN <<>> ELSE Apply(r[i - 1], ds[i].reg_delta)
  BY <1>1 DEF Rebuilds
<1> HIDE DEF n
<1>4. ASSUME Bad # {} PROVE FALSE
  <2>1. Bad \subseteq Nat
    OBVIOUS
  <2>2. PICK x \in Bad : \A y \in Bad : x <= y
    <3> HIDE DEF Bad
    <3> QED BY <1>4, <2>1, LeastBelow
  <2>3. x \in 0..n /\ x # 0 /\ n \in Nat
    BY <1>3, <2>2 DEF n
  <2>4. x - 1 \in 0..n /\ x - 1 \notin Bad
    BY <2>2, <2>3
  <2>5. r[x - 1] = f[x - 1]
    BY <2>4
  <2> QED BY <1>3, <2>2, <2>3, <2>5
<1> QED BY <1>2, <1>4 DEF n

LEMMA DrawsAmongIs ==
    ASSUME NEW c, NEW es, Len(es) \in Nat, CountsDraws(c, es)
    PROVE  \A i \in 0..Len(es) : DrawsAmong(es)[i] = c[i]
<1> DEFINE n == Len(es)
           r == CHOOSE g : CountsDraws(g, es)
           Bad == {i \in 0..n : r[i] # c[i]}
<1>1. CountsDraws(r, es)
  OBVIOUS
<1>2. DrawsAmong(es) = r
  BY Zenon DEF DrawsAmong, CountsDraws
<1> HIDE DEF r
<1>3. \A i \in 0..n : /\ c[i] = IF i = 0 THEN 0 ELSE c[i - 1] + (IF es[i].draw THEN 1 ELSE 0)
                      /\ r[i] = IF i = 0 THEN 0 ELSE r[i - 1] + (IF es[i].draw THEN 1 ELSE 0)
  BY <1>1 DEF CountsDraws
<1> HIDE DEF n
<1>4. ASSUME Bad # {} PROVE FALSE
  <2>1. Bad \subseteq Nat
    OBVIOUS
  <2>2. PICK x \in Bad : \A y \in Bad : x <= y
    <3> HIDE DEF Bad
    <3> QED BY <1>4, <2>1, LeastBelow
  <2>3. x \in 0..n /\ x # 0 /\ n \in Nat
    BY <1>3, <2>2 DEF n
  <2>4. x - 1 \in 0..n /\ x - 1 \notin Bad
    BY <2>2, <2>3
  <2>5. r[x - 1] = c[x - 1]
    BY <2>4
  <2> QED BY <1>3, <2>2, <2>3, <2>5
<1> QED BY <1>2, <1>4 DEF n

LEMMA SnapInv_Captures ==
    ASSUME SnapInv
    PROVE  CaptureRebuildsFrame
<1> SUFFICES ASSUME NEW k \in DOMAIN captures
             PROVE  LET c == captures[k]
                        es == shown[k + 1]
                        drawn == DrawsAmong(es)
                    IN  /\ Len(c.draws) = drawn[Len(es)]
                        /\ Len(c.deferred) = Len(es) - drawn[Len(es)]
                        /\ \A i \in DOMAIN es :
                               IF es[i].draw THEN Rebuilt(c.draws)[drawn[i]] = es[i].regs
                               ELSE c.deferred[i - drawn[i]].after_draw = drawn[i]
  BY DEF CaptureRebuildsFrame
<1> DEFINE ds == captures[k].draws
           df == captures[k].deferred
           es == shown[k + 1]
<1>1. PICK prev : Records(ds, df, es, prev)
  BY DEF SnapInv, FramesCaptured
<1> HIDE DEF ds, df, es
<1>2. PICK f, c : /\ Rebuilds(f, ds)
                  /\ CountsDraws(c, es) /\ c[Len(es)] = Len(ds)
                  /\ Len(df) = Len(es) - Len(ds)
                  /\ \A i \in 1..Len(es) : Recorded(f, Len(ds), df, es[i], i, c[i])
  BY <1>1 DEF Records
<1>3. Len(ds) \in Nat /\ Len(es) \in Nat /\ DOMAIN es = 1..Len(es)
  BY <1>1 DEF Records, Listed
<1>4. \A i \in 0..Len(ds) : Rebuilt(ds)[i] = f[i]
  BY <1>2, <1>3, RebuiltIs
<1>5. \A i \in 0..Len(es) : DrawsAmong(es)[i] = c[i]
  BY <1>2, <1>3, DrawsAmongIs
<1>6. DrawsAmong(es)[Len(es)] = Len(ds)
  BY <1>2, <1>3, <1>5
<1>7. ASSUME NEW i \in DOMAIN es
      PROVE  IF es[i].draw THEN Rebuilt(ds)[DrawsAmong(es)[i]] = es[i].regs
             ELSE df[i - DrawsAmong(es)[i]].after_draw = DrawsAmong(es)[i]
  <2>1. i \in 1..Len(es) /\ i \in 0..Len(es)
    BY <1>3
  <2>2. DrawsAmong(es)[i] = c[i] /\ Recorded(f, Len(ds), df, es[i], i, c[i])
    BY <1>2, <1>5, <2>1
  <2>3. c[i] \in 1..Len(ds) => Rebuilt(ds)[c[i]] = f[c[i]]
    BY <1>3, <1>4
  <2> QED BY <2>2, <2>3 DEF Recorded
<1> QED BY <1>2, <1>6, <1>7 DEF ds, df, es

\* A capture is one whole frame, whatever is requested when and whichever
\* writes fail: a record for every draw between the flip that armed it and the
\* next, in order, and register deltas that add up to the file each draw ran
\* with (gnm/src/snapshot.rs:on_frame_boundary, RegSnapshot::delta).
THEOREM CapturesRebuild == SnapSpec => []CaptureRebuildsFrame
<1>1. SnapInit => SnapInv
  BY SnapInit_Snap
<1>2. SnapInv /\ [SnapNext]_snapVars => SnapInv'
  BY SnapNext_Snap
<1>3. SnapInv => CaptureRebuildsFrame
  BY SnapInv_Captures
<1> QED BY <1>1, <1>2, <1>3, PTL DEF SnapSpec

=============================================================================
