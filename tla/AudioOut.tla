------------------------------ MODULE AudioOut ------------------------------
(***************************************************************************)
(* Audio output, crates/libs/src/libscaudioout/mod.rs: guest threads push  *)
(* the grains of their ports into one ring of interleaved stereo samples,  *)
(* the host device's callback drains it, and a call of sceAudioOutOutput   *)
(* is held back until the device, or a clock, has caught up.               *)
(*                                                                         *)
(* A sample is the channel it was made for; its value, the gain and the    *)
(* WAV dump are left out.  The device asks for whole stereo frames.        *)
(***************************************************************************)
EXTENDS Integers, Sequences, FiniteSets

CONSTANTS
    AudioThreads, \* guest threads
    Rates,        \* sample rates a port may be opened with; 0 is none
    AUDIO_RATE,   \* the host stream's
    GRAIN,        \* frames of a grain
    RING_CAP,     \* samples the ring keeps
    PREFILL,      \* samples the callback waits for after an underrun
    DeviceFrames, \* frames a callback asks for
    Patience,     \* periods a call waits for the ring to drain (4)
    MaxPorts,     \* ports opened (a bound for TLC)
    AudioTime     \* host time explored, in grain periods (a bound for TLC)

ASSUME AudioAssumption ==
    /\ RING_CAP \in Nat /\ RING_CAP % 2 = 0 /\ PREFILL \in Nat /\ AUDIO_RATE \in Nat \ {0}
    /\ Rates \subseteq Nat /\ GRAIN \in Nat /\ DeviceFrames \in Nat /\ Patience \in Nat

VARIABLES
    ports,        \* PORTS: handle to sample rate, for the open ports
    next_port,    \* NEXT_HANDLE
    resamplers,   \* RESAMPLERS: handle to the fraction left over
    deadlines,    \* DEADLINES: handle to the time its next grain is due
    ring,         \* RING
    primed,       \* PRIMED
    sink_ok,      \* HOST_SINK_OK
    audio_now,    \* host time in grain periods
    out           \* out[t]: the call of sceAudioOutOutput thread t is in

audioVars == <<ports, next_port, resamplers, deadlines, ring, primed, sink_ok, audio_now, out>>

NoCall == [at |-> "idle", port |-> 0, rate |-> 0, due |-> 0]
Extend(f, h, v) == [x \in DOMAIN f \cup {h} |-> IF x = h THEN v ELSE f[x]]
Drop(f, h) == [x \in DOMAIN f \ {h} |-> f[x]]
\* n stereo frames, interleaved.
Frames(n) == [i \in 1..2 * n |-> IF i % 2 = 1 THEN "L" ELSE "R"]

sce_audio_out_open(rate) ==
    /\ next_port <= MaxPorts
    /\ ports' = Extend(ports, next_port, rate) /\ next_port' = next_port + 1
    /\ UNCHANGED <<resamplers, deadlines, ring, primed, sink_ok, audio_now, out>>

\* Three maps, each under a lock of its own; a call of another thread for the
\* same port may be anywhere.
sce_audio_out_close(h) ==
    /\ h \in DOMAIN ports
    /\ ports' = Drop(ports, h)
    /\ deadlines' = Drop(deadlines, h)
    /\ resamplers' = Drop(resamplers, h)
    /\ UNCHANGED <<next_port, ring, primed, sink_ok, audio_now, out>>

\* sceAudioOutOutput copies the port's parameters; sceAudioOutOutputs is one
\* such call after the other.
sce_audio_out_output(t, h) ==
    /\ out[t].at = "idle" /\ h \in DOMAIN ports
    /\ out' = [out EXCEPT ![t] = [at |-> "push", port |-> h, rate |-> ports[h], due |-> 0]]
    /\ UNCHANGED <<ports, next_port, resamplers, deadlines, ring, primed, sink_ok, audio_now>>

(***************************************************************************)
(* push_to_host.  resample_into emits, for each input frame, an output     *)
(* frame for every step of the fraction below one.                         *)
(***************************************************************************)
Fraction(h) == IF h \in DOMAIN resamplers THEN resamplers[h] ELSE 0

\* How many output frames n input frames make, from fraction f.
OutFrames(f, rate, n) == IF f >= n * AUDIO_RATE THEN 0 ELSE (n * AUDIO_RATE - f + rate - 1) \div rate

Resampled(h, rate) ==
    LET f == Fraction(h)
        n == OutFrames(f, rate, GRAIN)
    IN [frames |-> n, left |-> f + n * rate - GRAIN * AUDIO_RATE]

\* The bound tested one sample too early.
TrimShort(s) == IF Len(s) >= RING_CAP THEN SubSeq(s, Len(s) - RING_CAP + 2, Len(s)) ELSE s
\* while guard.len() > RING_CAP { pop_front }
Trim(s) == IF Len(s) > RING_CAP THEN SubSeq(s, Len(s) - RING_CAP + 1, Len(s)) ELSE s

push_to_host(t) ==
    /\ out[t].at = "push"
    /\ LET h == out[t].port
           rate == out[t].rate
       IN IF rate \in {0, AUDIO_RATE}
          THEN ring' = Trim(ring \o Frames(GRAIN)) /\ UNCHANGED resamplers
          ELSE /\ ring' = Trim(ring \o Frames(Resampled(h, rate).frames))
               /\ resamplers' = Extend(resamplers, h, Resampled(h, rate).left)
    /\ out' = [out EXCEPT ![t] = IF @.rate = 0 THEN NoCall ELSE [@ EXCEPT !.at = "pace"]]
    /\ UNCHANGED <<ports, next_port, deadlines, primed, sink_ok, audio_now>>

(***************************************************************************)
(* Pacing: by the ring's length while the device drains it, for a while at *)
(* most; by the port's deadline when there is no device.                   *)
(***************************************************************************)
pace_start(t) ==
    /\ out[t].at = "pace"
    /\ IF sink_ok
       THEN out' = [out EXCEPT ![t].at = "drain", ![t].due = audio_now + Patience] /\ UNCHANGED deadlines
       ELSE LET h == out[t].port
                d == IF h \in DOMAIN deadlines /\ deadlines[h] > audio_now THEN deadlines[h] ELSE audio_now
            IN /\ deadlines' = Extend(deadlines, h, d + 1)
               /\ out' = [out EXCEPT ![t].at = "sleep", ![t].due = d]
    /\ UNCHANGED <<ports, next_port, resamplers, ring, primed, sink_ok, audio_now>>

pace_end(t) ==
    /\ \/ out[t].at = "drain" /\ (Len(ring) <= PREFILL + 2 * GRAIN \/ audio_now > out[t].due)
       \/ out[t].at = "sleep" /\ audio_now >= out[t].due
    /\ out' = [out EXCEPT ![t] = NoCall]
    /\ UNCHANGED <<ports, next_port, resamplers, deadlines, ring, primed, sink_ok, audio_now>>

(***************************************************************************)
(* The host: the stream opens (or never does), the callback drains, time   *)
(* passes.  An underrun takes what is left and waits for PREFILL again.    *)
(***************************************************************************)
host_stream ==
    /\ ~sink_ok /\ next_port > 1
    /\ sink_ok' = TRUE
    /\ UNCHANGED <<ports, next_port, resamplers, deadlines, ring, primed, audio_now, out>>

drain_primed ==
    /\ sink_ok
    /\ primed \/ Len(ring) >= PREFILL
    /\ LET n == 2 * DeviceFrames
       IN IF Len(ring) >= n
          THEN ring' = SubSeq(ring, n + 1, Len(ring)) /\ primed' = TRUE
          ELSE ring' = <<>> /\ primed' = FALSE
    /\ UNCHANGED <<ports, next_port, resamplers, deadlines, sink_ok, audio_now, out>>

AudioTick ==
    /\ audio_now < AudioTime
    /\ audio_now' = audio_now + 1
    /\ UNCHANGED <<ports, next_port, resamplers, deadlines, ring, primed, sink_ok, out>>

AudioInit ==
    /\ ports = <<>> /\ next_port = 1
    /\ resamplers = <<>> /\ deadlines = <<>>
    /\ ring = <<>> /\ primed = FALSE /\ sink_ok = FALSE /\ audio_now = 0
    /\ out = [t \in AudioThreads |-> NoCall]

AudioNext ==
    \/ \E r \in Rates : sce_audio_out_open(r)
    \/ \E h \in 1..MaxPorts : sce_audio_out_close(h) \/ \E t \in AudioThreads : sce_audio_out_output(t, h)
    \/ \E t \in AudioThreads : push_to_host(t) \/ pace_start(t) \/ pace_end(t)
    \/ host_stream \/ drain_primed \/ AudioTick

AudioSpec == AudioInit /\ [][AudioNext]_audioVars

-----------------------------------------------------------------------------
\* The device plays left samples left: however grains of several ports and
\* rates are appended, trimmed from the front at the ring's limit and drained,
\* in an underrun too, the ring begins with a left sample and alternates.
StereoAligned ==
    \A i \in 1..Len(ring) : ring[i] = IF i % 2 = 1 THEN "L" ELSE "R"
=============================================================================
