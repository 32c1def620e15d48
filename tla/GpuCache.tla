------------------------------ MODULE GpuCache ------------------------------
(***************************************************************************)
(* The cache of guest memory ranges as GPU resources: ResourceCache of     *)
(* crates/gnm/src/cache/mod.rs, the dirty source it polls                  *)
(* (crates/core/src/dirty.rs), the submit that runs it under the driver    *)
(* lock (crates/libs/src/libscegnmdriver/submit.rs), the sink that tells   *)
(* it of unmapped memory (crates/gnm/src/free_sink.rs) and the display     *)
(* thread's replay of the commands it emits (crates/gpu/src/backend.rs).   *)
(*                                                                         *)
(* Of memory the model keeps a version per cell, of a GPU resource the     *)
(* versions it was uploaded with.  A key is [lo, hi, layout]: the cells    *)
(* lo..hi seen as that layout.  Imports are off, as in the default policy. *)
(***************************************************************************)
EXTENDS Naturals, FiniteSets, Sequences, SequencesExt

CONSTANTS
    Keys,          \* the ranges the guest's draws bind
    Cells,         \* guest memory, 0..n
    CellsPerPage,  \* granularity of the dirty source and of munmap
    Budget,        \* BUFFER_BUDGET_BYTES
    UnmapPages, AcquirePages,  \* pages the guest unmaps, and names in ACQUIRE_MEM
    RacyFill,      \* may the guest write a range while it is being filled?
    MaxWrites, MaxFlips, MaxId, MaxGets, MaxSubmits, MaxUnmaps   \* bounds

PageOf(c) == c \div CellsPerPage
Pages == {PageOf(c) : c \in Cells}
PageCells(p) == {c \in Cells : PageOf(c) = p}
Extent(k) == k.lo..k.hi
Size(k) == k.hi - k.lo + 1
PagesOf(k) == {PageOf(c) : c \in Extent(k)}

ASSUME CacheAssumption ==
    /\ Cells \subseteq Nat /\ IsFiniteSet(Cells)
    /\ UnmapPages \subseteq Pages /\ AcquirePages \subseteq Pages
    /\ CellsPerPage \in Nat \ {0} /\ Budget \in Nat /\ RacyFill \in BOOLEAN
    /\ {MaxWrites, MaxFlips, MaxId, MaxGets, MaxSubmits, MaxUnmaps} \subseteq Nat
    /\ \A k \in Keys : k.lo \in Nat /\ k.hi \in Nat /\ k.lo <= k.hi /\ Extent(k) \subseteq Cells

VARIABLES
    mem,          \* version of each cell
    mapped,       \* pages the guest has mapped
    watched,      \* pages the dirty source records writes to
    dirtied,      \* pages written since the last take_dirty
    flips,        \* clock::flip_count
    entries,      \* ResourceCache.entries, with the versions last uploaded
    next_id, trimmed_flip, buffer_bytes,
    submit,       \* the submitting thread: where it is and its command list
    sink,         \* the thread in munmap: where it is, its page and list
    channel,      \* lists sent to the display thread, oldest first
    gpu,          \* the backend's resources, by id
    passes,       \* what the draws of the last replayed list read
    submits, unmaps

cacheVars == <<entries, next_id, trimmed_flip, buffer_bytes>>
pageVars == <<mem, mapped>>
dirtyVars == <<watched, dirtied>>
backendVars == <<gpu, passes>>
resourceVars == <<pageVars, dirtyVars, flips, cacheVars, submit, sink, channel, backendVars, submits, unmaps>>

is_linear_buffer(layout) == layout \in {"VertexBuf", "IndexBuf", "ConstBuf"}
watch_pays(layout) == layout \notin {"VertexBuf", "ConstBuf"}
IsRt(k) == k.layout = "RenderTarget"
ranges_overlap(k, cells) == Extent(k) \cap cells # {}

Nothing == [c \in Cells |-> 0]           \* a resource nothing was uploaded to
Readable(k) == PagesOf(k) \subseteq mapped
Copy(k) == [c \in Cells |-> IF c \in Extent(k) THEN mem[c] ELSE 0]
Without(f, S) == [x \in DOMAIN f \ S |-> f[x]]
With(f, x, v) == [y \in DOMAIN f \cup {x} |-> IF y = x THEN v ELSE f[y]]
TotalSize(S) == FoldSet(LAMBDA k, n : n + Size(k), 0, S)

----------------------------------------------------------------------------
(* Commands of a list *)

Create(id, kind)    == [op |-> "create", id |-> id, kind |-> kind]
Upload(id, data)    == [op |-> "upload", id |-> id, data |-> data]
FreeResource(id)    == [op |-> "free", id |-> id]
Draw(id, need)      == [op |-> "draw", id |-> id, need |-> need]
KindOf(k) == IF IsRt(k) THEN "rt" ELSE IF is_linear_buffer(k.layout) THEN "buffer" ELSE "image"

----------------------------------------------------------------------------
(* The guest: stores, mapping, flips *)

Writes == FoldSet(LAMBDA c, n : n + mem[c], 0, Cells)
BeingFilled(c) == submit.pc = "fill" /\ c \in Extent(submit.key)

\* A store, recorded when the page is watched.
GuestWrite(c) ==
    /\ PageOf(c) \in mapped /\ Writes < MaxWrites
    /\ RacyFill \/ ~BeingFilled(c)
    /\ mem' = [mem EXCEPT ![c] = @ + 1]
    /\ dirtied' = IF PageOf(c) \in watched THEN dirtied \cup {PageOf(c)} ELSE dirtied
    /\ UNCHANGED <<mapped, watched, flips, cacheVars, submit, sink, channel, backendVars, submits, unmaps>>

\* The guest maps the page again; what it then stores there is a GuestWrite.
Map(p) ==
    /\ p \in Pages \ mapped
    /\ mapped' = mapped \cup {p}
    /\ UNCHANGED <<mem, dirtyVars, flips, cacheVars, submit, sink, channel, backendVars, submits, unmaps>>

\* GpuManager::submit_flip on another guest thread: advance_frame.
Flip ==
    /\ flips < MaxFlips
    /\ flips' = flips + 1
    /\ UNCHANGED <<pageVars, dirtyVars, cacheVars, submit, sink, channel, backendVars, submits, unmaps>>

----------------------------------------------------------------------------
(* ResourceCache::trim: what it evicts, least recently used first; entries *)
(* of one flip have no order among them.                                   *)

LinearKeys == {k \in DOMAIN entries : is_linear_buffer(k.layout)}
LeastRecent(S) == \A k \in S, j \in LinearKeys \ S : entries[k].last_used <= entries[j].last_used
Enough(S) == buffer_bytes <= Budget + TotalSize(S)
Evictions ==
    IF flips = trimmed_flip \/ buffer_bytes <= Budget
      THEN {{}}
      ELSE {S \in SUBSET LinearKeys :
              /\ LeastRecent(S)
              /\ Enough(S) \/ S = LinearKeys
              /\ \E k \in S : LeastRecent(S \ {k}) /\ ~Enough(S \ {k})}

FreeAll(S) == LET ids == {entries[k].id : k \in S} IN
              [i \in 1..Cardinality(ids) |-> FreeResource(SetToSeq(ids)[i])]

\* The state the rest of get sees after trim evicted S.
Kept(S) == Without(entries, S)
Trimmed(S) ==
    /\ trimmed_flip' = flips
    /\ buffer_bytes' = buffer_bytes - TotalSize(S)

----------------------------------------------------------------------------
(* A submit.  The driver lock is held from Submit to SubmitEnd.            *)

LockFree == submit.pc = "idle"
Idle == [pc |-> "idle", gets |-> 0, floor |-> Nothing, list |-> <<>>]

\* ResourceCache::apply_dirty: entries over a written page.
apply_dirty(ents, cells) ==
    [k \in DOMAIN ents |-> IF ~IsRt(k) /\ ranges_overlap(k, cells)
                           THEN [ents[k] EXCEPT !.dirty = TRUE] ELSE ents[k]]

\* record_submit takes the lock, drains the dirty source and marks entries.
Submit ==
    /\ LockFree /\ submits < MaxSubmits
    /\ submits' = submits + 1
    /\ entries' = apply_dirty(entries, UNION {PageCells(p) : p \in dirtied})
    /\ dirtied' = {}
    /\ submit' = [Idle EXCEPT !.pc = "walk", !.floor = mem]
    /\ UNCHANGED <<pageVars, watched, flips, next_id, trimmed_flip, buffer_bytes, sink, channel,
                   backendVars, unmaps>>

\* The versions a draw must not fall behind: memory as the submit found it.
Need(k) == [c \in Cells |-> IF c \in Extent(k) THEN submit.floor[c] ELSE 0]
Walk(cmds) == submit' = [submit EXCEPT !.gets = @ + 1, !.list = @ \o cmds]
CanGet == submit.pc = "walk" /\ submit.gets < MaxGets

\* An entry whose next hit uploads nothing.
Trusted(k) == ~entries[k].dirty /\ watch_pays(k.layout)

\* A clean hit: no command.
CleanHit(k, S) ==
    /\ Trusted(k)
    /\ entries' = [Kept(S) EXCEPT ![k].last_used = flips]
    /\ Walk(FreeAll(S) \o <<Draw(entries[k].id, Need(k))>>)

\* A hit that uploads; the entry stays dirty when the range cannot be read.
DirtyHit(k, S) ==
    /\ ~Trusted(k)
    /\ IF Readable(k)
         THEN /\ entries' = [Kept(S) EXCEPT ![k] = [@ EXCEPT !.dirty = FALSE, !.last_used = flips, !.data = Copy(k)]]
              /\ Walk(FreeAll(S) \o <<Upload(entries[k].id, Copy(k)), Draw(entries[k].id, Need(k))>>)
         ELSE /\ entries' = [Kept(S) EXCEPT ![k].last_used = flips]
              /\ Walk(FreeAll(S) \o <<Draw(entries[k].id, Nothing)>>)

\* get and get_texture on a key that is cached.
Hit(k) ==
    /\ CanGet /\ ~IsRt(k)
    /\ \E S \in Evictions :
         /\ k \in DOMAIN entries \ S
         /\ Trimmed(S)
         /\ CleanHit(k, S) \/ DirtyHit(k, S)
    /\ UNCHANGED <<pageVars, dirtyVars, flips, next_id, sink, channel, backendVars, submits, unmaps>>

\* The commands of a first use: no upload when the range cannot be read.
FirstUse(k) == <<Create(next_id, KindOf(k))>> \o IF Readable(k) THEN <<Upload(next_id, Copy(k))>> ELSE <<>>

\* get and get_texture on a key that is not: mint, create, copy.  Watching
\* and inserting come after the copy, in Insert.
Fill(k) ==
    /\ CanGet /\ ~IsRt(k) /\ next_id < MaxId
    /\ \E S \in Evictions :
         /\ k \notin DOMAIN entries \ S
         /\ Trimmed(S)
         /\ entries' = Kept(S)
         /\ next_id' = next_id + 1
         /\ LET data == IF Readable(k) THEN Copy(k) ELSE Nothing
                need == IF Readable(k) THEN Need(k) ELSE Nothing
            IN submit' = [pc |-> "fill", gets |-> submit.gets + 1, floor |-> submit.floor,
                          list |-> submit.list \o FreeAll(S) \o FirstUse(k) \o <<Draw(next_id, need)>>,
                          key |-> k, data |-> data, dirty |-> ~Readable(k)]
    /\ UNCHANGED <<pageVars, dirtyVars, flips, sink, channel, backendVars, submits, unmaps>>

Insert ==
    /\ submit.pc = "fill"
    /\ LET k == submit.key IN
         /\ watched' = IF watch_pays(k.layout) THEN watched \cup PagesOf(k) ELSE watched
         /\ buffer_bytes' = IF is_linear_buffer(k.layout) THEN buffer_bytes + Size(k) ELSE buffer_bytes
         /\ entries' = With(entries, k, [id |-> next_id - 1, dirty |-> submit.dirty,
                                         last_used |-> trimmed_flip, data |-> submit.data])
    /\ submit' = [Idle EXCEPT !.pc = "walk", !.gets = submit.gets, !.floor = submit.floor, !.list = submit.list]
    /\ UNCHANGED <<pageVars, dirtied, flips, next_id, trimmed_flip, sink, channel, backendVars, submits, unmaps>>

\* get_render_target: never trims, never watched, never dirty.
GetRenderTarget(k) ==
    /\ CanGet /\ IsRt(k)
    /\ IF k \in DOMAIN entries
         THEN /\ entries' = [entries EXCEPT ![k].last_used = trimmed_flip]
              /\ Walk(<<Draw(entries[k].id, Nothing)>>)
              /\ UNCHANGED next_id
         ELSE /\ next_id < MaxId
              /\ entries' = With(entries, k, [id |-> next_id, dirty |-> FALSE,
                                              last_used |-> trimmed_flip, data |-> Nothing])
              /\ Walk(<<Create(next_id, "rt"), Draw(next_id, Nothing)>>)
              /\ next_id' = next_id + 1
    /\ UNCHANGED <<pageVars, dirtyVars, flips, trimmed_flip, buffer_bytes, sink, channel, backendVars,
                   submits, unmaps>>

\* ACQUIRE_MEM over page p: invalidate_range.  From here on draws must see
\* what memory holds now.
AcquireMem(p) ==
    /\ CanGet
    /\ entries' = apply_dirty(entries, PageCells(p))
    /\ submit' = [submit EXCEPT !.floor = [c \in Cells |-> IF PageOf(c) = p THEN mem[c] ELSE @[c]]]
    /\ UNCHANGED <<pageVars, dirtyVars, flips, next_id, trimmed_flip, buffer_bytes, sink, channel,
                   backendVars, submits, unmaps>>

\* The list goes to the display thread, and the submit waits, lock held.
Ship ==
    /\ submit.pc = "walk" /\ submit.list # <<>>
    /\ channel' = Append(channel, [from |-> "submit", list |-> submit.list])
    /\ submit' = [Idle EXCEPT !.pc = "wait"]
    /\ UNCHANGED <<pageVars, dirtyVars, flips, cacheVars, sink, backendVars, submits, unmaps>>

SubmitEnd ==
    /\ submit.pc = "done" \/ (submit.pc = "walk" /\ submit.list = <<>>)
    /\ submit' = Idle /\ passes' = {}
    /\ UNCHANGED <<pageVars, dirtyVars, flips, cacheVars, sink, channel, gpu, submits, unmaps>>

----------------------------------------------------------------------------
(* Unmapping: Process::munmap gives the pages up, then tells the sink *)

Munmap(p) ==
    /\ sink.pc = "idle" /\ p \in mapped /\ unmaps < MaxUnmaps
    /\ unmaps' = unmaps + 1
    /\ mapped' = mapped \ {p}
    /\ sink' = [pc |-> "unmapped", page |-> p]
    /\ UNCHANGED <<mem, dirtyVars, flips, cacheVars, submit, channel, backendVars, submits>>

UnwatchesAll(k) == TRUE   \* mutant: drops protection of pages it shares
Unwatches(k) == watch_pays(k.layout) /\ ~IsRt(k)

\* notify_free: free_range under the lock, the list sent after the unlock.
NotifyFree ==
    /\ sink.pc = "unmapped" /\ LockFree
    /\ LET freed == {k \in DOMAIN entries : ranges_overlap(k, PageCells(sink.page))} IN
         /\ entries' = Without(entries, freed)
         /\ watched' = watched \ UNION {PagesOf(k) : k \in {j \in freed : Unwatches(j)}}
         /\ buffer_bytes' = buffer_bytes - TotalSize({k \in freed : is_linear_buffer(k.layout)})
         /\ sink' = IF freed = {} THEN [pc |-> "idle"] ELSE [pc |-> "send", list |-> FreeAll(freed)]
    /\ UNCHANGED <<pageVars, dirtied, flips, next_id, trimmed_flip, submit, channel, backendVars,
                   submits, unmaps>>

SendFrees ==
    /\ sink.pc = "send"
    /\ channel' = Append(channel, [from |-> "sink", list |-> sink.list])
    /\ sink' = [pc |-> "wait"]
    /\ UNCHANGED <<pageVars, dirtyVars, flips, cacheVars, submit, backendVars, submits, unmaps>>

----------------------------------------------------------------------------
(* The display thread: AshBackend::replay_command_list.  Creates, uploads  *)
(* and frees are done during the walk, the draws after it; a freed buffer  *)
(* keeps its memory (pending_recycle) until the next list.                 *)

\* Mutant: a render target is forgotten.
FreedBufferOnly(g, id) == IF id \in DOMAIN g /\ g[id].kind = "buffer"
                          THEN [g EXCEPT ![id].live = FALSE] ELSE g
\* free_resource: buffers and render targets go, images stay.
Freed(g, id) == IF id \in DOMAIN g /\ g[id].kind # "image"
                THEN [g EXCEPT ![id].live = FALSE] ELSE g

ReplayStep(b, cmd) ==
    CASE cmd.op = "create" -> [b EXCEPT !.gpu = With(b.gpu, cmd.id, [kind |-> cmd.kind, live |-> TRUE, data |-> Nothing])]
      [] cmd.op = "upload" -> IF cmd.id \in DOMAIN b.gpu /\ b.gpu[cmd.id].live
                              THEN [b EXCEPT !.gpu[cmd.id].data = cmd.data] ELSE b
      [] cmd.op = "free"   -> [b EXCEPT !.gpu = Freed(b.gpu, cmd.id)]
      [] cmd.op = "draw"   -> [b EXCEPT !.draws = @ \cup {[id |-> cmd.id, need |-> cmd.need,
                                   bound |-> cmd.id \in DOMAIN b.gpu /\ b.gpu[cmd.id].live]}]

\* What the previous list freed goes back to the pool.
Recycled(g) == [id \in {i \in DOMAIN g : g[i].live} |-> g[id]]

\* The backend after the commands of a list, in order.
Replayed(g, list) ==
    LET after[n \in 0..Len(list)] ==
          IF n = 0 THEN [gpu |-> g, draws |-> {}] ELSE ReplayStep(after[n - 1], list[n])
    IN after[Len(list)]

Replay ==
    /\ channel # <<>>
    /\ LET head == Head(channel)
           end == Replayed(Recycled(gpu), head.list)
       IN /\ gpu' = end.gpu
          /\ passes' = {[need |-> d.need, bound |-> d.bound,
                         got |-> IF d.id \in DOMAIN end.gpu THEN end.gpu[d.id].data ELSE Nothing] : d \in end.draws}
          /\ submit' = IF head.from = "submit" THEN [submit EXCEPT !.pc = "done"] ELSE submit
          /\ sink' = IF head.from = "sink" THEN [pc |-> "idle"] ELSE sink
    /\ channel' = Tail(channel)
    /\ UNCHANGED <<pageVars, dirtyVars, flips, cacheVars, submits, unmaps>>

----------------------------------------------------------------------------
CacheInit ==
    /\ mem = [c \in Cells |-> 0] /\ mapped = Pages
    /\ watched = {} /\ dirtied = {} /\ flips = 0
    /\ entries = <<>> /\ next_id = 1 /\ trimmed_flip = 0 /\ buffer_bytes = 0
    /\ submit = Idle /\ sink = [pc |-> "idle"]
    /\ channel = <<>> /\ gpu = <<>> /\ passes = {}
    /\ submits = 0 /\ unmaps = 0

CacheNext ==
    \/ \E c \in Cells : GuestWrite(c)
    \/ \E p \in UnmapPages : Map(p) \/ Munmap(p)
    \/ \E p \in AcquirePages : AcquireMem(p)
    \/ \E k \in Keys : Hit(k) \/ Fill(k) \/ GetRenderTarget(k)
    \/ Flip \/ Submit \/ Insert \/ Ship \/ SubmitEnd
    \/ NotifyFree \/ SendFrees \/ Replay

CacheSpec == CacheInit /\ [][CacheNext]_resourceVars

----------------------------------------------------------------------------
(* Properties *)

\* Every draw finds its resource in the backend and reads bytes at least as
\* new as guest memory was when its submit drained the dirty source (or a
\* later ACQUIRE_MEM asked for): no skipped upload is ever missed, whatever
\* evictions, frees on shared pages and guest stores come in between.
DrawReadsFresh ==
    \A d \in passes : d.bound /\ \A c \in Cells : d.got[c] >= d.need[c]

\* With no list under way, the backend holds exactly the cached buffers and
\* render targets, and the byte account is theirs: eviction and teardown
\* neither leak nor release twice.
BackendMirrorsCache ==
    (submit.pc = "idle" /\ channel = <<>> /\ sink.pc \in {"idle", "unmapped"}) =>
      /\ {id \in DOMAIN gpu : gpu[id].live /\ gpu[id].kind # "image"}
           = {entries[k].id : k \in {j \in DOMAIN entries : KindOf(j) # "image"}}
      /\ buffer_bytes = TotalSize(LinearKeys)

\* "Only a watched entry can take this path; an unwatched one has no dirty
\* state to trust": a hit that uploads nothing finds its pages watched.
OnlyWatchedHitsClean ==
    [][\A k \in DOMAIN entries : Hit(k) /\ Trusted(k) => PagesOf(k) \subseteq watched]_resourceVars
=============================================================================
