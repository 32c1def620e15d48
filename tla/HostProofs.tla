----------------------------- MODULE HostProofs -----------------------------
(***************************************************************************)
(* Proofs about the parts around the kernel that share no state: guest     *)
(* execution, the clock, audio output, the offline services and the module *)
(* loader.                                                                 *)
(***************************************************************************)
EXTENDS GuestExec, Clock, AudioOut, Offline, Loader, SequenceTheorems, FiniteSetTheorems, TLAPS

----------------------------------------------------------------------------
(***************************************************************************)
(* Guest execution.  FramesSurvive needs the geometry of the stack: each   *)
(* level keeps between its base and the end of its red zone, and begins    *)
(* below the red zones of all levels that wait for it.  The stack pointer  *)
(* a nested call starts from is that of the last syscall of the thread,    *)
(* which after an earlier nested call is that call's and not the waiting   *)
(* level's own: it is only known not to be above it (StackOK).             *)
(***************************************************************************)
Handlers == {"return", "once", "once_done", "modules", "exit"}
LevelSet == [rsp : Int, base : Int, own : SUBSET Int, at : Handlers \cup {"guest"}, left : Nat]
Contexts == [cur_rsp : Int, exit_requested : BOOLEAN]
Results == {None, "exit", "returned", "fatal"}

\* A level's cells lie between its base and the end of its red zone.
OwnFrame(v) ==
    /\ v.rsp <= v.base
    /\ \A a \in v.own : v.rsp - RedZone <= a /\ a <= v.base

\* A stack of levels with c for the stack pointer of the last syscall: each
\* level begins below the red zones of all those that wait for it, and c is
\* not above any level that is in a handler (it may be a nested call's).
StackOK(L, c) ==
    /\ L \in Seq(LevelSet)
    /\ \A k \in 1..Len(L) : OwnFrame(L[k])
    /\ \A j, k \in 1..Len(L) : j < k => L[k].base < L[j].rsp - RedZone /\ L[j].at # "guest"
    /\ \A k \in 1..Len(L) : L[k].at # "guest" => c <= L[k].rsp

StacksOK ==
    /\ levels \in [GuestThreads -> Seq(LevelSet)]
    /\ ctx \in [GuestThreads -> Contexts]
    /\ asked \in [GuestThreads -> Nat]
    /\ result \in [GuestThreads -> Results]
    /\ \A t \in GuestThreads : StackOK(levels[t], ctx[t].cur_rsp)

\* A request to exit stands until the thread's call is over, and the guest
\* code of its outermost level runs no more.
ExitStands ==
    \A t \in GuestThreads :
        asked[t] > 0 /\ Len(levels[t]) > 0 =>
            ctx[t].exit_requested /\ levels[t][1].at # "guest"

ExecInv == StacksOK /\ ExitStands

\* ExitUnwinds as an action.
Unwinds ==
    \A t \in GuestThreads :
        asked[t] > 0 =>
            /\ \A k \in 1..asked[t] :
                 Depth(t) >= k /\ Len(levels'[t]) >= k /\ levels[t][k].at # "guest"
                   => levels'[t][k].at # "guest"
            /\ result'[t] # result[t] => result'[t] = "exit"

\* Aligning a stack pointer down goes down.
LEMMA AlignsDown ==
    ASSUME NEW a \in Int
    PROVE  AlignDown(a) \in Int /\ AlignDown(a) <= a
<1>1. Alignment \in Nat \ {0}
  BY GuestExecAssumption
<1>2. a % Alignment \in Int /\ 0 <= a % Alignment
  BY <1>1, Z3
<1> QED BY <1>2 DEF AlignDown

\* A fresh level is its gadget cell.
LEMMA FreshLevel ==
    ASSUME NEW r \in Int
    PROVE  /\ Level(r) \in LevelSet /\ OwnFrame(Level(r))
           /\ Level(r).base = r - 1 /\ Level(r).at = "guest"
<1>1. RedZone \in Nat
  BY GuestExecAssumption
<1> QED BY <1>1 DEF Level, LevelSet, OwnFrame, Handlers

\* The innermost level goes on as lv, whose frame still begins at its base.
LEMMA TopMoves ==
    ASSUME NEW L, NEW c \in Int, NEW d \in Int, StackOK(L, c), Len(L) > 0,
           NEW lv \in LevelSet, OwnFrame(lv), lv.base = L[Len(L)].base,
           d <= c \/ d <= lv.rsp,
           lv.at # "guest" => d <= lv.rsp
    PROVE  StackOK([L EXCEPT ![Len(L)] = lv], d)
<1> DEFINE M == [L EXCEPT ![Len(L)] = lv]
           n == Len(L)
<1>1. L \in Seq(LevelSet) /\ n \in Nat /\ n > 0 /\ RedZone \in Nat
  BY GuestExecAssumption DEF StackOK
<1>2. M \in Seq(LevelSet) /\ Len(M) = n /\ M[n] = lv /\ \A k \in 1..n : k # n => M[k] = L[k]
  BY <1>1
<1> HIDE DEF M, n
<1>3. \A k \in 1..n : L[k].rsp \in Int /\ L[k].base \in Int
  <2>1. \A k \in 1..n : L[k] \in LevelSet
    BY <1>1 DEF n
  <2> QED BY <2>1 DEF LevelSet
<1>4. lv.rsp \in Int /\ lv.base \in Int /\ lv.rsp <= lv.base
  BY DEF LevelSet, OwnFrame
<1>5. \A k \in 1..n : OwnFrame(M[k])
  BY <1>2 DEF StackOK, n
<1>6. ASSUME NEW j \in 1..n, NEW k \in 1..n, j < k
      PROVE  M[k].base < M[j].rsp - RedZone /\ M[j].at # "guest"
  <2>1. M[j] = L[j] /\ M[k].base = L[k].base
    BY <1>1, <1>2, <1>6 DEF n
  <2> QED BY <1>6, <2>1 DEF StackOK, n
<1>7. ASSUME NEW k \in 1..n, M[k].at # "guest"
      PROVE  d <= M[k].rsp
  <2>1. CASE k = n
    BY <1>2, <1>7, <2>1
  <2>2. CASE k # n
    <3>1. M[k] = L[k] /\ k < n /\ n \in 1..n
      BY <1>1, <1>2, <2>2
    <3>2. c <= L[k].rsp /\ lv.base < L[k].rsp - RedZone
      BY <1>7, <3>1 DEF StackOK, n
    <3> QED BY <1>1, <1>3, <1>4, <3>1, <3>2
  <2> QED BY <2>1, <2>2
<1> QED BY <1>2, <1>5, <1>6, <1>7 DEF StackOK, M

\* The innermost level ends.
LEMMA TopEnds ==
    ASSUME NEW L, NEW c \in Int, StackOK(L, c), Len(L) > 1
    PROVE  /\ StackOK(SubSeq(L, 1, Len(L) - 1), c)
           /\ Len(SubSeq(L, 1, Len(L) - 1)) = Len(L) - 1
           /\ \A k \in 1..(Len(L) - 1) : SubSeq(L, 1, Len(L) - 1)[k] = L[k]
<1> DEFINE n == Len(L)
           M == SubSeq(L, 1, n - 1)
<1>1. L \in Seq(LevelSet) /\ n \in Nat /\ n > 1
  BY DEF StackOK
<1>2. M \in Seq(LevelSet) /\ Len(M) = n - 1 /\ \A k \in 1..(n - 1) : M[k] = L[k]
  BY <1>1
<1>3. 1..(n - 1) \subseteq 1..n
  BY <1>1
<1> HIDE DEF M
<1>4. StackOK(M, c)
  BY <1>1, <1>2, <1>3 DEF StackOK
<1> QED BY <1>2, <1>4 DEF M

\* A nested call: the innermost level waits, a new one begins below its red
\* zone.
LEMMA NestedBegins ==
    ASSUME NEW L, NEW c \in Int, StackOK(L, c), Len(L) > 0, L[Len(L)].at # "guest",
           NEW r \in Int, r <= c - RedZone
    PROVE  StackOK(Append(L, Level(r)), c)
<1> DEFINE n == Len(L)
           M == Append(L, Level(r))
<1>1. L \in Seq(LevelSet) /\ n \in Nat /\ n > 0 /\ RedZone \in Nat
  BY GuestExecAssumption DEF StackOK
<1>2. /\ Level(r) \in LevelSet /\ OwnFrame(Level(r))
      /\ Level(r).base = r - 1 /\ Level(r).at = "guest"
  BY FreshLevel
<1>3. /\ M \in Seq(LevelSet) /\ Len(M) = n + 1 /\ M[n + 1] = Level(r)
      /\ \A k \in 1..n : M[k] = L[k]
  BY <1>1, <1>2
<1> HIDE DEF M, n
<1>4. \A k \in 1..n : L[k].rsp \in Int /\ L[k].at # "guest" /\ c <= L[k].rsp
  <2>1. \A k \in 1..n : L[k].rsp \in Int
    <3>1. \A k \in 1..n : L[k] \in LevelSet
      BY <1>1 DEF n
    <3> QED BY <3>1 DEF LevelSet
  <2>2. \A k \in 1..n : k < n => L[k].at # "guest"
    BY <1>1 DEF StackOK, n
  <2>3. \A k \in 1..n : L[k].at # "guest"
    BY <1>1, <2>2 DEF n
  <2> QED BY <2>1, <2>3 DEF StackOK, n
<1>5. ASSUME NEW k \in 1..(n + 1)
      PROVE  OwnFrame(M[k]) /\ (M[k].at # "guest" => c <= M[k].rsp)
  <2>1. CASE k = n + 1
    BY <1>2, <1>3, <2>1
  <2>2. CASE k \in 1..n
    BY <1>3, <1>4, <2>2 DEF StackOK, n
  <2> QED BY <1>1, <2>1, <2>2
<1>6. ASSUME NEW j \in 1..(n + 1), NEW k \in 1..(n + 1), j < k
      PROVE  M[k].base < M[j].rsp - RedZone /\ M[j].at # "guest"
  <2>1. j \in 1..n /\ M[j] = L[j] /\ L[j].rsp \in Int /\ c <= L[j].rsp /\ L[j].at # "guest"
    BY <1>1, <1>3, <1>4, <1>6
  <2>2. CASE k = n + 1
    BY <1>1, <1>2, <1>3, <2>1, <2>2
  <2>3. CASE k \in 1..n
    BY <1>3, <1>6, <2>1, <2>3 DEF StackOK, n
  <2> QED BY <1>1, <2>2, <2>3
<1> QED BY <1>3, <1>5, <1>6 DEF StackOK, M

----------------------------------------------------------------------------
\* A step of thread t: its stack becomes L, and no level's guest code resumes
\* once an exit was asked for.
LEMMA ThreadStep ==
    ASSUME ExecInv, NEW t \in GuestThreads, NEW L,
           levels' = [levels EXCEPT ![t] = L],
           ctx' \in [GuestThreads -> Contexts], asked' \in [GuestThreads -> Nat],
           result' \in [GuestThreads -> Results],
           \A u \in GuestThreads : u # t => ctx'[u] = ctx[u] /\ asked'[u] = asked[u] /\ result'[u] = result[u],
           StackOK(L, ctx'[t].cur_rsp),
           asked'[t] > 0 /\ Len(L) > 0 => ctx'[t].exit_requested /\ L[1].at # "guest",
           asked[t] > 0 => result'[t] = result[t] \/ result'[t] = "exit",
           asked[t] > 0 =>
               \A k \in 1..Len(levels[t]) :
                   k <= Len(L) /\ levels[t][k].at # "guest" => L[k].at # "guest"
    PROVE  ExecInv' /\ Unwinds
<1>1. /\ levels \in [GuestThreads -> Seq(LevelSet)] /\ L \in Seq(LevelSet)
      /\ asked \in [GuestThreads -> Nat]
  BY DEF ExecInv, StacksOK, StackOK
<1>2. levels'[t] = L /\ \A u \in GuestThreads : u # t => levels'[u] = levels[u]
  BY <1>1
<1>3. levels' \in [GuestThreads -> Seq(LevelSet)]
  BY <1>1
<1>4. StacksOK'
  <2>1. \A u \in GuestThreads : StackOK(levels'[u], ctx'[u].cur_rsp)
    BY <1>2 DEF ExecInv, StacksOK
  <2> QED BY <1>3, <2>1 DEF StacksOK
<1>5. ExitStands'
  BY <1>2 DEF ExecInv, ExitStands
<1>6. Unwinds
  <2> SUFFICES ASSUME NEW u \in GuestThreads, asked[u] > 0
               PROVE  /\ \A k \in 1..asked[u] :
                           Depth(u) >= k /\ Len(levels'[u]) >= k /\ levels[u][k].at # "guest"
                              => levels'[u][k].at # "guest"
                      /\ result'[u] # result[u] => result'[u] = "exit"
    BY DEF Unwinds
  <2>1. CASE u = t
    <3>1. ASSUME NEW k \in 1..asked[t], Depth(t) >= k, Len(L) >= k, levels[t][k].at # "guest"
          PROVE  L[k].at # "guest"
      <4>1. k \in 1..Len(levels[t]) /\ k <= Len(L)
        <5>1. Len(levels[t]) \in Nat /\ Len(L) \in Nat /\ asked[t] \in Nat
          BY <1>1
        <5> QED BY <3>1, <5>1 DEF Depth
      <4> QED BY <2>1, <3>1, <4>1
    <3> QED BY <1>2, <2>1, <3>1
  <2>2. CASE u # t
    BY <1>2, <2>2
  <2> QED BY <2>1, <2>2
<1> QED BY <1>4, <1>5, <1>6 DEF ExecInv

\* What holds of a thread with a level.
LEMMA TopIs ==
    ASSUME ExecInv, NEW t \in GuestThreads, Depth(t) > 0
    PROVE  /\ levels[t] \in Seq(LevelSet) /\ Depth(t) \in Nat /\ Depth(t) \in 1..Len(levels[t])
           /\ Top(t) \in LevelSet /\ Top(t) = levels[t][Len(levels[t])]
           /\ OwnFrame(Top(t)) /\ StackOK(levels[t], ctx[t].cur_rsp)
           /\ ctx[t] \in Contexts /\ ctx[t].cur_rsp \in Int
           /\ Top(t).at # "guest" => ctx[t].cur_rsp <= Top(t).rsp
<1>1. StackOK(levels[t], ctx[t].cur_rsp) /\ levels[t] \in Seq(LevelSet) /\ ctx[t] \in Contexts
  BY DEF ExecInv, StacksOK
<1>2. Depth(t) \in Nat /\ Depth(t) \in 1..Len(levels[t])
  BY <1>1 DEF Depth
<1>3. Top(t) \in LevelSet /\ Top(t) = levels[t][Len(levels[t])]
  BY <1>1, <1>2 DEF Top, Depth
<1> QED BY <1>1, <1>2, <1>3 DEF StackOK, Contexts, Depth

\* The innermost level of t goes on as lv; the calls are not told of it.
LEMMA TopStep ==
    ASSUME ExecInv, NEW t \in GuestThreads, Depth(t) > 0,
           NEW lv \in LevelSet, OwnFrame(lv), lv.base = Top(t).base,
           levels' = WithTop(t, lv), result' = result,
           ctx' \in [GuestThreads -> Contexts], asked' \in [GuestThreads -> Nat],
           \A u \in GuestThreads : u # t => ctx'[u] = ctx[u] /\ asked'[u] = asked[u],
           \/ ctx'[t].cur_rsp = ctx[t].cur_rsp
           \/ ctx'[t].cur_rsp = lv.rsp,
           lv.at # "guest" => ctx'[t].cur_rsp <= lv.rsp,
           asked[t] > 0 => (lv.at = "guest" => Top(t).at = "guest"),
           asked'[t] > 0 => ctx'[t].exit_requested /\ (asked[t] > 0 \/ lv.at # "guest")
    PROVE  ExecInv' /\ Unwinds
<1> DEFINE L == [levels[t] EXCEPT ![Len(levels[t])] = lv]
           n == Len(levels[t])
<1>1. /\ levels[t] \in Seq(LevelSet) /\ n \in Nat /\ n > 0 /\ n \in 1..n
      /\ Top(t) = levels[t][n] /\ StackOK(levels[t], ctx[t].cur_rsp)
      /\ ctx[t].cur_rsp \in Int /\ lv.rsp \in Int
  BY TopIs DEF Depth, LevelSet
<1>2. levels' = [levels EXCEPT ![t] = L]
  BY DEF WithTop, Depth, ExecInv, StacksOK
<1>3. L \in Seq(LevelSet) /\ Len(L) = n /\ L[n] = lv /\ \A k \in 1..n : k # n => L[k] = levels[t][k]
  BY <1>1
<1>4. ctx'[t].cur_rsp \in Int
  BY <1>1
<1>5. StackOK(L, ctx'[t].cur_rsp)
  <2> HIDE DEF L
  <2>1. ctx'[t].cur_rsp <= ctx[t].cur_rsp \/ ctx'[t].cur_rsp <= lv.rsp
    BY <1>1
  <2> QED BY <1>1, <1>4, <2>1, TopMoves DEF L
<1>6. result' \in [GuestThreads -> Results]
  BY DEF ExecInv, StacksOK
<1> HIDE DEF L
<1>7. asked[t] > 0 =>
               \A k \in 1..Len(levels[t]) :
                   k <= Len(L) /\ levels[t][k].at # "guest" => L[k].at # "guest"
  BY <1>1, <1>3
<1>8. asked'[t] > 0 /\ Len(L) > 0 => ctx'[t].exit_requested /\ L[1].at # "guest"
  <2>1. ASSUME asked'[t] > 0 PROVE L[1].at # "guest"
    <3>1. CASE n = 1
      <4>1. asked[t] > 0 => Top(t).at # "guest"
        BY <1>1, <3>1 DEF ExecInv, ExitStands
      <4> QED BY <1>3, <2>1, <3>1, <4>1
    <3>2. CASE n > 1
      <4>1. 1 \in 1..n /\ 1 < n /\ L[1] = levels[t][1]
        BY <1>1, <1>3, <3>2
      <4> QED BY <1>1, <4>1 DEF StackOK
    <3>3. n = 1 \/ n > 1
      <4>1. n \in Nat /\ n > 0
        BY <1>1
      <4> HIDE DEF n
      <4> QED BY <4>1
    <3> QED BY <3>1, <3>2, <3>3
  <2> QED BY <2>1
<1>9. /\ \A u \in GuestThreads : u # t => ctx'[u] = ctx[u] /\ asked'[u] = asked[u] /\ result'[u] = result[u]
      /\ asked[t] > 0 => result'[t] = result[t] \/ result'[t] = "exit"
  OBVIOUS
<1> QED BY <1>2, <1>5, <1>6, <1>7, <1>8, <1>9, ThreadStep

\* The innermost level of t, in a handler, goes on in another.
LEMMA HandlerMoves ==
    ASSUME ExecInv, NEW t \in GuestThreads, Depth(t) > 0, Top(t).at # "guest",
           NEW h \in Handlers, levels' = WithTop(t, [Top(t) EXCEPT !.at = h]),
           UNCHANGED <<ctx, asked, result>>
    PROVE  ExecInv' /\ Unwinds
<1> DEFINE lv == [Top(t) EXCEPT !.at = h]
<1>1. Top(t) \in LevelSet /\ OwnFrame(Top(t)) /\ ctx[t].cur_rsp <= Top(t).rsp
  BY TopIs
<1>2. /\ lv \in LevelSet /\ OwnFrame(lv) /\ lv.base = Top(t).base /\ lv.rsp = Top(t).rsp
      /\ lv.at = h /\ h # "guest"
  BY <1>1 DEF LevelSet, OwnFrame, Handlers
<1>3. /\ ctx' \in [GuestThreads -> Contexts] /\ asked' \in [GuestThreads -> Nat]
      /\ asked[t] > 0 => ctx[t].exit_requested
  BY DEF ExecInv, StacksOK, ExitStands, Depth
<1> HIDE DEF lv
<1>4. levels' = WithTop(t, lv)
  BY DEF lv
<1> QED BY <1>1, <1>2, <1>3, <1>4, TopStep

\* Guest code of the innermost level runs and keeps within its frame.
LEMMA GuestMoves ==
    ASSUME ExecInv, NEW t \in GuestThreads, InGuest(t),
           NEW r \in Int, NEW o \in SUBSET Int, r <= Top(t).base,
           \A a \in o : r - RedZone <= a /\ a <= Top(t).base,
           levels' = WithTop(t, [Top(t) EXCEPT !.rsp = r, !.own = o]),
           UNCHANGED <<ctx, asked, result>>
    PROVE  ExecInv' /\ Unwinds
<1> DEFINE lv == [Top(t) EXCEPT !.rsp = r, !.own = o]
<1>1. Depth(t) > 0 /\ Top(t).at = "guest" /\ Top(t) \in LevelSet
  BY TopIs DEF InGuest
<1>2. /\ lv \in LevelSet /\ lv.base = Top(t).base /\ lv.rsp = r /\ lv.own = o
      /\ lv.at = "guest"
  BY <1>1 DEF LevelSet, Handlers
<1>3. /\ ctx' \in [GuestThreads -> Contexts] /\ asked' \in [GuestThreads -> Nat]
      /\ asked[t] > 0 => ctx[t].exit_requested
  BY <1>1 DEF ExecInv, StacksOK, ExitStands, Depth
<1> HIDE DEF lv
<1>4. levels' = WithTop(t, lv)
  BY DEF lv
<1>5. OwnFrame(lv)
  BY <1>2 DEF OwnFrame
<1> QED BY <1>1, <1>2, <1>3, <1>4, <1>5, TopStep

\* push, pop, and writes in the red zone.
LEMMA GuestSteps ==
    ASSUME ExecInv, NEW t \in GuestThreads, GuestStep(t)
    PROVE  ExecInv' /\ Unwinds
<1>1. /\ InGuest(t) /\ Top(t) \in LevelSet /\ OwnFrame(Top(t)) /\ RedZone \in Nat
      /\ UNCHANGED <<ctx, asked, result>>
  BY TopIs, GuestExecAssumption DEF GuestStep, guest_push, guest_red_zone, guest_pop, GuestWrites, InGuest
<1>2. /\ Top(t).rsp \in Int /\ Top(t).base \in Int /\ Top(t).own \in SUBSET Int
      /\ Top(t).rsp <= Top(t).base
      /\ \A a \in Top(t).own : Top(t).rsp - RedZone <= a /\ a <= Top(t).base
  BY <1>1 DEF LevelSet, OwnFrame
<1>3. CASE guest_push(t)
  <2> DEFINE r == Top(t).rsp - 1
             o == Top(t).own \cup {Top(t).rsp - 1}
  <2>1. /\ r \in Int /\ o \in SUBSET Int /\ r <= Top(t).base
        /\ \A a \in o : r - RedZone <= a /\ a <= Top(t).base
    BY <1>1, <1>2
  <2>2. levels' = WithTop(t, [Top(t) EXCEPT !.rsp = r, !.own = o])
    BY <1>1, <1>3 DEF guest_push, GuestWrites, LevelSet
  <2> HIDE DEF r, o
  <2> QED BY <1>1, <2>1, <2>2, GuestMoves
<1>4. CASE guest_red_zone(t)
  <2> DEFINE r == Top(t).rsp
             o == Top(t).own \cup {Top(t).rsp - RedZone}
  <2>1. /\ r \in Int /\ o \in SUBSET Int /\ r <= Top(t).base
        /\ \A a \in o : r - RedZone <= a /\ a <= Top(t).base
    BY <1>1, <1>2
  <2>2. levels' = WithTop(t, [Top(t) EXCEPT !.rsp = r, !.own = o])
    BY <1>1, <1>4 DEF guest_red_zone, GuestWrites, LevelSet
  <2> HIDE DEF r, o
  <2> QED BY <1>1, <2>1, <2>2, GuestMoves
<1>5. CASE guest_pop(t)
  <2> DEFINE r == Top(t).rsp + 1
             o == {a \in Top(t).own : a > Top(t).rsp}
  <2>1. Top(t).rsp < Top(t).base
    BY <1>5 DEF guest_pop
  <2>2. /\ r \in Int /\ o \in SUBSET Int /\ r <= Top(t).base
        /\ \A a \in o : r - RedZone <= a /\ a <= Top(t).base
    BY <1>1, <1>2, <2>1
  <2>3. levels' = WithTop(t, [Top(t) EXCEPT !.rsp = r, !.own = o])
    BY <1>1, <1>5 DEF guest_pop, LevelSet
  <2> HIDE DEF r, o
  <2> QED BY <1>1, <2>2, <2>3, GuestMoves
<1> QED BY <1>3, <1>4, <1>5 DEF GuestStep

\* The guest calls a handler: the stack pointer is noted.
LEMMA SyscallStep ==
    ASSUME ExecInv, NEW t \in GuestThreads, NEW h \in Handlers, Syscall(t, h), asked' = asked
    PROVE  ExecInv' /\ Unwinds
<1> DEFINE n == IF h = "modules" THEN ModuleStarts ELSE 0
           lv == [Top(t) EXCEPT !.at = h, !.left = n]
<1>1. Depth(t) > 0 /\ Top(t).at = "guest"
  BY DEF Syscall, InGuest
<1>2. Top(t) \in LevelSet /\ OwnFrame(Top(t)) /\ n \in Nat /\ ctx[t] \in Contexts /\ Top(t).rsp \in Int
  BY <1>1, TopIs, GuestExecAssumption DEF LevelSet
<1>3. /\ lv \in LevelSet /\ OwnFrame(lv) /\ lv.base = Top(t).base /\ lv.rsp = Top(t).rsp
      /\ lv.at = h /\ h # "guest"
  BY <1>2 DEF LevelSet, OwnFrame, Handlers
<1>4. /\ ctx \in [GuestThreads -> Contexts]
      /\ ctx' = [ctx EXCEPT ![t] = [ctx[t] EXCEPT !.cur_rsp = Top(t).rsp]]
      /\ levels' = WithTop(t, lv) /\ result' = result
  BY DEF Syscall, ExecInv, StacksOK
<1>5. [ctx[t] EXCEPT !.cur_rsp = Top(t).rsp] \in Contexts
  BY <1>2 DEF Contexts
<1>6. /\ ctx' \in [GuestThreads -> Contexts]
      /\ ctx'[t].cur_rsp = Top(t).rsp /\ ctx'[t].exit_requested = ctx[t].exit_requested
      /\ \A u \in GuestThreads : u # t => ctx'[u] = ctx[u] /\ asked'[u] = asked[u]
  BY <1>2, <1>4, <1>5 DEF Contexts
<1>7. asked' \in [GuestThreads -> Nat] /\ (asked[t] > 0 => ctx[t].exit_requested)
  BY <1>1 DEF ExecInv, StacksOK, ExitStands, Depth
<1> HIDE DEF lv, n
<1>8. ctx'[t].cur_rsp = lv.rsp /\ ctx'[t].cur_rsp <= lv.rsp
  BY <1>2, <1>3, <1>6
<1> QED BY <1>1, <1>3, <1>4, <1>6, <1>7, <1>8, TopStep

\* pthread_exit asks.
LEMMA RequestStep ==
    ASSUME ExecInv, NEW t \in GuestThreads, request_thread_exit(t)
    PROVE  ExecInv' /\ Unwinds
<1> DEFINE lv == [Top(t) EXCEPT !.at = "return"]
<1>1. Depth(t) > 0 /\ Top(t).at = "exit"
  BY DEF request_thread_exit, InHandler
<1>2. /\ Top(t) \in LevelSet /\ OwnFrame(Top(t)) /\ ctx[t].cur_rsp <= Top(t).rsp
      /\ ctx[t] \in Contexts /\ Depth(t) \in Nat
  BY <1>1, TopIs
<1>3. /\ lv \in LevelSet /\ OwnFrame(lv) /\ lv.base = Top(t).base /\ lv.rsp = Top(t).rsp
      /\ lv.at = "return"
  BY <1>2 DEF LevelSet, OwnFrame, Handlers
<1>4. /\ ctx \in [GuestThreads -> Contexts] /\ asked \in [GuestThreads -> Nat]
      /\ ctx' = [ctx EXCEPT ![t] = [ctx[t] EXCEPT !.exit_requested = TRUE]]
      /\ asked' = [asked EXCEPT ![t] = IF asked[t] = 0 THEN Depth(t) ELSE asked[t]]
      /\ levels' = WithTop(t, lv) /\ result' = result
  BY DEF request_thread_exit, ExecInv, StacksOK
<1>5. [ctx[t] EXCEPT !.exit_requested = TRUE] \in Contexts
  BY <1>2 DEF Contexts
<1>6. /\ ctx' \in [GuestThreads -> Contexts] /\ asked' \in [GuestThreads -> Nat]
      /\ ctx'[t].cur_rsp = ctx[t].cur_rsp /\ ctx'[t].exit_requested
      /\ \A u \in GuestThreads : u # t => ctx'[u] = ctx[u] /\ asked'[u] = asked[u]
  BY <1>2, <1>4, <1>5 DEF Contexts
<1> HIDE DEF lv
<1>7. ctx'[t].cur_rsp <= lv.rsp
  BY <1>2, <1>3, <1>6
<1> QED BY <1>1, <1>3, <1>4, <1>6, <1>7, TopStep

\* The guest goes on only when nobody asked for an exit.
LEMMA ResumeStep ==
    ASSUME ExecInv, NEW t \in GuestThreads, handler_return(t)
    PROVE  ExecInv' /\ Unwinds
<1> DEFINE lv == [Top(t) EXCEPT !.at = "guest"]
<1>1. Depth(t) > 0 /\ ~ctx[t].exit_requested /\ levels' = WithTop(t, lv) /\ UNCHANGED <<ctx, asked, result>>
  BY DEF handler_return, InHandler, ResumeTop
<1>2. Top(t) \in LevelSet /\ OwnFrame(Top(t))
  BY <1>1, TopIs
<1>3. lv \in LevelSet /\ OwnFrame(lv) /\ lv.base = Top(t).base /\ lv.at = "guest"
  BY <1>2 DEF LevelSet, OwnFrame, Handlers
<1>4. ctx' \in [GuestThreads -> Contexts] /\ asked' \in [GuestThreads -> Nat] /\ ~(asked[t] > 0)
  BY <1>1 DEF ExecInv, StacksOK, ExitStands, Depth
<1> HIDE DEF lv
<1> QED BY <1>1, <1>3, <1>4, TopStep

\* A nested loop ends; a request it took is made again.
LEMMA NestedEnds ==
    ASSUME ExecInv, NEW t \in GuestThreads, NestedReturn(t), UNCHANGED asked,
           UNCHANGED ctx \/ Rearm(t)
    PROVE  ExecInv' /\ Unwinds
<1> DEFINE n == Len(levels[t])
           L == SubSeq(levels[t], 1, n - 1)
<1>1. Depth(t) > 1 /\ Depth(t) > 0 /\ levels' = [levels EXCEPT ![t] = L] /\ result' = result
  <2>1. Depth(t) > 1 /\ levels' = [levels EXCEPT ![t] = L] /\ result' = result
    BY DEF NestedReturn, Depth, ExecInv, StacksOK
  <2>2. Depth(t) \in Nat
    BY DEF ExecInv, StacksOK, Depth
  <2> QED BY <2>1, <2>2
<1>2. /\ StackOK(levels[t], ctx[t].cur_rsp) /\ ctx[t].cur_rsp \in Int /\ ctx[t] \in Contexts
      /\ n \in Nat /\ n > 1
  BY <1>1, TopIs DEF Depth
<1>3. StackOK(L, ctx[t].cur_rsp) /\ Len(L) = n - 1 /\ \A k \in 1..(n - 1) : L[k] = levels[t][k]
  BY <1>2, TopEnds
<1>4. /\ ctx \in [GuestThreads -> Contexts] /\ asked \in [GuestThreads -> Nat]
      /\ result \in [GuestThreads -> Results]
  BY DEF ExecInv, StacksOK
<1>5. /\ ctx' \in [GuestThreads -> Contexts] /\ ctx'[t].cur_rsp = ctx[t].cur_rsp
      /\ ctx[t].exit_requested => ctx'[t].exit_requested
      /\ \A u \in GuestThreads : u # t => ctx'[u] = ctx[u]
  <2>1. CASE UNCHANGED ctx
    BY <1>4, <2>1
  <2>2. CASE Rearm(t)
    <3>1. ctx' = [ctx EXCEPT ![t] = [ctx[t] EXCEPT !.exit_requested = TRUE]]
      BY <1>4, <2>2 DEF Rearm
    <3>2. [ctx[t] EXCEPT !.exit_requested = TRUE] \in Contexts
      BY <1>2 DEF Contexts
    <3> QED BY <1>2, <1>4, <3>1, <3>2 DEF Contexts
  <2> QED BY <2>1, <2>2
<1> HIDE DEF L, n
<1>6. asked'[t] > 0 /\ Len(L) > 0 => ctx'[t].exit_requested /\ L[1].at # "guest"
  <2>1. 1 \in 1..(n - 1) /\ n > 0
    BY <1>2
  <2> QED BY <1>3, <1>5, <2>1 DEF ExecInv, ExitStands, n
<1>7. \A k \in 1..n : k <= Len(L) => L[k] = levels[t][k]
  BY <1>2, <1>3
<1>8. /\ StackOK(L, ctx'[t].cur_rsp)
      /\ result' \in [GuestThreads -> Results] /\ asked' \in [GuestThreads -> Nat]
      /\ \A u \in GuestThreads : u # t => ctx'[u] = ctx[u] /\ asked'[u] = asked[u] /\ result'[u] = result[u]
      /\ asked[t] > 0 => result'[t] = result[t] \/ result'[t] = "exit"
      /\ asked[t] > 0 => \A k \in 1..Len(levels[t]) :
                             k <= Len(L) /\ levels[t][k].at # "guest" => L[k].at # "guest"
  BY <1>1, <1>3, <1>4, <1>5, <1>7 DEF n
<1> QED BY <1>1, <1>5, <1>6, <1>8, ThreadStep

\* The outermost loop ends as an exit, or nobody asked for one.
LEMMA CallEnds ==
    ASSUME ExecInv, NEW t \in GuestThreads, NEW how \in Results, Finished(t, how), UNCHANGED asked,
           asked[t] > 0 => how = "exit"
    PROVE  ExecInv' /\ Unwinds
<1>1. /\ ctx \in [GuestThreads -> Contexts] /\ asked \in [GuestThreads -> Nat]
      /\ result \in [GuestThreads -> Results] /\ levels \in [GuestThreads -> Seq(LevelSet)]
  BY DEF ExecInv, StacksOK
<1>2. NoCtx \in Contexts /\ NoCtx.cur_rsp = 0
  BY DEF NoCtx, Contexts
<1>3. ctx' = [ctx EXCEPT ![t] = NoCtx] /\ levels' = [levels EXCEPT ![t] = <<>>]
  BY DEF Finished
<1>4. /\ result' \in [GuestThreads -> Results]
      /\ \A u \in GuestThreads : u # t => result'[u] = result[u]
      /\ result'[t] = result[t] \/ result'[t] = how
  BY <1>1 DEF Finished
<1>5. StackOK(<<>>, ctx'[t].cur_rsp)
  BY DEF StackOK
<1>6. ctx' \in [GuestThreads -> Contexts] /\ \A u \in GuestThreads : u # t => ctx'[u] = ctx[u]
  BY <1>1, <1>2, <1>3
<1>7. Len(<<>>) = 0
  OBVIOUS
<1>8. asked[t] > 0 =>
           \A k \in 1..Len(levels[t]) :
               k <= Len(<<>>) /\ levels[t][k].at # "guest" => <<>>[k].at # "guest"
  BY <1>7
<1>9. /\ asked' \in [GuestThreads -> Nat]
      /\ \A u \in GuestThreads : u # t => ctx'[u] = ctx[u] /\ asked'[u] = asked[u] /\ result'[u] = result[u]
      /\ asked'[t] > 0 /\ Len(<<>>) > 0 => ctx'[t].exit_requested /\ <<>>[1].at # "guest"
      /\ asked[t] > 0 => result'[t] = result[t] \/ result'[t] = "exit"
  BY <1>1, <1>4, <1>6, <1>7
<1> QED BY <1>3, <1>4, <1>5, <1>6, <1>8, <1>9, ThreadStep

\* A run_guest_call starts a thread's next call on a fresh context.
LEMMA CallBegins ==
    ASSUME ExecInv, NEW t \in GuestThreads, run_guest_call(t)
    PROVE  ExecInv' /\ Unwinds
<1> DEFINE c == [cur_rsp |-> StartRsp, exit_requested |-> FALSE]
           L == <<Level(StartRsp)>>
<1>1. StartRsp \in Int
  <2>1. StackCells + 1 \in Int /\ RedZone \in Nat
    BY GuestExecAssumption
  <2>2. AlignDown(StackCells + 1) \in Int
    BY <2>1, AlignsDown
  <2>3. AlignDown(StackCells + 1) - 1 - RedZone \in Int
    BY <2>1, <2>2
  <2> QED BY <2>3, AlignsDown DEF StartRsp
<1>2. /\ ctx \in [GuestThreads -> Contexts] /\ asked \in [GuestThreads -> Nat]
      /\ result \in [GuestThreads -> Results] /\ levels \in [GuestThreads -> Seq(LevelSet)]
  BY DEF ExecInv, StacksOK
<1>3. c \in Contexts
  BY <1>1 DEF Contexts
<1>4. /\ levels[t] = <<>> /\ ctx' = [ctx EXCEPT ![t] = c] /\ asked' = [asked EXCEPT ![t] = 0]
      /\ result' = result /\ levels' = [levels EXCEPT ![t] = Append(levels[t], Level(StartRsp))]
  BY DEF run_guest_call, Drive
<1>5. /\ Level(StartRsp) \in LevelSet /\ OwnFrame(Level(StartRsp)) /\ Level(StartRsp).at = "guest"
  BY <1>1, FreshLevel
<1>6. L \in Seq(LevelSet) /\ Len(L) = 1 /\ L[1] = Level(StartRsp) /\ levels' = [levels EXCEPT ![t] = L]
  BY <1>4, <1>5
<1> HIDE DEF L, c
<1>7. StackOK(L, ctx'[t].cur_rsp)
  BY <1>5, <1>6 DEF StackOK
<1>8. Len(levels[t]) = 0
  BY <1>4
<1>9. /\ ctx' \in [GuestThreads -> Contexts] /\ asked' \in [GuestThreads -> Nat] /\ asked'[t] = 0
      /\ \A u \in GuestThreads : u # t => ctx'[u] = ctx[u] /\ asked'[u] = asked[u] /\ result'[u] = result[u]
      /\ result' \in [GuestThreads -> Results]
      /\ asked[t] > 0 => result'[t] = result[t] \/ result'[t] = "exit"
  BY <1>2, <1>3, <1>4
<1>10. asked[t] > 0 =>
           \A k \in 1..Len(levels[t]) :
               k <= Len(L) /\ levels[t][k].at # "guest" => L[k].at # "guest"
  BY <1>8
<1>11. asked'[t] > 0 /\ Len(L) > 0 => ctx'[t].exit_requested /\ L[1].at # "guest"
  BY <1>9
<1> QED BY <1>6, <1>7, <1>9, <1>10, <1>11, ThreadStep

\* A handler calls back into the guest.
LEMMA CallGuestStep ==
    ASSUME ExecInv, NEW t \in GuestThreads, Depth(t) > 0, Top(t).at # "guest",
           NEW h \in Handlers, call_guest(t, h)
    PROVE  ExecInv' /\ Unwinds
<1> DEFINE n == Len(levels[t])
           m == IF Top(t).left > 0 THEN Top(t).left - 1 ELSE 0
           lv == [Top(t) EXCEPT !.at = h, !.left = m]
           K == [levels[t] EXCEPT ![n] = lv]
           L == Append(K, Level(NestedRsp(t)))
           c == ctx[t].cur_rsp
<1>1. /\ levels[t] \in Seq(LevelSet) /\ n \in Nat /\ n > 0 /\ Top(t) = levels[t][n]
      /\ Top(t) \in LevelSet /\ OwnFrame(Top(t)) /\ StackOK(levels[t], c)
      /\ c \in Int /\ c <= Top(t).rsp /\ RedZone \in Nat
  BY TopIs, GuestExecAssumption DEF Depth
<1>2. m \in Nat
  BY <1>1 DEF LevelSet
<1>3. /\ levels \in [GuestThreads -> Seq(LevelSet)] /\ ctx \in [GuestThreads -> Contexts]
      /\ asked \in [GuestThreads -> Nat] /\ result \in [GuestThreads -> Results]
  BY DEF ExecInv, StacksOK
<1>4. levels' = [levels EXCEPT ![t] = L] /\ UNCHANGED <<ctx, asked, result>>
  BY <1>1, <1>3 DEF call_guest, Depth, LevelSet
<1>5. /\ lv \in LevelSet /\ OwnFrame(lv) /\ lv.base = Top(t).base /\ lv.rsp = Top(t).rsp
      /\ lv.at = h /\ h # "guest"
  <2> HIDE DEF m
  <2> QED BY <1>1, <1>2 DEF LevelSet, OwnFrame, Handlers
<1>6. K \in Seq(LevelSet) /\ Len(K) = n /\ K[n] = lv /\ \A k \in 1..n : k # n => K[k] = levels[t][k]
  <2> HIDE DEF lv
  <2> QED BY <1>1, <1>5
<1>7. NestedRsp(t) \in Int /\ NestedRsp(t) <= c - RedZone
  <2>1. c - RedZone \in Int
    BY <1>1
  <2> QED BY <2>1, AlignsDown DEF NestedRsp
<1>8. StackOK(K, c)
  <2> HIDE DEF lv
  <2>1. c <= c /\ c <= lv.rsp
    BY <1>1, <1>5
  <2> QED BY <1>1, <1>5, <2>1, TopMoves
<1>9. Len(L) = n + 1 /\ \A k \in 1..n : L[k] = K[k]
  <2> HIDE DEF K
  <2> QED BY <1>1, <1>6
<1>10. StackOK(L, c)
  <2> HIDE DEF K, lv, c
  <2>1. Len(K) > 0 /\ K[Len(K)].at # "guest"
    BY <1>1, <1>5, <1>6
  <2> QED BY <1>1, <1>7, <1>8, <2>1, NestedBegins
<1> HIDE DEF L, K, lv
<1>11. \A k \in 1..n : levels[t][k].at # "guest" /\ L[k].at # "guest"
  <2>1. \A k \in 1..n : k # n => levels[t][k].at # "guest"
    BY <1>1 DEF StackOK
  <2> QED BY <1>1, <1>5, <1>6, <1>9, <2>1
<1>12. asked'[t] > 0 /\ Len(L) > 0 => ctx'[t].exit_requested /\ L[1].at # "guest"
  <2>1. 1 \in 1..n
    BY <1>1
  <2> QED BY <1>1, <1>4, <1>11, <2>1 DEF ExecInv, ExitStands
<1>13. /\ StackOK(L, ctx'[t].cur_rsp)
       /\ ctx' \in [GuestThreads -> Contexts] /\ asked' \in [GuestThreads -> Nat]
       /\ result' \in [GuestThreads -> Results]
       /\ \A u \in GuestThreads : u # t => ctx'[u] = ctx[u] /\ asked'[u] = asked[u] /\ result'[u] = result[u]
       /\ asked[t] > 0 => result'[t] = result[t] \/ result'[t] = "exit"
       /\ asked[t] > 0 => \A k \in 1..Len(levels[t]) :
                              k <= Len(L) /\ levels[t][k].at # "guest" => L[k].at # "guest"
  BY <1>3, <1>4, <1>10, <1>11
<1> QED BY <1>4, <1>12, <1>13, ThreadStep

\* The three ends of a drive loop.
LEMMA DriveEnds ==
    ASSUME ExecInv, NEW t \in GuestThreads,
           drive_thread_exit(t) \/ drive_returned(t) \/ drive_fatal(t)
    PROVE  ExecInv' /\ Unwinds
<1>1. UNCHANGED asked
  BY DEF drive_thread_exit, drive_returned, drive_fatal
<1>2. CASE NestedReturn(t) /\ (UNCHANGED ctx \/ Rearm(t))
  BY <1>1, <1>2, NestedEnds
<1>3. CASE Finished(t, "exit")
  BY <1>1, <1>3, CallEnds DEF Results
<1>4. ASSUME Depth(t) = 1, InGuest(t), NEW how \in Results, Finished(t, how)
      PROVE  ExecInv' /\ Unwinds
  <2>1. Len(levels[t]) > 0 /\ levels[t][1].at = "guest"
    BY <1>4 DEF InGuest, Top, Depth
  <2>2. ~(asked[t] > 0)
    BY <2>1 DEF ExecInv, ExitStands
  <2> QED BY <1>1, <1>4, <2>2, CallEnds
<1>5. CASE drive_thread_exit(t)
  BY <1>2, <1>3, <1>5 DEF drive_thread_exit
<1>6. CASE drive_returned(t)
  <2>1. "returned" \in Results
    BY DEF Results
  <2> QED BY <1>2, <1>4, <1>6, <2>1 DEF drive_returned
<1>7. CASE drive_fatal(t)
  <2>1. "fatal" \in Results
    BY DEF Results
  <2> QED BY <1>2, <1>4, <1>7, <2>1 DEF drive_fatal
<1> QED BY <1>5, <1>6, <1>7

\* Every step of guest execution.
LEMMA ExecSteps ==
    ASSUME ExecInv, [ExecNext]_execCtxVars
    PROVE  ExecInv' /\ Unwinds
<1>1. CASE UNCHANGED execCtxVars
  BY <1>1 DEF execCtxVars, ExecInv, StacksOK, ExitStands, Unwinds
<1>2. ASSUME NEW t \in GuestThreads, syscall(t) \/ syscall_exit(t)
      PROVE  ExecInv' /\ Unwinds
  <2>1. PICK h \in Handlers : Syscall(t, h) /\ asked' = asked
    BY <1>2 DEF syscall, syscall_exit, Handlers
  <2> QED BY <2>1, SyscallStep
<1>3. ASSUME NEW t \in GuestThreads, once_first(t)
      PROVE  ExecInv' /\ Unwinds
  <2>1. Depth(t) > 0 /\ Top(t).at # "guest" /\ call_guest(t, "once_done") /\ "once_done" \in Handlers
    BY <1>3 DEF once_first, InHandler, Handlers
  <2> QED BY <2>1, CallGuestStep
<1>4. ASSUME NEW t \in GuestThreads, module_start(t)
      PROVE  ExecInv' /\ Unwinds
  <2>1. Depth(t) > 0 /\ Top(t).at # "guest" /\ call_guest(t, "modules") /\ "modules" \in Handlers
    BY <1>4 DEF module_start, InHandler, Handlers
  <2> QED BY <2>1, CallGuestStep
<1>5. ASSUME NEW t \in GuestThreads, once_publish(t) \/ once_done(t) \/ modules_done(t)
      PROVE  ExecInv' /\ Unwinds
  <2>1. /\ Depth(t) > 0 /\ Top(t).at # "guest" /\ "return" \in Handlers
        /\ levels' = WithTop(t, [Top(t) EXCEPT !.at = "return"])
        /\ UNCHANGED <<ctx, asked, result>>
    BY <1>5 DEF once_publish, once_done, modules_done, InHandler, Handlers
  <2> QED BY <2>1, HandlerMoves
<1> QED
  BY <1>1, <1>2, <1>3, <1>4, <1>5, CallBegins, GuestSteps, RequestStep, ResumeStep, DriveEnds DEF ExecNext

\* Guest execution's inductive invariant.
THEOREM ExecInvariance == ExecSpec => []ExecInv
<1>1. ExecInit => ExecInv
  <2> SUFFICES ASSUME ExecInit PROVE ExecInv
    OBVIOUS
  <2>1. NoCtx \in Contexts
    BY DEF NoCtx, Contexts
  <2>2. \A t \in GuestThreads : StackOK(levels[t], ctx[t].cur_rsp)
    BY DEF ExecInit, StackOK
  <2>3. StacksOK
    BY <2>1, <2>2 DEF ExecInit, StacksOK, Results
  <2>4. ExitStands
    BY DEF ExecInit, ExitStands
  <2> QED BY <2>3, <2>4 DEF ExecInv
<1>2. ExecInv /\ [ExecNext]_execCtxVars => ExecInv'
  BY ExecSteps
<1> QED BY <1>1, <1>2, PTL DEF ExecSpec

\* No cell a level still counts on is written by another, for any nesting of
\* call_guest, any alignment, red zone and stack, although after a nested call
\* the stack pointer the next one starts from is the nested call's.
THEOREM FramesKept == ExecSpec => []FramesSurvive
<1>1. ExecInv => FramesSurvive
  <2> SUFFICES ASSUME ExecInv, NEW t \in GuestThreads, NEW j \in 1..Depth(t), NEW k \in 1..Depth(t), j # k,
                      NEW a, a \in levels[t][j].own, a \in levels[t][k].own
               PROVE  FALSE
    BY DEF FramesSurvive
  <2> DEFINE L == levels[t]
  <2>1. StackOK(L, ctx[t].cur_rsp) /\ L \in Seq(LevelSet) /\ RedZone \in Nat
    BY GuestExecAssumption DEF ExecInv, StacksOK
  <2>2. j \in 1..Len(L) /\ k \in 1..Len(L) /\ (j < k \/ k < j)
    BY <2>1 DEF Depth
  <2> HIDE DEF L
  <2>3. L[j] \in LevelSet /\ L[k] \in LevelSet
    BY <2>1, <2>2
  <2>4. /\ L[j].rsp \in Int /\ L[k].rsp \in Int /\ L[j].base \in Int /\ L[k].base \in Int
        /\ a \in L[j].own /\ a \in L[k].own /\ a \in Int
    BY <2>3 DEF LevelSet, L
  <2>5. OwnFrame(L[j]) /\ OwnFrame(L[k])
    BY <2>1, <2>2 DEF StackOK
  <2>6. L[k].base < L[j].rsp - RedZone \/ L[j].base < L[k].rsp - RedZone
    BY <2>1, <2>2 DEF StackOK
  <2>7. /\ L[j].rsp - RedZone <= a /\ a <= L[j].base
        /\ L[k].rsp - RedZone <= a /\ a <= L[k].base
    BY <2>4, <2>5 DEF OwnFrame
  <2>8. RedZone \in Int
    BY GuestExecAssumption
  <2> HIDE DEF L
  <2> QED BY <2>4, <2>6, <2>7, <2>8
<1> QED BY <1>1, ExecInvariance, PTL

\* Once a thread asked to exit, no guest code its levels wait for resumes, and
\* its main call ends as an exit, for any nesting (call_guest makes the request
\* its loop took again).
THEOREM ExitsUnwind == ExecSpec => ExitUnwinds
<1>1. ExecInv /\ [ExecNext]_execCtxVars =>
        [ \A t \in GuestThreads :
            asked[t] > 0 =>
              /\ \A k \in 1..asked[t] :
                   Depth(t) >= k /\ Len(levels'[t]) >= k /\ levels[t][k].at # "guest"
                     => levels'[t][k].at # "guest"
              /\ result'[t] # result[t] => result'[t] = "exit" ]_execCtxVars
  BY ExecSteps DEF Unwinds
<1> QED BY <1>1, ExecInvariance, PTL DEF ExecSpec, ExitUnwinds

----------------------------------------------------------------------------
(***************************************************************************)
(* The clock.  Nothing is locked, so the invariant speaks of what each     *)
(* read and each flip under way has loaded (InPace): a virtual anchor is   *)
(* never ahead of the real anchor that is loaded after it.                 *)
(***************************************************************************)
\* How far the floors of the reads made may have pushed guest time ahead.
Lead == FLOOR * reads

Places == {"idle", "last", "virt", "real", "cas", "first", "peek", "store_real", "store_virt"}
Locals == [at : Places, last : Nat, virt : Nat, anchor : Nat, next : Nat]

ClockTypeOK ==
    /\ real \in Nat /\ flips \in Nat /\ virt_anchor \in Nat /\ real_anchor \in Nat
    /\ last_ns \in Nat /\ reads \in Nat
    /\ reader \in [Readers -> Locals] /\ flip \in Locals

\* What a read or a flip under way has in hand, at host time re, with the real
\* anchor at ra and the lead at ld.  A virtual anchor loaded before the real
\* one is never ahead of what the real anchor is by then.
InPace(p, re, ra, ld) ==
    /\ p.last <= re + ld
    /\ p.at = "virt" => p.virt <= ra + ld + 1
    /\ p.at = "real" => p.virt <= p.anchor + ld + 1 /\ p.anchor <= re
    /\ p.at = "cas" => p.next <= re + ld + FLOOR
    /\ p.at = "store_real" => p.next <= re + ld + 1
    /\ p.at = "store_virt" => p.next <= ra + ld + 1

\* In realtime mode nothing is ahead of host time by more than the lead; the
\* one unit more is the first anchor, which is never zero.
Paced ==
    clock_mode = "realtime" =>
        /\ last_ns <= real + Lead
        /\ real_anchor <= real
        /\ virt_anchor <= real_anchor + Lead + 1
        /\ \A r \in Readers : InPace(reader[r], real, real_anchor, Lead)
        /\ InPace(flip, real, real_anchor, Lead)

\* A read about to publish publishes more than it loaded, by the floor.
Floored ==
    \A r \in Readers : reader[r].at = "cas" => reader[r].next >= reader[r].last + FLOOR

ClockInv == ClockTypeOK /\ Paced /\ Floored

\* ReadsKeepPace as an action.
KeepsPace ==
    last_ns' # last_ns =>
        /\ last_ns' >= last_ns + FLOOR
        /\ clock_mode = "realtime" => last_ns' <= real' + FLOOR * reads'

\* A product of naturals is one: what the backends need said once.
LEMMA ProductNat ==
    ASSUME NEW a \in Nat, NEW b \in Nat
    PROVE  a * b \in Nat
  BY Z3

\* The lead is a number, and grows by the floor with each read.
LEMMA LeadIs ==
    ASSUME ClockTypeOK
    PROVE  /\ Lead \in Nat
           /\ reads' = reads => Lead' = Lead
           /\ reads' = reads + 1 => Lead' = Lead + FLOOR
<1>1. reads \in Nat /\ FLOOR \in Nat
  BY ClockAssumption DEF ClockTypeOK
<1>2. FLOOR * reads \in Nat /\ FLOOR * (reads + 1) = FLOOR * reads + FLOOR
  BY <1>1, Z3
<1> QED BY <1>2 DEF Lead

\* What is in hand stays in pace while time, anchor and lead only grow.
LEMMA InPaceStays ==
    ASSUME NEW p \in Locals, NEW re \in Nat, NEW ra \in Nat, NEW ld \in Nat,
           NEW re2 \in Nat, NEW ra2 \in Nat, NEW ld2 \in Nat,
           re <= re2, ra <= ra2, ld <= ld2, InPace(p, re, ra, ld)
    PROVE  InPace(p, re2, ra2, ld2)
BY ClockAssumption DEF InPace, Locals

\* computed_ns with both anchors loaded.
LEMMA ComputedInPace ==
    ASSUME ClockTypeOK, NEW p \in Locals
    PROVE  /\ Computed(p) \in Nat
           /\ clock_mode = "realtime" /\ p.at = "real" /\ InPace(p, real, real_anchor, Lead)
                => Computed(p) <= real + Lead + 1
<1>1. real \in Nat /\ p.last \in Nat /\ p.virt \in Nat /\ p.anchor \in Nat /\ Lead \in Nat
  BY LeadIs DEF ClockTypeOK, Locals
<1>2. flips * FRAME \in Nat
  BY ClockAssumption, Z3 DEF ClockTypeOK
<1> QED BY <1>1, <1>2, ClockAssumption DEF Computed, Lesser, Most, InPace

\* A step that moves at most one read and the flip, each staying in pace.
LEMMA PaceStep ==
    ASSUME ClockInv, clock_mode' = clock_mode, ClockTypeOK',
           real <= real', Lead <= Lead',
           clock_mode = "realtime" =>
               /\ real_anchor <= real_anchor' /\ real_anchor' <= real'
               /\ last_ns' <= real' + Lead'
               /\ virt_anchor' <= real_anchor' + Lead' + 1
               /\ flip' = flip \/ InPace(flip', real', real_anchor', Lead'),
           \A r \in Readers :
               \/ reader'[r] = reader[r]
               \/ /\ clock_mode = "realtime" => InPace(reader'[r], real', real_anchor', Lead')
                  /\ reader'[r].at = "cas" => reader'[r].next >= reader'[r].last + FLOOR
    PROVE  ClockInv'
<1>1. /\ real \in Nat /\ real' \in Nat /\ real_anchor \in Nat /\ real_anchor' \in Nat
      /\ Lead \in Nat /\ Lead' \in Nat
      /\ flip \in Locals /\ flip' \in Locals
  <2>1. reads' \in Nat /\ FLOOR \in Nat
    BY ClockAssumption DEF ClockTypeOK
  <2>2. FLOOR * reads' \in Nat
    BY <2>1, ProductNat
  <2>3. Lead' \in Nat
    BY <2>2 DEF Lead
  <2> QED BY <2>3, LeadIs DEF ClockInv, ClockTypeOK
<1>2. \A r \in Readers : reader[r] \in Locals
  BY DEF ClockInv, ClockTypeOK
<1>3. Floored'
  BY DEF ClockInv, Floored
<1>4. ASSUME clock_mode = "realtime", NEW r \in Readers
      PROVE  InPace(reader'[r], real', real_anchor', Lead')
  <2>1. InPace(reader[r], real, real_anchor, Lead)
    BY <1>4 DEF ClockInv, Paced
  <2>2. InPace(reader[r], real', real_anchor', Lead')
    BY <1>1, <1>2, <1>4, <2>1, InPaceStays
  <2> QED BY <1>4, <2>2
<1>5. ASSUME clock_mode = "realtime"
      PROVE  InPace(flip', real', real_anchor', Lead')
  <2>1. InPace(flip, real, real_anchor, Lead)
    BY <1>5 DEF ClockInv, Paced
  <2>2. InPace(flip, real', real_anchor', Lead')
    BY <1>1, <1>5, <2>1, InPaceStays
  <2> QED BY <1>5, <2>2
<1>6. Paced'
  BY <1>4, <1>5 DEF Paced
<1> QED BY <1>3, <1>6 DEF ClockInv

\* A read that goes on, with q in hand.
LEMMA ReaderStep ==
    ASSUME ClockInv, NEW r \in Readers, NEW q \in Locals,
           reader' = [reader EXCEPT ![r] = q],
           UNCHANGED <<clock_mode, real, flips, virt_anchor, real_anchor, last_ns, reads, flip>>,
           clock_mode = "realtime" => InPace(q, real, real_anchor, Lead),
           q.at = "cas" => q.next >= q.last + FLOOR
    PROVE  ClockInv' /\ KeepsPace
<1>1. ClockTypeOK' /\ Lead' = Lead /\ Lead \in Nat
  BY LeadIs DEF ClockInv, ClockTypeOK
<1>2. \A s \in Readers : reader'[s] = IF s = r THEN q ELSE reader[s]
  BY DEF ClockInv, ClockTypeOK
<1>3. real <= real' /\ Lead <= Lead'
  BY <1>1 DEF ClockInv, ClockTypeOK
<1>4. clock_mode = "realtime" =>
               /\ real_anchor <= real_anchor' /\ real_anchor' <= real'
               /\ last_ns' <= real' + Lead'
               /\ virt_anchor' <= real_anchor' + Lead' + 1
  BY <1>1 DEF ClockInv, ClockTypeOK, Paced
<1>5. \A s \in Readers :
               \/ reader'[s] = reader[s]
               \/ /\ clock_mode = "realtime" => InPace(reader'[s], real', real_anchor', Lead')
                  /\ reader'[s].at = "cas" => reader'[s].next >= reader'[s].last + FLOOR
  BY <1>1, <1>2
<1>6. ClockInv'
  BY <1>1, <1>3, <1>4, <1>5, PaceStep
<1> QED BY <1>6 DEF KeepsPace

\* advance_frame going on, with q in hand; the anchors may be stored.
LEMMA FlipStep ==
    ASSUME ClockInv, NEW q \in Locals, flip' = q,
           UNCHANGED <<clock_mode, real, last_ns, reads, reader>>,
           flips' \in Nat, virt_anchor' \in Nat, real_anchor' \in Nat,
           clock_mode = "realtime" =>
               /\ real_anchor <= real_anchor' /\ real_anchor' <= real
               /\ virt_anchor' <= real_anchor' + Lead + 1
               /\ InPace(q, real, real_anchor', Lead)
    PROVE  ClockInv' /\ KeepsPace
<1>1. ClockTypeOK' /\ Lead' = Lead /\ Lead \in Nat
  BY LeadIs DEF ClockInv, ClockTypeOK
<1>2. real <= real' /\ Lead <= Lead'
  BY <1>1 DEF ClockInv, ClockTypeOK
<1>3. clock_mode = "realtime" =>
               /\ real_anchor <= real_anchor' /\ real_anchor' <= real'
               /\ last_ns' <= real' + Lead'
               /\ virt_anchor' <= real_anchor' + Lead' + 1
               /\ flip' = flip \/ InPace(flip', real', real_anchor', Lead')
  BY <1>1 DEF ClockInv, Paced
<1>4. ClockInv'
  BY <1>1, <1>2, <1>3, PaceStep
<1> QED BY <1>4 DEF KeepsPace

\* The steps of now_ns.
LEMMA NowStep ==
    ASSUME ClockInv, NEW r \in Readers,
           now_ns(r) \/ now_virt(r) \/ now_real(r) \/ now_compute(r) \/ now_cas(r)
    PROVE  ClockInv' /\ KeepsPace
<1> DEFINE p == reader[r]
<1>1. /\ p \in Locals /\ Lead \in Nat
      /\ real \in Nat /\ real_anchor \in Nat /\ virt_anchor \in Nat /\ last_ns \in Nat
      /\ reader \in [Readers -> Locals]
  BY LeadIs DEF ClockInv, ClockTypeOK
<1>2. clock_mode = "realtime" =>
          /\ InPace(p, real, real_anchor, Lead) /\ last_ns <= real + Lead
          /\ virt_anchor <= real_anchor + Lead + 1 /\ real_anchor <= real
  BY DEF ClockInv, Paced
<1> DEFINE q0 == [Idle EXCEPT !.at = "last", !.last = last_ns]
<1>3. q0 \in Locals /\ q0.at = "last" /\ (clock_mode = "realtime" => InPace(q0, real, real_anchor, Lead))
  BY <1>1, <1>2 DEF Idle, Locals, Places, InPace
<1>4. CASE now_ns(r)
  BY <1>3, <1>4, ReaderStep DEF now_ns
<1>5. CASE now_virt(r)
  <2> DEFINE q == LoadVirt(p)
  <2>1. q \in Locals /\ q.at = "virt" /\ (clock_mode = "realtime" => InPace(q, real, real_anchor, Lead))
    BY <1>1, <1>2 DEF LoadVirt, Locals, Places, InPace
  <2>2. reader' = [reader EXCEPT ![r] = q]
    BY <1>1, <1>5 DEF now_virt
  <2> HIDE DEF q
  <2> QED BY <1>5, <2>1, <2>2, ReaderStep DEF now_virt
<1>6. CASE now_real(r)
  <2> DEFINE q == LoadReal(p)
  <2>1. q \in Locals /\ q.at = "real" /\ (clock_mode = "realtime" => InPace(q, real, real_anchor, Lead))
    BY <1>1, <1>2, <1>6 DEF LoadReal, Locals, Places, InPace, now_real
  <2>2. reader' = [reader EXCEPT ![r] = q]
    BY <1>1, <1>6 DEF now_real
  <2> HIDE DEF q
  <2> QED BY <1>6, <2>1, <2>2, ReaderStep DEF now_real
<1>7. CASE now_compute(r)
  <2> DEFINE q == [p EXCEPT !.at = "cas", !.next = Most(Computed(p), p.last + FLOOR)]
  <2>1. /\ Computed(p) \in Nat
        /\ clock_mode = "realtime" => Computed(p) <= real + Lead + 1
    BY <1>1, <1>2, <1>7, ComputedInPace DEF ClockInv, now_compute
  <2>2. Most(Computed(p), p.last + FLOOR) \in Nat /\ Most(Computed(p), p.last + FLOOR) >= p.last + FLOOR
    BY <1>1, <2>1, ClockAssumption DEF Most, Locals
  <2>3. clock_mode = "realtime" => Most(Computed(p), p.last + FLOOR) <= real + Lead + FLOOR
    BY <1>1, <1>2, <2>1, ClockAssumption DEF Most, Locals, InPace
  <2>4. q \in Locals /\ q.at = "cas" /\ q.next = Most(Computed(p), p.last + FLOOR) /\ q.last = p.last
    BY <1>1, <2>2 DEF Locals, Places
  <2>5. clock_mode = "realtime" => InPace(q, real, real_anchor, Lead)
    BY <1>2, <2>3, <2>4 DEF InPace
  <2>6. reader' = [reader EXCEPT ![r] = q]
    BY <1>1, <1>7 DEF now_compute
  <2> HIDE DEF q
  <2> QED BY <1>7, <2>2, <2>4, <2>5, <2>6, ReaderStep DEF now_compute
<1>8. CASE now_cas(r) /\ last_ns # reader[r].last
  BY <1>3, <1>8, ReaderStep DEF now_cas
<1>9. CASE now_cas(r) /\ last_ns = reader[r].last
  <2>1. /\ last_ns' = p.next /\ reads' = reads + 1 /\ p.at = "cas"
        /\ reader' = [reader EXCEPT ![r] = Idle]
        /\ UNCHANGED <<clock_mode, real, flips, virt_anchor, real_anchor, flip>>
    BY <1>9 DEF now_cas
  <2>2. Lead' = Lead + FLOOR
    BY <2>1, LeadIs DEF ClockInv
  <2>3. Idle \in Locals /\ Idle.at = "idle" /\ Idle.last = 0
    BY DEF Idle, Locals, Places
  <2>4. p.next \in Nat /\ p.next >= last_ns + FLOOR
    BY <1>1, <1>9, <2>1 DEF Locals, ClockInv, Floored
  <2>5. clock_mode = "realtime" => p.next <= real + Lead + FLOOR
    BY <1>2, <2>1 DEF InPace
  <2>6. ClockTypeOK'
    BY <2>1, <2>3, <2>4 DEF ClockInv, ClockTypeOK
  <2>7. \A s \in Readers : reader'[s] = IF s = r THEN Idle ELSE reader[s]
    BY <1>1, <2>1
  <2>8. InPace(Idle, real', real_anchor', Lead')
    BY <1>1, <2>1, <2>2, <2>3, ClockAssumption DEF InPace
  <2>9. real <= real' /\ Lead <= Lead'
    BY <1>1, <2>1, <2>2, ClockAssumption
  <2>10. clock_mode = "realtime" =>
               /\ real_anchor <= real_anchor' /\ real_anchor' <= real'
               /\ last_ns' <= real' + Lead'
               /\ virt_anchor' <= real_anchor' + Lead' + 1
               /\ flip' = flip
    BY <1>1, <1>2, <2>1, <2>2, <2>5, ClockAssumption
  <2>11. ClockInv'
    BY <2>1, <2>3, <2>6, <2>7, <2>8, <2>9, <2>10, PaceStep
  <2>12. KeepsPace
    BY <2>1, <2>2, <2>4, <2>10 DEF KeepsPace, Lead
  <2> QED BY <2>11, <2>12
<1> QED BY <1>4, <1>5, <1>6, <1>7, <1>8, <1>9

\* The steps of advance_frame.
LEMMA AdvanceStep ==
    ASSUME ClockInv,
           \/ advance_frame \/ first_anchor \/ peek_last \/ peek_anchors \/ peek_compute
           \/ store_first \/ store_last
    PROVE  ClockInv' /\ KeepsPace
<1>1. /\ flip \in Locals /\ Lead \in Nat /\ flips \in Nat
      /\ real \in Nat /\ real_anchor \in Nat /\ virt_anchor \in Nat /\ last_ns \in Nat
  BY LeadIs DEF ClockInv, ClockTypeOK
<1>2. clock_mode = "realtime" =>
          /\ InPace(flip, real, real_anchor, Lead) /\ last_ns <= real + Lead
          /\ virt_anchor <= real_anchor + Lead + 1 /\ real_anchor <= real
          /\ real_anchor <= real_anchor
  BY <1>1 DEF ClockInv, Paced
<1>3. CASE advance_frame
  <2> DEFINE q == [Idle EXCEPT !.at = IF flips = 0 THEN "first"
                                   ELSE IF clock_mode = "fixed_step" THEN "idle" ELSE "peek"]
  <2>1. q \in Locals /\ q.at \in {"first", "idle", "peek"} /\ q.last = 0
    BY DEF Idle, Locals, Places
  <2>2. InPace(q, real, real_anchor, Lead)
    BY <1>1, <2>1 DEF InPace
  <2>3. flip' = q /\ flips' \in Nat
        /\ UNCHANGED <<clock_mode, real, virt_anchor, real_anchor, last_ns, reads, reader>>
    BY <1>1, <1>3 DEF advance_frame
  <2> HIDE DEF q
  <2> QED BY <1>1, <1>2, <2>1, <2>2, <2>3, FlipStep
<1>4. CASE first_anchor
  <2> DEFINE w == IF clock_mode = "fixed_step" THEN "store_virt" ELSE "store_real"
             q == [flip EXCEPT !.at = w, !.next = Most(last_ns, 1)]
  <2>1. Most(last_ns, 1) \in Nat /\ (clock_mode = "realtime" => Most(last_ns, 1) <= real + Lead + 1)
    BY <1>1, <1>2 DEF Most
  <2>2. q \in Locals /\ q.at = w /\ q.next = Most(last_ns, 1) /\ q.last = flip.last
    BY <1>1, <2>1 DEF Locals, Places
  <2>3. clock_mode = "realtime" => InPace(q, real, real_anchor, Lead)
    BY <1>2, <2>1, <2>2 DEF InPace
  <2>4. flip' = q
        /\ UNCHANGED <<clock_mode, real, flips, virt_anchor, real_anchor, last_ns, reads, reader>>
    BY <1>4 DEF first_anchor
  <2> HIDE DEF q
  <2> QED BY <1>1, <1>2, <2>2, <2>3, <2>4, FlipStep
<1>5. CASE peek_last
  <2> DEFINE q == [flip EXCEPT !.at = "last", !.last = last_ns]
  <2>1. q \in Locals /\ q.at = "last" /\ q.last = last_ns
    BY <1>1 DEF Locals, Places
  <2>2. clock_mode = "realtime" => InPace(q, real, real_anchor, Lead)
    BY <1>2, <2>1 DEF InPace
  <2>3. flip' = q
        /\ UNCHANGED <<clock_mode, real, flips, virt_anchor, real_anchor, last_ns, reads, reader>>
    BY <1>5 DEF peek_last
  <2> HIDE DEF q
  <2> QED BY <1>1, <1>2, <2>1, <2>2, <2>3, FlipStep
<1>6. CASE peek_anchors
  <2> DEFINE q == IF flip.at = "last" THEN LoadVirt(flip) ELSE LoadReal(flip)
  <2>1. CASE flip.at = "last"
    <3>1. q \in Locals /\ q.at = "virt" /\ (clock_mode = "realtime" => InPace(q, real, real_anchor, Lead))
      BY <1>1, <1>2, <2>1 DEF LoadVirt, Locals, Places, InPace
    <3>2. flip' = q
          /\ UNCHANGED <<clock_mode, real, flips, virt_anchor, real_anchor, last_ns, reads, reader>>
      BY <1>6 DEF peek_anchors
    <3> HIDE DEF q
    <3> QED BY <1>1, <1>2, <3>1, <3>2, FlipStep
  <2>2. CASE flip.at = "virt"
    <3>1. q \in Locals /\ q.at = "real" /\ (clock_mode = "realtime" => InPace(q, real, real_anchor, Lead))
      BY <1>1, <1>2, <2>2 DEF LoadReal, Locals, Places, InPace
    <3>2. flip' = q
          /\ UNCHANGED <<clock_mode, real, flips, virt_anchor, real_anchor, last_ns, reads, reader>>
      BY <1>6 DEF peek_anchors
    <3> HIDE DEF q
    <3> QED BY <1>1, <1>2, <3>1, <3>2, FlipStep
  <2> QED BY <1>6, <2>1, <2>2 DEF peek_anchors
<1>7. CASE peek_compute
  <2> DEFINE x == Most(Most(Computed(flip), flip.last), 1)
             q == [flip EXCEPT !.at = "store_real", !.next = x]
  <2>1. /\ Computed(flip) \in Nat
        /\ clock_mode = "realtime" => Computed(flip) <= real + Lead + 1
    BY <1>1, <1>2, <1>7, ComputedInPace DEF ClockInv, peek_compute
  <2>2. x \in Nat /\ (clock_mode = "realtime" => x <= real + Lead + 1)
    BY <1>1, <1>2, <2>1 DEF Most, Locals, InPace
  <2>3. q \in Locals /\ q.at = "store_real" /\ q.next = x /\ q.last = flip.last
    BY <1>1, <2>2 DEF Locals, Places
  <2>4. clock_mode = "realtime" => InPace(q, real, real_anchor, Lead)
    BY <1>2, <2>2, <2>3 DEF InPace
  <2>5. flip' = q
        /\ UNCHANGED <<clock_mode, real, flips, virt_anchor, real_anchor, last_ns, reads, reader>>
    BY <1>7 DEF peek_compute
  <2> HIDE DEF q
  <2> QED BY <1>1, <1>2, <2>3, <2>4, <2>5, FlipStep
<1>8. CASE store_first
  <2> DEFINE q == [flip EXCEPT !.at = "store_virt"]
  <2>1. q \in Locals /\ q.at = "store_virt" /\ q.next = flip.next /\ q.last = flip.last
    BY <1>1 DEF Locals, Places
  <2>2. /\ flip.at = "store_real" /\ real_anchor' = real
        /\ flip' = q /\ UNCHANGED <<clock_mode, real, flips, virt_anchor, last_ns, reads, reader>>
    BY <1>8 DEF store_first, AnchorStore, StoreReal
  <2>3. clock_mode = "realtime" => InPace(q, real, real_anchor', Lead)
    BY <1>2, <2>1, <2>2 DEF InPace
  <2>4. clock_mode = "realtime" =>
            /\ real_anchor <= real_anchor' /\ real_anchor' <= real
            /\ virt_anchor' <= real_anchor' + Lead + 1
    BY <1>1, <1>2, <2>2
  <2> HIDE DEF q
  <2> QED BY <1>1, <2>1, <2>2, <2>3, <2>4, FlipStep
<1>9. CASE store_last
  <2>1. /\ flip.at = "store_virt" /\ virt_anchor' = flip.next /\ flip' = Idle
        /\ UNCHANGED <<clock_mode, real, flips, real_anchor, last_ns, reads, reader>>
    BY <1>9 DEF store_last, AnchorStore, StoreVirt
  <2>2. Idle \in Locals /\ Idle.at = "idle" /\ Idle.last = 0 /\ flip.next \in Nat
    BY <1>1 DEF Idle, Locals, Places
  <2>3. InPace(Idle, real, real_anchor, Lead)
    BY <1>1, <2>2 DEF InPace
  <2>4. clock_mode = "realtime" => virt_anchor' <= real_anchor' + Lead + 1
    BY <1>2, <2>1 DEF InPace
  <2> QED BY <1>1, <1>2, <2>1, <2>2, <2>3, <2>4, FlipStep
<1> QED BY <1>3, <1>4, <1>5, <1>6, <1>7, <1>8, <1>9

\* Every step of the clock.
LEMMA ClockSteps ==
    ASSUME ClockInv, [ClockNext]_clockVars
    PROVE  ClockInv' /\ KeepsPace
<1>1. CASE HostTick
  <2>1. /\ real' = real + 1 /\ real \in Nat /\ Lead' = Lead /\ Lead \in Nat
        /\ UNCHANGED <<clock_mode, flips, virt_anchor, real_anchor, last_ns, reads, reader, flip>>
    BY <1>1, LeadIs DEF HostTick, ClockInv, ClockTypeOK
  <2>2. ClockTypeOK'
    BY <2>1 DEF ClockInv, ClockTypeOK
  <2>3. clock_mode = "realtime" =>
               /\ real_anchor <= real_anchor' /\ real_anchor' <= real'
               /\ last_ns' <= real' + Lead'
               /\ virt_anchor' <= real_anchor' + Lead' + 1
    BY <2>1 DEF ClockInv, ClockTypeOK, Paced
  <2>4. ClockInv'
    BY <2>1, <2>2, <2>3, PaceStep
  <2> QED BY <2>1, <2>4 DEF KeepsPace
<1>2. CASE UNCHANGED clockVars
  BY <1>2 DEF clockVars, ClockInv, ClockTypeOK, Paced, Floored, Lead, InPace, KeepsPace
<1> QED BY <1>1, <1>2, NowStep, AdvanceStep DEF ClockNext

\* The clock's inductive invariant.
THEOREM ClockInvariance == ClockSpec => []ClockInv
<1>1. ClockInit => ClockInv
  <2> SUFFICES ASSUME ClockInit PROVE ClockInv
    OBVIOUS
  <2>1. Idle \in Locals /\ Idle.at = "idle" /\ Idle.last = 0
    BY DEF Idle, Locals, Places
  <2>2. ClockTypeOK
    BY <2>1 DEF ClockInit, ClockTypeOK
  <2>3. Lead \in Nat
    BY <2>2, LeadIs
  <2>4. InPace(Idle, 0, 0, Lead)
    BY <2>1, <2>3 DEF InPace
  <2>5. Paced /\ Floored
    BY <2>1, <2>3, <2>4 DEF ClockInit, Paced, Floored
  <2> QED BY <2>2, <2>5 DEF ClockInv
<1>2. ClockInv /\ [ClockNext]_clockVars => ClockInv'
  BY ClockSteps
<1> QED BY <1>1, <1>2, PTL DEF ClockSpec

\* now_ns is later than the read before by the floor and, in realtime mode,
\* never ahead of host time by more than the floors of the reads made, for any
\* number of readers and any interleaving with the anchor stores of
\* advance_frame.
THEOREM ClockKeepsPace == ClockSpec => ReadsKeepPace
<1>1. ClockInv /\ [ClockNext]_clockVars =>
        [ last_ns' # last_ns =>
            /\ last_ns' >= last_ns + FLOOR
            /\ clock_mode = "realtime" => last_ns' <= real' + FLOOR * reads' ]_clockVars
  BY ClockSteps DEF KeepsPace
<1> QED BY <1>1, ClockInvariance, PTL DEF ClockSpec, ReadsKeepPace

----------------------------------------------------------------------------
(***************************************************************************)
(* Audio output.  The ring alternates only as long as it holds whole       *)
(* frames: what is cut off at the front must be even (Stereo).             *)
(***************************************************************************)
Calls == [at : {"idle", "push", "pace", "drain", "sleep"}, port : Int, rate : Nat, due : Int]

AudioTypeOK ==
    /\ \A h \in DOMAIN ports : ports[h] \in Nat
    /\ \A h \in DOMAIN resamplers : resamplers[h] \in Int
    /\ \A h \in DOMAIN deadlines : deadlines[h] \in Int
    /\ out \in [AudioThreads -> Calls] /\ audio_now \in Nat

\* Whole stereo frames, left before right.
Stereo(s) ==
    /\ s \in Seq({"L", "R"})
    /\ \E k \in Nat : Len(s) = 2 * k
    /\ \A i \in 1..Len(s) : s[i] = IF i % 2 = 1 THEN "L" ELSE "R"

\* The ring never holds half a frame.
AudioInv == AudioTypeOK /\ Stereo(ring)

\* An even shift keeps odd and even apart.
LEMMA EvenShift ==
    ASSUME NEW i \in Int, NEW k \in Int
    PROVE  (i + 2 * k) % 2 = i % 2
BY Z3

\* Frames makes stereo frames.
LEMMA FramesStereo ==
    ASSUME NEW n \in Nat
    PROVE  Stereo(Frames(n))
<1>1. 2 * n \in Nat
  OBVIOUS
<1>2. Frames(n) \in [1..2 * n -> {"L", "R"}]
  BY DEF Frames
<1>3. Frames(n) \in Seq({"L", "R"}) /\ Len(Frames(n)) = 2 * n
  BY <1>1, <1>2
<1> QED BY <1>3 DEF Stereo, Frames

\* Frames after frames are frames.
LEMMA ConcatStereo ==
    ASSUME NEW s, NEW u, Stereo(s), Stereo(u)
    PROVE  Stereo(s \o u)
<1>1. s \in Seq({"L", "R"}) /\ u \in Seq({"L", "R"})
  BY DEF Stereo
<1>2. PICK k \in Nat : Len(s) = 2 * k
  BY DEF Stereo
<1>3. PICK m \in Nat : Len(u) = 2 * m
  BY DEF Stereo
<1>4. s \o u \in Seq({"L", "R"}) /\ Len(s \o u) = Len(s) + Len(u)
  BY <1>1
<1>5. Len(s \o u) = 2 * (k + m) /\ k + m \in Nat
  BY <1>2, <1>3, <1>4
<1>6. ASSUME NEW i \in 1..Len(s \o u)
      PROVE  (s \o u)[i] = IF i % 2 = 1 THEN "L" ELSE "R"
  <2>1. CASE i <= Len(s)
    <3>1. i \in 1..Len(s) /\ (s \o u)[i] = s[i]
      BY <1>1, <2>1
    <3> QED BY <3>1 DEF Stereo
  <2>2. CASE i > Len(s)
    <3>1. i - Len(s) \in 1..Len(u) /\ (s \o u)[i] = u[i - Len(s)]
      BY <1>1, <1>4, <2>2
    <3>2. (i - Len(s)) % 2 = i % 2
      <4>1. i - Len(s) \in Int /\ i = (i - Len(s)) + 2 * k
        BY <1>2
      <4> QED BY <4>1, EvenShift
    <3> QED BY <3>1, <3>2 DEF Stereo
  <2> QED BY <1>1, <2>1, <2>2
<1> QED BY <1>4, <1>5, <1>6 DEF Stereo

\* Dropping whole frames from the front leaves frames.
LEMMA SuffixStereo ==
    ASSUME NEW s, Stereo(s), NEW m \in Nat, 2 * m <= Len(s)
    PROVE  Stereo(SubSeq(s, 2 * m + 1, Len(s)))
<1> DEFINE u == SubSeq(s, 2 * m + 1, Len(s))
<1>1. s \in Seq({"L", "R"}) /\ Len(s) \in Nat
  BY DEF Stereo
<1>2. PICK k \in Nat : Len(s) = 2 * k
  BY DEF Stereo
<1>3. /\ u \in Seq({"L", "R"}) /\ Len(u) = Len(s) - 2 * m
      /\ \A i \in 1..Len(u) : u[i] = s[i + 2 * m]
  <2>1. \A i \in (2 * m + 1)..Len(s) : s[i] \in {"L", "R"}
    BY <1>1
  <2>2. /\ u \in Seq({"L", "R"})
        /\ Len(u) = IF 2 * m + 1 <= Len(s) THEN Len(s) - (2 * m + 1) + 1 ELSE 0
        /\ \A i \in 1..(Len(s) - (2 * m + 1) + 1) : u[i] = s[2 * m + 1 + i - 1]
    BY <1>1, <2>1, SubSeqProperties
  <2> HIDE DEF u
  <2>3. Len(u) = Len(s) - 2 * m
    <3>1. 2 * m \in Nat /\ 2 * m <= Len(s)
      OBVIOUS
    <3>2. CASE 2 * m + 1 <= Len(s)
      BY <1>1, <2>2, <3>1, <3>2
    <3>3. CASE ~(2 * m + 1 <= Len(s))
      <4>1. Len(u) = 0 /\ Len(s) = 2 * m
        BY <1>1, <2>2, <3>1, <3>3
      <4> QED BY <1>1, <4>1
    <3> QED BY <3>2, <3>3
  <2>4. ASSUME NEW i \in 1..Len(u) PROVE u[i] = s[i + 2 * m]
    <3>1. i \in 1..(Len(s) - (2 * m + 1) + 1) /\ 2 * m + 1 + i - 1 = i + 2 * m
      BY <1>1, <2>3
    <3> QED BY <2>2, <3>1
  <2> QED BY <2>2, <2>3, <2>4
<1> HIDE DEF u
<1>4. Len(u) = 2 * (k - m) /\ k - m \in Nat
  BY <1>2, <1>3
<1>5. ASSUME NEW i \in 1..Len(u)
      PROVE  u[i] = IF i % 2 = 1 THEN "L" ELSE "R"
  <2>1. i + 2 * m \in 1..Len(s) /\ u[i] = s[i + 2 * m]
    BY <1>1, <1>3
  <2>2. (i + 2 * m) % 2 = i % 2
    BY EvenShift
  <2> QED BY <2>1, <2>2 DEF Stereo
<1> QED BY <1>3, <1>4, <1>5 DEF Stereo, u

\* The limit is a whole number of frames, and so is what is cut off.
LEMMA TrimStereo ==
    ASSUME NEW s, Stereo(s)
    PROVE  Stereo(Trim(s))
<1>1. PICK k \in Nat : Len(s) = 2 * k
  BY DEF Stereo
<1>2. PICK c \in Nat : RING_CAP = 2 * c
  <2>1. RING_CAP = 2 * (RING_CAP \div 2) /\ RING_CAP \div 2 \in Nat
    BY AudioAssumption, Z3
  <2> QED BY <2>1
<1>3. CASE Len(s) > RING_CAP
  <2>1. k - c \in Nat /\ 2 * (k - c) <= Len(s) /\ Len(s) - RING_CAP + 1 = 2 * (k - c) + 1
    BY <1>1, <1>2, <1>3
  <2>2. Stereo(SubSeq(s, 2 * (k - c) + 1, Len(s)))
    BY <2>1, SuffixStereo
  <2> QED BY <1>3, <2>1, <2>2 DEF Trim
<1>4. CASE ~(Len(s) > RING_CAP)
  BY <1>4 DEF Trim
<1> QED BY <1>3, <1>4

\* resample_into makes a whole number of frames and leaves a fraction.
LEMMA ResampledIs ==
    ASSUME AudioTypeOK, NEW h, NEW rate \in Nat \ {0}
    PROVE  Resampled(h, rate).frames \in Nat /\ Resampled(h, rate).left \in Int
<1> DEFINE f == Fraction(h)
           a == GRAIN * AUDIO_RATE
           n == OutFrames(f, rate, GRAIN)
<1>1. f \in Int
  BY DEF Fraction, AudioTypeOK
<1>2. a \in Int
  BY AudioAssumption, Z3
<1>3. n \in Nat
  <2> HIDE DEF f, a
  <2>1. n = IF f >= a THEN 0 ELSE (a - f + rate - 1) \div rate
    BY DEF OutFrames, a
  <2> HIDE DEF n
  <2>2. CASE f >= a
    BY <2>1, <2>2
  <2>3. CASE ~(f >= a)
    <3>1. a - f + rate - 1 \in Nat
      BY <1>1, <1>2, <2>3
    <3>2. (a - f + rate - 1) \div rate \in Nat
      BY <3>1, Z3
    <3> QED BY <2>1, <2>3, <3>2
  <2> QED BY <2>2, <2>3
<1>4. n * rate \in Int
  <2> HIDE DEF n
  <2> QED BY <1>3, Z3
<1>5. f + n * rate - a \in Int
  <2> HIDE DEF f, n, a
  <2> QED BY <1>1, <1>2, <1>4
<1> QED BY <1>3, <1>5 DEF Resampled

\* A step that leaves the maps of numbers and calls well formed.
LEMMA AudioSteps ==
    ASSUME AudioInv, [AudioNext]_audioVars
    PROVE  AudioInv'
<1>1. AudioTypeOK /\ Stereo(ring) /\ out \in [AudioThreads -> Calls] /\ audio_now \in Nat
  BY DEF AudioInv, AudioTypeOK
<1>2. NoCall \in Calls
  BY DEF NoCall, Calls
<1>3. ASSUME NEW r \in Rates, sce_audio_out_open(r)
      PROVE  AudioInv'
  BY <1>1, <1>3, AudioAssumption DEF sce_audio_out_open, AudioInv, AudioTypeOK, Extend
<1>4. ASSUME NEW h \in 1..MaxPorts, sce_audio_out_close(h)
      PROVE  AudioInv'
  BY <1>1, <1>4 DEF sce_audio_out_close, AudioInv, AudioTypeOK, Drop
<1>5. ASSUME NEW h \in 1..MaxPorts, NEW t \in AudioThreads, sce_audio_out_output(t, h)
      PROVE  AudioInv'
  <2>1. [at |-> "push", port |-> h, rate |-> ports[h], due |-> 0] \in Calls
    BY <1>1, <1>5 DEF sce_audio_out_output, AudioTypeOK, Calls
  <2> QED BY <1>1, <1>5, <2>1 DEF sce_audio_out_output, AudioInv, AudioTypeOK
<1>6. ASSUME NEW t \in AudioThreads, push_to_host(t)
      PROVE  AudioInv'
  <2> DEFINE c == out[t]
  <2>1. c \in Calls /\ c.rate \in Nat
    BY <1>1 DEF Calls
  <2>2. out' \in [AudioThreads -> Calls]
    <3>1. (IF c.rate = 0 THEN NoCall ELSE [c EXCEPT !.at = "pace"]) \in Calls
      BY <1>2, <2>1 DEF Calls
    <3>2. out' = [out EXCEPT ![t] = IF c.rate = 0 THEN NoCall ELSE [c EXCEPT !.at = "pace"]]
      BY <1>6 DEF push_to_host
    <3> QED BY <1>1, <3>1, <3>2
  <2>3. UNCHANGED <<ports, deadlines, audio_now>>
    BY <1>6 DEF push_to_host
  <2>4. CASE c.rate \in {0, AUDIO_RATE}
    <3>1. ring' = Trim(ring \o Frames(GRAIN)) /\ UNCHANGED resamplers
      BY <1>6, <2>4 DEF push_to_host
    <3>2. Stereo(ring')
      BY <1>1, <3>1, FramesStereo, ConcatStereo, TrimStereo, AudioAssumption
    <3> QED BY <1>1, <2>2, <2>3, <3>1, <3>2 DEF AudioInv, AudioTypeOK
  <2>5. CASE c.rate \notin {0, AUDIO_RATE}
    <3> DEFINE d == Resampled(c.port, c.rate)
    <3>1. d.frames \in Nat /\ d.left \in Int
      BY <1>1, <2>1, <2>5, ResampledIs
    <3>2. ring' = Trim(ring \o Frames(d.frames)) /\ resamplers' = Extend(resamplers, c.port, d.left)
      BY <1>6, <2>5 DEF push_to_host
    <3> HIDE DEF d
    <3>3. Stereo(ring')
      BY <1>1, <3>1, <3>2, FramesStereo, ConcatStereo, TrimStereo
    <3>4. \A h \in DOMAIN resamplers' : resamplers'[h] \in Int
      BY <1>1, <3>1, <3>2 DEF AudioTypeOK, Extend
    <3> QED BY <1>1, <2>2, <2>3, <3>3, <3>4 DEF AudioInv, AudioTypeOK
  <2> QED BY <2>4, <2>5
<1>7. ASSUME NEW t \in AudioThreads, pace_start(t)
      PROVE  AudioInv'
  <2>1. UNCHANGED <<ports, resamplers, ring, audio_now>>
    BY <1>7 DEF pace_start
  <2>2. CASE sink_ok
    <3>1. audio_now + Patience \in Int
      BY <1>1, AudioAssumption
    <3>2. out' = [out EXCEPT ![t] = [out[t] EXCEPT !.at = "drain", !.due = audio_now + Patience]]
          /\ UNCHANGED deadlines
      BY <1>1, <1>7, <2>2 DEF pace_start, Calls
    <3>3. [out[t] EXCEPT !.at = "drain", !.due = audio_now + Patience] \in Calls
      BY <1>1, <3>1 DEF Calls
    <3> QED BY <1>1, <2>1, <3>2, <3>3 DEF AudioInv, AudioTypeOK
  <2>3. CASE ~sink_ok
    <3> DEFINE h == out[t].port
               d == IF h \in DOMAIN deadlines /\ deadlines[h] > audio_now THEN deadlines[h] ELSE audio_now
    <3>1. d \in Int
      BY <1>1 DEF AudioTypeOK
    <3>2. /\ deadlines' = Extend(deadlines, h, d + 1)
          /\ out' = [out EXCEPT ![t] = [out[t] EXCEPT !.at = "sleep", !.due = d]]
      BY <1>1, <1>7, <2>3 DEF pace_start, Calls
    <3> HIDE DEF d
    <3>3. [out[t] EXCEPT !.at = "sleep", !.due = d] \in Calls
      BY <1>1, <3>1 DEF Calls
    <3>4. \A x \in DOMAIN deadlines' : deadlines'[x] \in Int
      BY <1>1, <3>1, <3>2 DEF AudioTypeOK, Extend
    <3> QED BY <1>1, <2>1, <3>2, <3>3, <3>4 DEF AudioInv, AudioTypeOK
  <2> QED BY <2>2, <2>3
<1>8. ASSUME NEW t \in AudioThreads, pace_end(t)
      PROVE  AudioInv'
  BY <1>1, <1>2, <1>8 DEF pace_end, AudioInv, AudioTypeOK
<1>9. CASE host_stream
  BY <1>1, <1>9 DEF host_stream, AudioInv, AudioTypeOK
<1>10. CASE drain_primed
  <2>1. UNCHANGED <<ports, resamplers, deadlines, audio_now, out>>
    BY <1>10 DEF drain_primed
  <2>2. CASE Len(ring) >= 2 * DeviceFrames
    <3>1. ring' = SubSeq(ring, 2 * DeviceFrames + 1, Len(ring))
      BY <1>10, <2>2 DEF drain_primed
    <3>2. 2 * DeviceFrames <= Len(ring)
      BY <1>1, <2>2, AudioAssumption DEF Stereo
    <3>3. Stereo(ring')
      BY <1>1, <3>1, <3>2, SuffixStereo, AudioAssumption
    <3> QED BY <1>1, <2>1, <3>3 DEF AudioInv, AudioTypeOK
  <2>3. CASE ~(Len(ring) >= 2 * DeviceFrames)
    <3>1. ring' = <<>>
      BY <1>10, <2>3 DEF drain_primed
    <3>2. Stereo(ring')
      BY <3>1 DEF Stereo
    <3> QED BY <1>1, <2>1, <3>2 DEF AudioInv, AudioTypeOK
  <2> QED BY <2>2, <2>3
<1>11. CASE AudioTick
  BY <1>1, <1>11 DEF AudioTick, AudioInv, AudioTypeOK
<1>12. CASE UNCHANGED audioVars
  BY <1>1, <1>12 DEF audioVars, AudioInv, AudioTypeOK
<1> QED
  BY <1>3, <1>4, <1>5, <1>6, <1>7, <1>8, <1>9, <1>10, <1>11, <1>12 DEF AudioNext

\* The device plays left samples left, for any number of ports, threads and
\* rates, any grain, and any even limit of the ring: grains of several ports
\* appended, trimmed from the front and drained, in an underrun too.
THEOREM LeftStaysLeft == AudioSpec => []StereoAligned
<1>1. AudioInit => AudioInv
  <2> SUFFICES ASSUME AudioInit PROVE AudioInv
    OBVIOUS
  <2>1. NoCall \in Calls
    BY DEF NoCall, Calls
  <2>2. AudioTypeOK
    BY <2>1 DEF AudioInit, AudioTypeOK
  <2>3. Stereo(ring)
    BY DEF AudioInit, Stereo
  <2> QED BY <2>2, <2>3 DEF AudioInv
<1>2. AudioInv /\ [AudioNext]_audioVars => AudioInv'
  BY AudioSteps
<1>3. AudioInv => StereoAligned
  BY DEF AudioInv, Stereo, StereoAligned
<1> QED BY <1>1, <1>2, <1>3, PTL DEF AudioSpec

----------------------------------------------------------------------------
(***************************************************************************)
(* Offline services.                                                       *)
(***************************************************************************)
Steps == {"off", "set_up", "ready", "asked", "settled", "closing"}
SessionSet == [svc : Services, at : Steps, rounds : Nat, next : Nat]
Rings == [events : {<<>>, <<USER_ID>>}, active : SUBSET {USER_ID}, seeded : BOOLEAN]

\* A session goes round for the chunks it was answered for, and for no other reason.
RoundsFew(c) == IF c.svc = PlayGo THEN c.rounds <= c.next /\ c.next <= PLAYGO_CHUNK_COUNT ELSE c.rounds = 0
SessionsInv == session \in [Titles -> SessionSet] /\ \A t \in Titles : RoundsFew(session[t])

\* The one login is still to be seeded, waits in the ring, or was delivered
\* to one thread; until it was, no thread was told there is nothing.
LoginOnce ==
    /\ login_ring \in Rings /\ logins \in [Titles -> Nat]
    /\ \/ /\ ~login_ring.seeded /\ login_ring.events = <<>> /\ login_ring.active = {}
          /\ \A t \in Titles : logins[t] = 0
          /\ told = {}
       \/ /\ login_ring.seeded /\ login_ring.events = <<USER_ID>>
          /\ \A t \in Titles : logins[t] = 0
          /\ told = {}
       \/ /\ login_ring.seeded /\ login_ring.events = <<>>
          /\ \E w \in Titles : \A t \in Titles : logins[t] = IF t = w THEN 1 ELSE 0

OfflineInv == SessionsInv /\ LoginOnce

\* No answer of a library sends a title round again.
LEMMA NoneIsPending ==
    \A svc \in Services : "again" \notin svc.init \cup svc.create \cup svc.ask \cup svc.poll \cup svc.fetch
<1> DEFINE Fine(svc) == "again" \notin svc.init \cup svc.create \cup svc.ask \cup svc.poll \cup svc.fetch
<1>1. /\ Fine(NpManager) /\ Fine(NpTss) /\ Fine(WebApi) /\ Fine(NpPolled) /\ Fine(NpRequest)
      /\ Fine(NpBandwidthTest) /\ Fine(NpInGameMessage) /\ Fine(NpContext) /\ Fine(Dialog)
  BY DEF Service, NpManager, NpTss, WebApi, NpPolled, NpRequest, NpBandwidthTest, NpInGameMessage,
         NpContext, Dialog
<1>2. /\ Fine(NetCtl) /\ Fine(Http) /\ Fine(ContentExport) /\ Fine(VideoRecording) /\ Fine(SharePlay)
      /\ Fine(LiveStreaming) /\ Fine(Remoteplay) /\ Fine(AvPlayer) /\ Fine(PlayGo)
  BY DEF Service, NetCtl, Http, ContentExport, VideoRecording, SharePlay, LiveStreaming, Remoteplay,
         AvPlayer, PlayGo
<1> HIDE DEF Fine
<1>3. \A svc \in Services : Fine(svc)
  BY <1>1, <1>2 DEF Services
<1> QED BY <1>3 DEF Fine

\* A session of t becomes s.
LEMMA SessionStep ==
    ASSUME SessionsInv, NEW t \in Titles, NEW s \in SessionSet, session' = [session EXCEPT ![t] = s],
           RoundsFew(s)
    PROVE  SessionsInv'
<1>1. session' \in [Titles -> SessionSet]
  BY DEF SessionsInv
<1>2. \A u \in Titles : session'[u] = IF u = t THEN s ELSE session[u]
  BY DEF SessionsInv
<1>3. \A u \in Titles : RoundsFew(session'[u])
  BY <1>2 DEF SessionsInv
<1> QED BY <1>1, <1>3 DEF SessionsInv

\* A session moves on, its rounds as they are.
LEMMA MoveStep ==
    ASSUME SessionsInv, NEW t \in Titles, NEW at \in Steps, session' = [session EXCEPT ![t].at = at]
    PROVE  SessionsInv'
<1> DEFINE s == [session[t] EXCEPT !.at = at]
<1>1. session[t] \in SessionSet /\ RoundsFew(session[t])
  BY DEF SessionsInv
<1>2. s \in SessionSet /\ s.svc = session[t].svc /\ s.rounds = session[t].rounds /\ s.next = session[t].next
  BY <1>1 DEF SessionSet
<1>3. session' = [session EXCEPT ![t] = s]
  BY DEF SessionsInv
<1> HIDE DEF s
<1>4. RoundsFew(s)
  BY <1>1, <1>2 DEF RoundsFew
<1> QED BY <1>2, <1>3, <1>4, SessionStep

\* The calls of a phase none of which says "again".
LEMMA PhaseStep ==
    ASSUME SessionsInv, NEW t \in Titles, NEW answers, NEW here \in Steps, NEW on \in Steps,
           here # on, here # "closing", "again" \notin answers, Phase(t, answers, here, on)
    PROVE  SessionsInv'
<1>1. PICK at \in After(answers, here, on) :
          session' = [session EXCEPT ![t].at = at, ![t].rounds = IF at = here THEN @ + 1 ELSE @]
  BY DEF Phase
<1>2. at \in Steps /\ at # here
  BY DEF After, Steps
<1>3. session' = [session EXCEPT ![t].at = at]
  BY <1>1, <1>2 DEF SessionsInv, SessionSet
<1> QED BY <1>2, <1>3, MoveStep

\* A request get_locus answers lies within the table.
LEMMA WithinTable ==
    ASSUME NEW n \in Nat, n <= PLAYGO_CHUNK_COUNT, NEW count \in 1..MaxBatch,
           get_locus({(n + i) % ID_SPAN : i \in 0..count - 1}) # "bad_chunk_id"
    PROVE  n + count <= PLAYGO_CHUNK_COUNT
<1> SUFFICES ASSUME n + count > PLAYGO_CHUNK_COUNT PROVE FALSE
  BY OfflineAssumption
<1> DEFINE i == PLAYGO_CHUNK_COUNT - n
<1>1. i \in 0..count - 1 /\ n + i = PLAYGO_CHUNK_COUNT
  BY OfflineAssumption
<1>2. (n + i) % ID_SPAN = PLAYGO_CHUNK_COUNT
  BY <1>1, OfflineAssumption
<1> HIDE DEF i
<1>3. (n + i) % ID_SPAN \in {(n + j) % ID_SPAN : j \in 0..count - 1}
  BY <1>1
<1>4. PLAYGO_CHUNK_COUNT >= PLAYGO_CHUNK_COUNT
  BY OfflineAssumption
<1> QED BY <1>2, <1>3, <1>4 DEF get_locus

\* A round of the enumeration: each one that is answered for leaves fewer chunks.
LEMMA EnumerateStep ==
    ASSUME SessionsInv, NEW t \in Titles, NEW count \in 1..MaxBatch, Enumerate(t, count)
    PROVE  SessionsInv'
<1> DEFINE c == session[t]
           ids == {(c.next + i) % ID_SPAN : i \in 0..count - 1}
<1>1. c \in SessionSet /\ RoundsFew(c)
  BY DEF SessionsInv
<1>2. /\ c.svc = PlayGo /\ c.next \in Nat /\ c.rounds \in Nat
      /\ c.rounds <= c.next /\ c.next <= PLAYGO_CHUNK_COUNT
  BY <1>1 DEF Enumerate, RoundsFew, SessionSet
<1>3. CASE get_locus(ids) = "bad_chunk_id"
  <2>1. session' = [session EXCEPT ![t].at = "asked"]
    BY <1>3 DEF Enumerate
  <2> QED BY <2>1, MoveStep DEF Steps
<1>4. CASE get_locus(ids) # "bad_chunk_id"
  <2>1. c.next + count <= PLAYGO_CHUNK_COUNT /\ c.next + count \in Nat /\ c.rounds + 1 \in Nat
    <3> DEFINE n == c.next
    <3>1. n \in Nat /\ n <= PLAYGO_CHUNK_COUNT
      BY <1>2
    <3>2. get_locus({(n + i) % ID_SPAN : i \in 0..count - 1}) # "bad_chunk_id"
      BY <1>4
    <3> HIDE DEF n
    <3>3. n + count <= PLAYGO_CHUNK_COUNT
      BY <3>1, <3>2, WithinTable
    <3>4. n + count \in Nat
      BY <3>1, OfflineAssumption
    <3> QED BY <1>2, <3>3, <3>4 DEF n
  <2>2. (c.next + count) % ID_SPAN = c.next + count
    BY <1>2, <2>1, OfflineAssumption
  <2> DEFINE s == [c EXCEPT !.rounds = c.rounds + 1, !.next = c.next + count]
  <2>3. s \in SessionSet /\ s.svc = PlayGo /\ s.rounds = c.rounds + 1 /\ s.next = c.next + count
    BY <1>1, <1>2, <2>1 DEF SessionSet
  <2>4. session' = [session EXCEPT ![t].rounds = @ + 1, ![t].next = (@ + count) % ID_SPAN]
    BY <1>4 DEF Enumerate
  <2>5. session' = [session EXCEPT ![t] = s]
    BY <1>1, <2>2, <2>4 DEF SessionsInv, SessionSet
  <2> HIDE DEF s
  <2>6. RoundsFew(s)
    BY <1>2, <2>1, <2>3, OfflineAssumption DEF RoundsFew
  <2> QED BY <2>3, <2>5, <2>6, SessionStep
<1> QED BY <1>3, <1>4

\* Every call of a session.
LEMMA SessionSteps ==
    ASSUME SessionsInv, NEW t \in Titles,
           \/ \E svc \in Services : Begin(t, svc)
           \/ Prepare(t) \/ Ask(t) \/ (\E count \in 1..MaxBatch : Enumerate(t, count))
           \/ Poll(t) \/ Fetch(t) \/ Close(t)
    PROVE  SessionsInv'
<1>1. session[t] \in SessionSet /\ session[t].svc \in Services
  BY DEF SessionsInv, SessionSet
<1> DEFINE d == session[t].svc
<1>2. "again" \notin d.init \cup d.create /\ "again" \notin d.ask /\ "again" \notin d.poll /\ "again" \notin d.fetch
  BY <1>1, NoneIsPending
<1>3. ASSUME NEW svc \in Services, Begin(t, svc)
      PROVE  SessionsInv'
  <2> DEFINE s == [NoSession EXCEPT !.svc = svc, !.at = "set_up"]
  <2>1. s \in SessionSet /\ s.rounds = 0 /\ s.next = 0
    BY DEF NoSession, SessionSet, Steps
  <2>2. session' = [session EXCEPT ![t] = s]
    BY <1>3 DEF Begin
  <2> HIDE DEF s
  <2>3. RoundsFew(s)
    BY <2>1, OfflineAssumption DEF RoundsFew
  <2> QED BY <2>1, <2>2, <2>3, SessionStep
<1>4. CASE Prepare(t)
  BY <1>2, <1>4, PhaseStep DEF Prepare, Steps
<1>5. CASE Ask(t)
  BY <1>2, <1>5, PhaseStep DEF Ask, Steps
<1>6. CASE Poll(t)
  BY <1>2, <1>6, PhaseStep DEF Poll, Steps
<1>7. CASE Fetch(t)
  BY <1>2, <1>7, PhaseStep DEF Fetch, Steps
<1>8. CASE Close(t)
  BY <1>8, MoveStep DEF Close, Steps
<1> QED BY <1>3, <1>4, <1>5, <1>6, <1>7, <1>8, EnumerateStep

\* seed_initial: the ring after it is seeded, with the login if it was not.
LEMMA SeedIs ==
    ASSUME LoginOnce
    PROVE  /\ seed_initial(login_ring) \in Rings /\ seed_initial(login_ring).seeded
           /\ login_ring.seeded => seed_initial(login_ring) = login_ring
           /\ ~login_ring.seeded => seed_initial(login_ring).events = <<USER_ID>>
<1>1. CASE login_ring.seeded
  BY <1>1 DEF seed_initial, LoginOnce
<1>2. CASE ~login_ring.seeded
  <2> DEFINE r == [login_ring EXCEPT !.seeded = TRUE]
  <2>1. login_ring \in Rings /\ login_ring.events = <<>> /\ login_ring.active = {}
    BY <1>2 DEF LoginOnce
  <2>2. r \in Rings /\ r.events = <<>> /\ r.active = {} /\ r.seeded
    BY <2>1 DEF Rings
  <2>3. seed_initial(login_ring) = login(r, USER_ID)
    BY <1>2 DEF seed_initial
  <2> HIDE DEF r
  <2>4. ~(Len(r.events) >= EVENT_QUEUE_CAP) /\ USER_ID \notin r.active
    BY <2>2, OfflineAssumption
  <2>5. login(r, USER_ID) = [r EXCEPT !.active = r.active \cup {USER_ID}, !.events = Append(r.events, USER_ID)]
    BY <2>4 DEF login
  <2>6. Append(r.events, USER_ID) = <<USER_ID>> /\ r.active \cup {USER_ID} = {USER_ID}
    BY <2>2
  <2>7. /\ login(r, USER_ID) \in Rings /\ login(r, USER_ID).seeded
        /\ login(r, USER_ID).events = <<USER_ID>>
    BY <2>2, <2>5, <2>6 DEF Rings
  <2> QED BY <1>2, <2>3, <2>7
<1> QED BY <1>1, <1>2

\* The calls of the user service.
LEMMA UserSteps ==
    ASSUME LoginOnce,
           sce_user_service_initialize \/ \E t \in Titles : sce_user_service_get_event(t)
    PROVE  LoginOnce'
<1> DEFINE r == seed_initial(login_ring)
<1>1. /\ r \in Rings /\ r.seeded
      /\ login_ring.seeded => r = login_ring
      /\ ~login_ring.seeded => r.events = <<USER_ID>>
  BY SeedIs
<1>2. logins \in [Titles -> Nat]
  BY DEF LoginOnce
<1> HIDE DEF r
<1>3. ASSUME login_ring' = r, UNCHANGED logins, told' = told \/ r.events = <<>>
      PROVE  LoginOnce'
  <2>1. CASE login_ring.seeded
    BY <1>1, <1>3, <2>1 DEF LoginOnce
  <2>2. CASE ~login_ring.seeded
    BY <1>1, <1>3, <2>2 DEF LoginOnce
  <2> QED BY <2>1, <2>2
<1>4. ASSUME NEW t \in Titles, r.events # <<>>,
             login_ring' = [r EXCEPT !.events = Tail(r.events)],
             logins' = [logins EXCEPT ![t] = @ + 1]
      PROVE  LoginOnce'
  <2>1. r.events = <<USER_ID>>
    BY <1>1, <1>4 DEF Rings
  <2>2. Tail(r.events) = <<>>
    BY <2>1
  <2>3. login_ring' \in Rings /\ login_ring'.seeded /\ login_ring'.events = <<>>
    BY <1>1, <1>4, <2>2 DEF Rings
  <2>4. \A u \in Titles : logins[u] = 0
    BY <1>1, <1>4, <2>1 DEF LoginOnce
  <2>5. logins' \in [Titles -> Nat] /\ \A u \in Titles : logins'[u] = IF u = t THEN 1 ELSE 0
    BY <1>2, <1>4, <2>4
  <2> QED BY <2>3, <2>5 DEF LoginOnce
<1>5. CASE sce_user_service_initialize
  BY <1>3, <1>5 DEF sce_user_service_initialize, r
<1>6. ASSUME NEW t \in Titles, sce_user_service_get_event(t)
      PROVE  LoginOnce'
  BY <1>3, <1>4, <1>6 DEF sce_user_service_get_event, r
<1> QED BY <1>5, <1>6

\* The loops of any number of titles over the services end: the enumeration of
\* chunks after one round for each, for any number of them, any span of ids and
\* any batches; and the login is handed out once, to one thread, and before any
\* thread is told that there is nothing, for any capacity of the event ring.
THEOREM TitleLoopsEnd == OfflineSpec => []LoopsEnd
<1>1. OfflineInit => OfflineInv
  <2> SUFFICES ASSUME OfflineInit PROVE OfflineInv
    OBVIOUS
  <2>1. NoSession \in SessionSet /\ NoSession.rounds = 0 /\ NoSession.next = 0
    BY DEF NoSession, SessionSet, Steps, Services
  <2>2. RoundsFew(NoSession)
    BY <2>1, OfflineAssumption DEF RoundsFew
  <2>3. SessionsInv
    BY <2>1, <2>2 DEF OfflineInit, SessionsInv
  <2>4. LoginOnce
    BY DEF OfflineInit, LoginOnce, Rings
  <2> QED BY <2>3, <2>4 DEF OfflineInv
<1>2. OfflineInv /\ [OfflineNext]_offlineVars => OfflineInv'
  <2> SUFFICES ASSUME OfflineInv, [OfflineNext]_offlineVars PROVE OfflineInv'
    OBVIOUS
  <2>1. ASSUME UNCHANGED userVars PROVE LoginOnce'
    BY <2>1 DEF OfflineInv, LoginOnce, userVars
  <2>2. ASSUME UNCHANGED serviceVars PROVE SessionsInv'
    BY <2>2 DEF OfflineInv, SessionsInv, serviceVars
  <2>3. CASE UNCHANGED offlineVars
    BY <2>1, <2>2, <2>3 DEF OfflineInv, offlineVars
  <2>4. ASSUME NEW t \in Titles, UNCHANGED userVars,
               \/ \E svc \in Services : Begin(t, svc)
               \/ Prepare(t) \/ Ask(t) \/ (\E count \in 1..MaxBatch : Enumerate(t, count))
               \/ Poll(t) \/ Fetch(t) \/ Close(t)
        PROVE  OfflineInv'
    BY <2>1, <2>4, SessionSteps DEF OfflineInv
  <2>5. ASSUME sce_user_service_initialize \/ \E t \in Titles : sce_user_service_get_event(t),
               UNCHANGED serviceVars
        PROVE  OfflineInv'
    BY <2>2, <2>5, UserSteps DEF OfflineInv
  <2> QED BY <2>3, <2>4, <2>5 DEF OfflineNext
<1>3. OfflineInv => LoopsEnd
  <2> SUFFICES ASSUME OfflineInv PROVE LoopsEnd
    OBVIOUS
  <2>1. ASSUME NEW t \in Titles
        PROVE  session[t].rounds <= IF session[t].svc = PlayGo THEN PLAYGO_CHUNK_COUNT ELSE 0
    BY OfflineAssumption DEF OfflineInv, SessionsInv, SessionSet, RoundsFew
  <2>2. /\ \A t \in Titles : logins[t] <= 1
        /\ \A t, u \in Titles : logins[t] = 1 /\ logins[u] = 1 => t = u
        /\ told # {} => \E t \in Titles : logins[t] = 1
    BY DEF OfflineInv, LoginOnce
  <2> QED BY <2>1, <2>2 DEF LoopsEnd
<1> QED BY <1>1, <1>2, <1>3, PTL DEF OfflineSpec

----------------------------------------------------------------------------
(***************************************************************************)
(* The loader, for any files, needs, threads and stubs.  A module is       *)
(* relocated against everything mapped so far, so ImportsBound rests on    *)
(* when the rest is mapped: modules of a set before any of them is         *)
(* relocated, so that whatever is relocated while a set is walked or       *)
(* mapped belongs to an earlier load (RelocatedBefore).                    *)
(***************************************************************************)
LoadFields == {"phase", "by", "path", "name", "file", "stack", "set", "loaded", "loading", "mapped"}

LoaderTypeOK ==
    /\ next_id \in Nat \ {0} /\ loads \in Nat
    /\ DOMAIN modules \subseteq 0..next_id - 1
    /\ \A x \in DOMAIN modules : modules[x].load \in 0..loads
    /\ DOMAIN got \subseteq DOMAIN modules
    /\ LoadFields \subseteq DOMAIN load
    /\ load.mapped \in Seq(DOMAIN modules)

RelocatedBefore ==
    /\ load.phase \in {"walk", "map"} => \A id \in DOMAIN got : modules[id].load < loads
    /\ load.phase = "target" =>
         next_id - 1 \in DOMAIN modules /\ modules[next_id - 1].file = load.file

LoaderInv == LoaderTypeOK /\ RelocatedBefore /\ ImportsBound

\* The initial state and each load begin a walk.
LEMMA FreshLoad ==
    /\ LoadFields \subseteq DOMAIN NoLoad /\ NoLoad.phase = "none" /\ NoLoad.mapped = <<>>
    /\ LoadFields \subseteq DOMAIN load_executable
    /\ load_executable.phase = "walk" /\ load_executable.mapped = <<>>
BY DEF NoLoad, LoadFields, load_executable

\* Relocation of a mapped module: a slot goes without a module only if no
\* module mapped by now exports its symbol.
LEMMA Relocation ==
    ASSUME LoaderInv, NEW id \in DOMAIN modules, relocate_image(id, modules[id].file),
           modules' = modules
    PROVE  DOMAIN got' = DOMAIN got \cup {id} /\ ImportsBound'
<1> DEFINE file == modules[id].file
           known == DOMAIN modules
           Exporters(i) == {x \in known : Imports[file][i] \in SymbolsOf(x)}
           Misses(bound, i) == Cardinality({j \in 1..i : bound[j] = Missing})
           Reached(bound) == {i \in DOMAIN bound : alloc_missing_stub(Misses(bound, i))}
<1>1. PICK bound \in [DOMAIN Imports[file] -> known \cup {Missing}] :
        /\ \A i \in DOMAIN bound : bound[i] \in IF Exporters(i) = {} THEN {Missing} ELSE Exporters(i)
        /\ got' = [x \in DOMAIN got \cup {id} |->
                      IF x = id THEN [i \in Reached(bound) |-> bound[i]] ELSE got[x]]
  BY DEF relocate_image, Bind
<1>2. DOMAIN got' = DOMAIN got \cup {id}
  BY <1>1
<1>3. Missing \notin known
  BY LoaderAssumption DEF LoaderInv, LoaderTypeOK
<1>4. \A x \in DOMAIN modules : SymbolsOf(x)' = SymbolsOf(x)
  BY DEF SymbolsOf
<1>5. ASSUME NEW i \in DOMAIN got'[id], got'[id][i] = Missing, NEW x \in DOMAIN modules
      PROVE  Imports[file][i] \notin SymbolsOf(x)
  <2>1. got'[id] = [k \in Reached(bound) |-> bound[k]]
    BY <1>1
  <2>2. i \in DOMAIN bound /\ bound[i] = Missing
    BY <1>5, <2>1
  <2>3. Exporters(i) = {}
    BY <1>1, <1>3, <2>2
  <2> QED BY <2>3
<1>6. \A y \in DOMAIN got \ {id} : got'[y] = got[y]
  BY <1>1
<1>7. ImportsBound'
  <2> SUFFICES ASSUME NEW y \in DOMAIN got', NEW i \in DOMAIN got'[y], got'[y][i] = Missing,
                      NEW x \in DOMAIN modules, modules[x].load <= modules[y].load
               PROVE  Imports[modules[y].file][i] \notin SymbolsOf(x)
    BY <1>4 DEF ImportsBound
  <2>1. CASE y = id
    BY <1>5, <2>1
  <2>2. CASE y # id
    BY <1>2, <1>6, <2>2 DEF LoaderInv, ImportsBound
  <2> QED BY <2>1, <2>2
<1> QED BY <1>2, <1>7

\* A new module that belongs to a later load than every relocated one leaves
\* their slots as they should be.
LEMMA Mapping ==
    ASSUME LoaderInv, NEW n, modules' = n, UNCHANGED got,
           DOMAIN n = DOMAIN modules \cup {next_id},
           \A x \in DOMAIN modules : n[x] = modules[x],
           \A id \in DOMAIN got : modules[id].load < n[next_id].load,
           n[next_id].load \in Nat
    PROVE  ImportsBound'
<1>1. next_id # HLE /\ next_id \notin DOMAIN modules
  BY DEF LoaderInv, LoaderTypeOK, HLE
<1>2. \A x \in DOMAIN modules : SymbolsOf(x)' = SymbolsOf(x)
  BY DEF SymbolsOf
<1> SUFFICES ASSUME NEW y \in DOMAIN got, NEW i \in DOMAIN got[y], got[y][i] = Missing,
                    NEW x \in DOMAIN n, n[x].load <= n[y].load
             PROVE  Imports[n[y].file][i] \notin SymbolsOf(x)'
  BY DEF ImportsBound
<1>3. y \in DOMAIN modules /\ n[y] = modules[y] /\ modules[y].load \in Nat
  BY DEF LoaderInv, LoaderTypeOK
<1>4. x # next_id
  BY <1>3
<1> QED BY <1>2, <1>3, <1>4 DEF LoaderInv, ImportsBound

\* Modules and slots stay: so does what is said of them.
LEMMA SlotsStay ==
    ASSUME LoaderInv, UNCHANGED <<modules, got>>
    PROVE  ImportsBound'
BY DEF LoaderInv, ImportsBound, SymbolsOf

\* The walk touches nothing but its own stack and sets.
LEMMA Walk_Inv ==
    ASSUME LoaderInv, walk_skip \/ walk_enter \/ walk_leave \/ walk_end \/ map_end
    PROVE  LoaderInv'
<1>1. UNCHANGED <<modules, next_id, got, loads>>
  BY DEF walk_skip, walk_enter, walk_leave, walk_end, map_end, LoaderRest
<1>2. /\ LoadFields \subseteq DOMAIN load' /\ load'.mapped = load.mapped
      /\ load'.phase \in {"walk", "map"} => load.phase \in {"walk", "map"}
      /\ load'.phase # "target"
  BY DEF walk_skip, walk_enter, walk_leave, walk_end, map_end, Walking, LoaderInv, LoaderTypeOK, LoadFields
<1>3. ImportsBound'
  BY <1>1, SlotsStay
<1> QED BY <1>1, <1>2, <1>3 DEF LoaderInv, LoaderTypeOK, RelocatedBefore

LEMMA map_next_Inv ==
    ASSUME LoaderInv, map_next
    PROVE  LoaderInv'
<1> DEFINE m == Head(load.set)
<1>1. /\ load.phase = "map" /\ next_id' = next_id + 1 /\ UNCHANGED <<got, loads>>
      /\ LoadFields \subseteq DOMAIN load' /\ load'.phase = "map"
  BY DEF map_next, LoaderInv, LoaderTypeOK, LoadFields
<1>2. next_id \in Nat \ {0} /\ next_id \notin DOMAIN modules
  BY DEF LoaderInv, LoaderTypeOK
<1>3. CASE m.file \in Unmappable
  <2>1. UNCHANGED modules /\ load'.mapped = load.mapped
    BY <1>3 DEF map_next, LoaderInv, LoaderTypeOK, LoadFields
  <2>2. ImportsBound'
    BY <1>1, <2>1, SlotsStay
  <2> QED BY <1>1, <1>2, <2>1, <2>2 DEF LoaderInv, LoaderTypeOK, RelocatedBefore
<1>4. CASE m.file \notin Unmappable
  <2>1. modules' = Registered(m.lib, m.file) /\ load'.mapped = Append(load.mapped, next_id)
    BY <1>4 DEF map_next, LoaderInv, LoaderTypeOK, LoadFields
  <2>2. /\ DOMAIN modules' = DOMAIN modules \cup {next_id}
        /\ \A x \in DOMAIN modules : modules'[x] = modules[x]
        /\ modules'[next_id].load = loads
    BY <1>2, <2>1 DEF Registered
  <2>3. loads \in Nat /\ \A id \in DOMAIN got : modules[id].load < loads
    BY <1>1 DEF LoaderInv, LoaderTypeOK, RelocatedBefore
  <2>4. ImportsBound'
    BY <1>1, <2>2, <2>3, Mapping
  <2>5. load'.mapped \in Seq(DOMAIN modules')
    <3>1. load.mapped \in Seq(DOMAIN modules')
      BY <2>2, SeqMonotonic DEF LoaderInv, LoaderTypeOK
    <3> QED BY <2>1, <2>2, <3>1
  <2>6. LoaderTypeOK'
    BY <1>1, <1>2, <2>2, <2>3, <2>5 DEF LoaderInv, LoaderTypeOK
  <2>7. RelocatedBefore'
    BY <1>1, <2>2, <2>3 DEF LoaderInv, LoaderTypeOK, RelocatedBefore
  <2> QED BY <2>4, <2>6, <2>7 DEF LoaderInv
<1> QED BY <1>3, <1>4

LEMMA relocate_next_Inv ==
    ASSUME LoaderInv, relocate_next
    PROVE  LoaderInv'
<1> DEFINE id == Head(load.mapped)
<1>1. /\ load.phase = "relocate" /\ load.mapped # <<>> /\ UNCHANGED <<modules, next_id, loads>>
      /\ relocate_image(id, modules[id].file)
      /\ LoadFields \subseteq DOMAIN load' /\ load'.phase = "relocate" /\ load'.mapped = Tail(load.mapped)
  BY DEF relocate_next, LoaderInv, LoaderTypeOK, LoadFields
<1>2. id \in DOMAIN modules /\ Tail(load.mapped) \in Seq(DOMAIN modules)
  <2>1. load.mapped \in Seq(DOMAIN modules) /\ load.mapped # <<>>
    BY <1>1 DEF LoaderInv, LoaderTypeOK
  <2> QED BY <2>1, HeadTailProperties
<1> HIDE DEF id
<1>3. DOMAIN got' = DOMAIN got \cup {id} /\ ImportsBound'
  BY <1>1, <1>2, Relocation
<1>4. LoaderTypeOK' /\ RelocatedBefore'
  BY <1>1, <1>2, <1>3 DEF LoaderInv, LoaderTypeOK, RelocatedBefore
<1> QED BY <1>3, <1>4 DEF LoaderInv

\* The target is mapped after its set was relocated, as a load of its own.
LEMMA target_map_Inv ==
    ASSUME LoaderInv, target_map
    PROVE  LoaderInv'
<1>1. /\ modules' = [Registered(load.name, load.file) EXCEPT ![next_id].load = loads + 1]
      /\ next_id' = next_id + 1 /\ loads' = loads + 1 /\ UNCHANGED got
      /\ LoadFields \subseteq DOMAIN load' /\ load'.phase = "target" /\ load'.mapped = load.mapped
      /\ load'.file = load.file
  BY DEF target_map, LoaderInv, LoaderTypeOK, LoadFields
<1>2. next_id \in Nat \ {0} /\ next_id \notin DOMAIN modules /\ loads \in Nat
  BY DEF LoaderInv, LoaderTypeOK
<1>3. /\ DOMAIN modules' = DOMAIN modules \cup {next_id}
      /\ \A x \in DOMAIN modules : modules'[x] = modules[x]
      /\ modules'[next_id].load = loads + 1 /\ modules'[next_id].file = load.file
  BY <1>1, <1>2 DEF Registered
<1>4. \A id \in DOMAIN got : modules[id].load < loads + 1
  BY <1>2 DEF LoaderInv, LoaderTypeOK
<1>5. ImportsBound'
  <2>1. modules'[next_id].load \in Nat /\ \A id \in DOMAIN got : modules[id].load < modules'[next_id].load
    BY <1>2, <1>3, <1>4
  <2> QED BY <1>1, <1>3, <2>1, Mapping
<1>6. load'.mapped \in Seq(DOMAIN modules')
  BY <1>1, <1>3, SeqMonotonic DEF LoaderInv, LoaderTypeOK
<1>7. LoaderTypeOK'
  BY <1>1, <1>2, <1>3, <1>6 DEF LoaderInv, LoaderTypeOK
<1>8. RelocatedBefore'
  BY <1>1, <1>2, <1>3 DEF RelocatedBefore
<1> QED BY <1>5, <1>7, <1>8 DEF LoaderInv

\* The target is relocated, or fails: the load ends.
LEMMA Target_Inv ==
    ASSUME LoaderInv, target_relocate \/ target_fails
    PROVE  LoaderInv'
<1>1. UNCHANGED <<modules, loads>> /\ next_id' \in {next_id, next_id + 1}
  BY DEF target_relocate, target_fails
<1>2. LoadFields \subseteq DOMAIN load' /\ load'.phase \in {"none", "dead"} /\ load'.mapped = <<>>
  <2>1. load' = NoLoad \/ load' = [NoLoad EXCEPT !.phase = "dead"]
    BY DEF target_relocate, target_fails
  <2> QED BY <2>1, FreshLoad DEF LoadFields
<1>3. DOMAIN got' \subseteq DOMAIN modules /\ ImportsBound'
  <2>1. CASE UNCHANGED got
    BY <1>1, <2>1, SlotsStay DEF LoaderInv, LoaderTypeOK
  <2>2. CASE load.phase = "target" /\ relocate_image(next_id - 1, load.file)
    <3>1. next_id - 1 \in DOMAIN modules /\ modules[next_id - 1].file = load.file
      BY <2>2 DEF LoaderInv, RelocatedBefore
    <3>2. relocate_image(next_id - 1, modules[next_id - 1].file)
      BY <2>2, <3>1
    <3>3. DOMAIN got' = DOMAIN got \cup {next_id - 1} /\ ImportsBound'
      BY <1>1, <3>1, <3>2, Relocation
    <3> QED BY <3>1, <3>3 DEF LoaderInv, LoaderTypeOK
  <2> QED BY <2>1, <2>2 DEF target_relocate, target_fails
<1>4. LoaderTypeOK'
  BY <1>1, <1>2, <1>3 DEF LoaderInv, LoaderTypeOK
<1>5. RelocatedBefore'
  BY <1>2 DEF RelocatedBefore
<1> QED BY <1>3, <1>4, <1>5 DEF LoaderInv

\* A call begins a load, finds its module loaded, or runs a module_start.
LEMMA Call_Inv ==
    ASSUME LoaderInv, NEW t \in LoadThreads,
           \/ run_module_start(t)
           \/ \E p \in DOMAIN StemOf : load_start_cached(t, p) \/ load_start_module(t, p)
    PROVE  LoaderInv'
<1>1. CASE run_module_start(t) \/ \E p \in DOMAIN StemOf : load_start_cached(t, p)
  <2>1. UNCHANGED <<modules, next_id, got, load, loads>>
    BY <1>1 DEF run_module_start, load_start_cached
  <2>2. ImportsBound'
    BY <2>1, SlotsStay
  <2> QED BY <2>1, <2>2 DEF LoaderInv, LoaderTypeOK, RelocatedBefore
<1>2. ASSUME NEW p \in DOMAIN StemOf, load_start_module(t, p)
      PROVE  LoaderInv'
  <2>1. UNCHANGED <<modules, next_id, got>> /\ loads' = loads + 1
    BY <1>2 DEF load_start_module
  <2>2. LoadFields \subseteq DOMAIN load' /\ load'.phase = "walk" /\ load'.mapped = <<>>
    BY <1>2 DEF load_start_module, NoLoad, LoadFields
  <2>3. ImportsBound'
    BY <2>1, SlotsStay
  <2>4. LoaderTypeOK'
    BY <2>1, <2>2 DEF LoaderInv, LoaderTypeOK
  <2>5. RelocatedBefore'
    BY <2>1, <2>2 DEF LoaderInv, LoaderTypeOK, RelocatedBefore
  <2> QED BY <2>3, <2>4, <2>5 DEF LoaderInv
<1> QED BY <1>1, <1>2

LEMMA LoaderInvariance == LoaderSpec => []LoaderInv
<1>1. LoaderInit => LoaderInv
  <2> SUFFICES ASSUME LoaderInit PROVE LoaderInv
    OBVIOUS
  <2>1. DOMAIN modules = {0} /\ modules[0].load = 0 /\ next_id = 1 /\ loads = 1
    BY DEF LoaderInit, HLE
  <2>2. DOMAIN got = {}
    BY DEF LoaderInit
  <2>3. LoadFields \subseteq DOMAIN load /\ load.phase = "walk" /\ load.mapped = <<>>
    BY FreshLoad DEF LoaderInit
  <2>4. LoaderTypeOK
    BY <2>1, <2>2, <2>3 DEF LoaderTypeOK
  <2>5. RelocatedBefore /\ ImportsBound
    BY <2>2, <2>3 DEF RelocatedBefore, ImportsBound
  <2> QED BY <2>4, <2>5 DEF LoaderInv
<1>2. LoaderInv /\ [LoaderNext]_loaderVars => LoaderInv'
  <2> SUFFICES ASSUME LoaderInv, [LoaderNext]_loaderVars PROVE LoaderInv'
    OBVIOUS
  <2>1. CASE UNCHANGED loaderVars
    <3>1. UNCHANGED <<modules, next_id, got, load, loads>>
      BY <2>1 DEF loaderVars
    <3>2. ImportsBound'
      BY <3>1, SlotsStay
    <3> QED BY <3>1, <3>2 DEF LoaderInv, LoaderTypeOK, RelocatedBefore
  <2> QED BY <2>1, Walk_Inv, map_next_Inv, relocate_next_Inv, target_map_Inv, Target_Inv, Call_Inv
          DEF LoaderNext
<1> QED BY <1>1, <1>2, PTL DEF LoaderSpec

\* Modules loaded together find each other's symbols, for any graph of needs,
\* files that do not parse or fit, and stubs that run out.
THEOREM ImportsAreBound == LoaderSpec => []ImportsBound
<1>1. LoaderInv => ImportsBound
  BY DEF LoaderInv
<1> QED BY <1>1, LoaderInvariance, PTL

----------------------------------------------------------------------------
(***************************************************************************)
(* The order of the module_starts.  DepsStartFirst is about the end of a   *)
(* load; what makes it true is the walk.  Of every file that is left, each *)
(* need is barred, was left before, or leads back (SetDone); of a file on  *)
(* the stack that holds for the needs passed so far, but for the one the   *)
(* frames above it are about (FramesDone).  Names and files are looked up  *)
(* in one set of words, which is sound because a word in it leads to a     *)
(* file that is settled (SeenSettled).                                     *)
(*                                                                         *)
(* The parts are stated of a stack st, a set se, the words sn seen and the *)
(* target's file r, so that a step of the walk is a fact about values.     *)
(***************************************************************************)
FrameSet ==
    [lib : DOMAIN FileOf \cup {"eboot.bin"} \cup {StemOf[p] : p \in DOMAIN StemOf},
     file : Files, rest : Seq(DOMAIN FileOf)]
EntrySet ==
    [lib : DOMAIN FileOf \cup {"eboot.bin"} \cup {StemOf[p] : p \in DOMAIN StemOf}, file : Files]

Barred(g) == g = NoFile \/ g \in BrokenFiles \/ g \in DOMAIN loaded_module_paths
InSet(se, g) == \E i \in DOMAIN se : se[i].file = g
Above(st, k, g) == \E m \in DOMAIN st : m > k /\ st[m].file = g
SettledFile(st, se, g) == Barred(g) \/ InSet(se, g) \/ Above(st, 0, g)
StillNeeded(rest) == {FileOf[rest[n]] : n \in DOMAIN rest}

WalkTypeOK(st, se, r) ==
    /\ st \in Seq(FrameSet) /\ st # <<>> /\ se \in Seq(EntrySet)
    /\ st[1].file = r
    /\ \A k \in DOMAIN st : k > 1 => st[k].lib \in DOMAIN FileOf /\ FileOf[st[k].lib] = st[k].file

SeenSettled(st, se, sn) ==
    \A x \in sn : /\ x \in DOMAIN FileOf => SettledFile(st, se, FileOf[x])
                  /\ x \in Files => SettledFile(st, se, x)

\* A file is entered once, below the target.
EnteredOnce(st, se, sn) ==
    /\ \A i \in DOMAIN se : se[i].file \in sn /\ ~Barred(se[i].file)
    /\ \A i, j \in DOMAIN se : se[i].file = se[j].file => i = j
    /\ \A k \in DOMAIN st : k > 1 => st[k].file \in sn /\ ~Barred(st[k].file) /\ ~InSet(se, st[k].file)
    /\ \A k, m \in DOMAIN st : 1 < k /\ k < m => st[k].file # st[m].file

StackLeads(st, se, r) ==
    /\ \A k, m \in DOMAIN st : k < m => st[m].file \in LeadsTo(st[k].file)
    /\ \A i \in DOMAIN se : se[i].file \in LeadsTo(r)

FrameDone(st, se, k) ==
    /\ StillNeeded(st[k].rest) \subseteq Direct(st[k].file) \cup {NoFile}
    /\ k > 1 => \A g \in Direct(st[k].file) :
                  \/ g \in StillNeeded(st[k].rest) \/ Barred(g) \/ InSet(se, g)
                  \/ st[k].file \in LeadsTo(g) \/ Above(st, k, g)
FramesDone(st, se) == \A k \in DOMAIN st : FrameDone(st, se, k)

SetDone(se) ==
    \A i \in DOMAIN se : \A g \in Direct(se[i].file) :
        \/ Barred(g) \/ se[i].file \in LeadsTo(g)
        \/ \E j \in DOMAIN se : j < i /\ se[j].file = g

WalkOK(st, se, sn, r) ==
    /\ WalkTypeOK(st, se, r) /\ SeenSettled(st, se, sn) /\ EnteredOnce(st, se, sn)
    /\ StackLeads(st, se, r) /\ FramesDone(st, se) /\ SetDone(se)

NeedsOK == needs \in NeedsGraphs /\ needs \in [Files -> Seq(DOMAIN FileOf)]

\* What a file needs it leads to, and what that needs.
LEMMA LeadsOn ==
    ASSUME NeedsOK, NEW f \in Files
    PROVE  /\ Direct(f) \subseteq Files
           /\ Direct(f) \subseteq LeadsTo(f)
           /\ \A g \in LeadsTo(f) : Direct(g) \subseteq LeadsTo(f)
<1>1. \A g \in Files : Direct(g) \subseteq Files
  BY LoaderAssumption DEF Direct, DirectIn, NeedsOK
<1>2. LeadsTo(f) = {g \in Files : \A S \in SUBSET Files :
                      Direct(f) \subseteq S /\ (\A h \in S : Direct(h) \subseteq S) => g \in S}
  BY DEF LeadsTo, LeadsIn, Closed, Direct, NeedsOK
<1>3. Direct(f) \subseteq LeadsTo(f)
  BY <1>1, <1>2
<1>4. ASSUME NEW g \in LeadsTo(f), NEW h \in Direct(g) PROVE h \in LeadsTo(f)
  BY <1>1, <1>2, <1>4
<1> QED BY <1>1, <1>3, <1>4

\* The first library of a frame's list comes off it.
LEMMA ComesOff ==
    ASSUME NEW rest \in Seq(DOMAIN FileOf), rest # <<>>
    PROVE  /\ Head(rest) \in DOMAIN FileOf /\ Tail(rest) \in Seq(DOMAIN FileOf)
           /\ StillNeeded(rest) = {FileOf[Head(rest)]} \cup StillNeeded(Tail(rest))
<1>1. /\ Head(rest) \in DOMAIN FileOf /\ Tail(rest) \in Seq(DOMAIN FileOf)
      /\ Len(Tail(rest)) = Len(rest) - 1 /\ Len(rest) \in Nat \ {0}
      /\ \A i \in 1..Len(Tail(rest)) : Tail(rest)[i] = rest[i + 1]
  BY HeadTailProperties, EmptySeq, LenProperties
<1>2. DOMAIN rest = 1..Len(rest) /\ DOMAIN Tail(rest) = 1..Len(rest) - 1 /\ Head(rest) = rest[1]
  BY <1>1
<1>3. ASSUME NEW i \in DOMAIN rest
      PROVE  rest[i] = Head(rest) \/ \E j \in DOMAIN Tail(rest) : Tail(rest)[j] = rest[i]
  <2>1. CASE i = 1
    BY <1>2, <2>1
  <2>2. CASE i # 1
    <3>1. i - 1 \in DOMAIN Tail(rest) /\ (i - 1) + 1 = i
      BY <1>1, <1>2, <2>2
    <3> QED BY <1>1, <1>2, <3>1
  <2> QED BY <2>1, <2>2
<1>4. ASSUME NEW j \in DOMAIN Tail(rest) PROVE \E i \in DOMAIN rest : rest[i] = Tail(rest)[j]
  BY <1>1, <1>2
<1>5. 1 \in DOMAIN rest
  BY <1>1, <1>2
<1> QED BY <1>1, <1>2, <1>3, <1>4, <1>5 DEF StillNeeded

\* A frame with the first library taken off its list.
LEMMA PoppedFrame ==
    ASSUME NEW v \in FrameSet, v.rest # <<>>, NEW w, w = [v EXCEPT !.rest = Tail(@)]
    PROVE  /\ w \in FrameSet /\ w.file = v.file /\ w.lib = v.lib /\ v.file \in Files
           /\ Head(v.rest) \in DOMAIN FileOf
           /\ StillNeeded(v.rest) = {FileOf[Head(v.rest)]} \cup StillNeeded(w.rest)
<1>1. v.rest \in Seq(DOMAIN FileOf) /\ v.file \in Files /\ v = [lib |-> v.lib, file |-> v.file, rest |-> v.rest]
  BY DEF FrameSet
<1>2. w = [lib |-> v.lib, file |-> v.file, rest |-> Tail(v.rest)]
  BY <1>1
<1>3. w.file = v.file /\ w.lib = v.lib /\ w.rest = Tail(v.rest)
  BY <1>2
<1>4. w \in FrameSet
  BY <1>1, <1>2, ComesOff DEF FrameSet
<1> QED BY <1>1, <1>3, <1>4, ComesOff

\* The stack with the head of the top frame's list taken off.
LEMMA PoppedStack ==
    ASSUME NEW st \in Seq(FrameSet), st # <<>>, load.stack = st, Walked.rest # <<>>
    PROVE  /\ Walked = st[Len(st)] /\ Len(st) \in DOMAIN st
           /\ Popped \in Seq(FrameSet) /\ Len(Popped) = Len(st) /\ DOMAIN Popped = DOMAIN st
           /\ \A k \in DOMAIN st : k # Len(st) => Popped[k] = st[k]
           /\ Popped[Len(st)] = [st[Len(st)] EXCEPT !.rest = Tail(@)]
<1> DEFINE n == Len(st)
           top == [st[n] EXCEPT !.rest = Tail(@)]
<1>1. n \in Nat \ {0} /\ DOMAIN st = 1..n /\ Walked = st[n] /\ st[n] \in FrameSet
  BY EmptySeq, LenProperties DEF Last, Walked
<1>2. top \in FrameSet
  BY <1>1, PoppedFrame
<1>3. /\ Front(st) \in Seq(FrameSet) /\ Len(Front(st)) = n - 1
      /\ \A k \in 1..n - 1 : Front(st)[k] = st[k]
  BY <1>1 DEF Front
<1>4. Popped = Append(Front(st), top)
  BY <1>1 DEF Popped
<1> HIDE DEF top
<1>5. /\ Popped \in Seq(FrameSet) /\ Len(Popped) = n
      /\ \A k \in 1..n - 1 : Popped[k] = st[k]
      /\ Popped[n] = top
  <2>1. Len(Front(st)) + 1 = n /\ 1..Len(Front(st)) = 1..n - 1
    BY <1>1, <1>3
  <2>2. /\ Append(Front(st), top) \in Seq(FrameSet)
        /\ Len(Append(Front(st), top)) = Len(Front(st)) + 1
        /\ \A k \in 1..Len(Front(st)) : Append(Front(st), top)[k] = Front(st)[k]
        /\ Append(Front(st), top)[Len(Front(st)) + 1] = top
    BY <1>2, <1>3, AppendProperties
  <2> QED BY <1>3, <1>4, <2>1, <2>2
<1>6. DOMAIN Popped = 1..n
  BY <1>5, LenProperties
<1> QED BY <1>1, <1>5, <1>6 DEF top

\* A library that is passed over, or whose file does not parse: its file g is
\* settled already, or barred.
LEMMA PassedOver ==
    ASSUME NeedsOK, NEW st, NEW se, NEW sn, NEW r \in Files, WalkOK(st, se, sn, r),
           NEW st2 \in Seq(FrameSet), NEW n, n = Len(st), Len(st2) = n,
           st[n].rest # <<>>, st2[n] = [st[n] EXCEPT !.rest = Tail(@)],
           \A k \in DOMAIN st : k # n => st2[k] = st[k],
           NEW lib, lib = Head(st[n].rest), SettledFile(st, se, FileOf[lib]),
           NEW sn2, sn \subseteq sn2, sn2 \subseteq sn \cup {lib} \cup (Files \cap {FileOf[lib]})
    PROVE  WalkOK(st2, se, sn2, r)
<1> DEFINE g == FileOf[lib]
<1>1. /\ n \in Nat \ {0} /\ DOMAIN st = 1..n /\ DOMAIN st2 = 1..n
      /\ \A k \in 1..n : st[k] \in FrameSet
  BY EmptySeq, LenProperties DEF WalkOK, WalkTypeOK
<1>2. /\ lib \in DOMAIN FileOf
      /\ StillNeeded(st[n].rest) = {g} \cup StillNeeded(st2[n].rest)
      /\ st2[n].file = st[n].file /\ st2[n].lib = st[n].lib
  <2>1. st[n] \in FrameSet
    BY <1>1
  <2> QED BY <2>1, PoppedFrame
<1>3. \A k \in 1..n : st2[k].file = st[k].file /\ st2[k].lib = st[k].lib
  BY <1>1, <1>2
<1>4. \A k, x : Above(st2, k, x) <=> Above(st, k, x)
  BY <1>1, <1>3 DEF Above
<1>5. WalkTypeOK(st2, se, r)
  <2>1. st2 # <<>> /\ 1 \in 1..n
    BY <1>1
  <2>2. se \in Seq(EntrySet) /\ st2[1].file = r
    BY <1>3, <2>1 DEF WalkOK, WalkTypeOK
  <2>3. \A k \in 1..n : k > 1 => st2[k].lib \in DOMAIN FileOf /\ FileOf[st2[k].lib] = st2[k].file
    BY <1>1, <1>3 DEF WalkOK, WalkTypeOK
  <2> QED BY <1>1, <2>1, <2>2, <2>3 DEF WalkTypeOK
<1>6. SeenSettled(st2, se, sn2)
  <2> SUFFICES ASSUME NEW x \in sn2
               PROVE  /\ x \in DOMAIN FileOf => SettledFile(st2, se, FileOf[x])
                      /\ x \in Files => SettledFile(st2, se, x)
    BY DEF SeenSettled
  <2>1. \A y : SettledFile(st2, se, y) <=> SettledFile(st, se, y)
    BY <1>4 DEF SettledFile
  <2>2. CASE x \in sn
    BY <2>1, <2>2 DEF WalkOK, SeenSettled
  <2>3. CASE x = lib
    BY <1>2, <2>1, <2>3, LoaderAssumption
  <2>4. CASE x = g /\ g \in Files
    BY <2>1, <2>4, LoaderAssumption
  <2> QED BY <2>2, <2>3, <2>4
<1>7. EnteredOnce(st2, se, sn2)
  BY <1>1, <1>3 DEF WalkOK, EnteredOnce
<1>8. StackLeads(st2, se, r)
  BY <1>1, <1>3 DEF WalkOK, StackLeads
<1>9. FramesDone(st2, se)
  <2> SUFFICES ASSUME NEW k \in 1..n PROVE FrameDone(st2, se, k)
    BY <1>1 DEF FramesDone
  <2>1. FrameDone(st, se, k)
    BY <1>1 DEF WalkOK, FramesDone
  <2>2. CASE k # n
    BY <1>1, <1>3, <1>4, <2>1, <2>2 DEF FrameDone
  <2>3. CASE k = n
    <3> DEFINE f == st[n].file
    <3>1. StillNeeded(st2[n].rest) \subseteq Direct(f) \cup {NoFile}
      BY <1>2, <2>1, <2>3 DEF FrameDone
    <3>2. ASSUME n > 1, g \in Direct(f)
          PROVE  Barred(g) \/ InSet(se, g) \/ f \in LeadsTo(g)
      <4>1. CASE Barred(g) \/ InSet(se, g)
        BY <4>1
      <4>2. CASE Above(st, 0, g)
        <5>1. PICK m \in 1..n : st[m].file = g
          BY <1>1, <4>2 DEF Above
        <5>2. CASE m = n
          <6>1. f \in Files
            BY <1>1 DEF FrameSet
          <6> QED BY <3>2, <5>1, <5>2, <6>1, LeadsOn
        <5>3. CASE m < n
          BY <1>1, <5>1, <5>3 DEF WalkOK, StackLeads
        <5> QED BY <5>2, <5>3, <1>1
      <4> QED BY <4>1, <4>2 DEF SettledFile
    <3>3. ASSUME n > 1, NEW h \in Direct(f)
          PROVE  \/ h \in StillNeeded(st2[n].rest) \/ Barred(h) \/ InSet(se, h)
                 \/ f \in LeadsTo(h) \/ Above(st2, n, h)
      BY <1>2, <1>4, <2>1, <2>3, <3>2, <3>3 DEF FrameDone
    <3> QED BY <1>1, <1>3, <2>3, <3>1, <3>3 DEF FrameDone
  <2> QED BY <2>2, <2>3
<1> QED BY <1>5, <1>6, <1>7, <1>8, <1>9 DEF WalkOK

\* A file not seen before is entered: its frame comes to lie on the stack.
LEMMA EntersFile ==
    ASSUME NeedsOK, NEW st, NEW se, NEW sn, NEW r \in Files, WalkOK(st, se, sn, r),
           NEW st1 \in Seq(FrameSet), NEW n, n = Len(st), Len(st1) = n,
           st[n].rest # <<>>, st1[n] = [st[n] EXCEPT !.rest = Tail(@)],
           \A k \in DOMAIN st : k # n => st1[k] = st[k],
           NEW lib, lib = Head(st[n].rest), FileOf[lib] \notin sn, ~Barred(FileOf[lib]),
           NEW st2, st2 = Append(st1, Frame(lib, FileOf[lib]))
    PROVE  WalkOK(st2, se, sn \cup {lib, FileOf[lib]}, r)
<1> DEFINE g == FileOf[lib]
           sn2 == sn \cup {lib, g}
<1>1. /\ n \in Nat \ {0} /\ DOMAIN st = 1..n
      /\ \A k \in 1..n : st[k] \in FrameSet
  BY EmptySeq, LenProperties DEF WalkOK, WalkTypeOK
<1>2. /\ lib \in DOMAIN FileOf
      /\ StillNeeded(st[n].rest) = {g} \cup StillNeeded(st1[n].rest)
      /\ st1[n].file = st[n].file /\ st1[n].lib = st[n].lib
  <2>1. st[n] \in FrameSet
    BY <1>1
  <2> QED BY <2>1, PoppedFrame
<1>3. g \in Files
  BY <1>2, LoaderAssumption DEF Barred
<1>4. Frame(lib, g) \in FrameSet /\ Frame(lib, g).file = g /\ Frame(lib, g).lib = lib
      /\ Frame(lib, g).rest = needs[g]
  BY <1>2, <1>3 DEF Frame, FrameSet, NeedsOK
<1>5. /\ st2 \in Seq(FrameSet) /\ st2 # <<>> /\ DOMAIN st2 = 1..n + 1
      /\ \A k \in 1..n : st2[k] = st1[k]
      /\ st2[n + 1] = Frame(lib, g)
  <2> DEFINE fr == Frame(lib, g)
  <2>1. fr \in FrameSet /\ n \in Nat
    BY <1>1, <1>4
  <2> HIDE DEF fr
  <2>2. /\ Append(st1, fr) \in Seq(FrameSet) /\ Len(Append(st1, fr)) = n + 1
        /\ \A k \in 1..n : Append(st1, fr)[k] = st1[k]
        /\ Append(st1, fr)[n + 1] = fr
    BY <2>1, AppendProperties
  <2>3. st2 = Append(st1, fr)
    BY DEF fr
  <2>4. Len(st2) = n + 1 /\ DOMAIN st2 = 1..Len(st2) /\ st2 \in Seq(FrameSet)
    BY <2>2, <2>3, LenProperties
  <2>5. st2 # <<>>
    BY <2>1, <2>4
  <2> QED BY <2>2, <2>3, <2>4, <2>5 DEF fr
<1>6. \A k \in 1..n : st2[k].file = st[k].file /\ st2[k].lib = st[k].lib
  BY <1>1, <1>2, <1>5
<1> DEFINE new == n + 1
<1>6a. /\ \A k \in DOMAIN st2 : k \in 1..n \/ k = new
       /\ \A k \in 1..n : k < new /\ k \in DOMAIN st /\ k \in DOMAIN st2
       /\ new > 1 /\ new \in DOMAIN st2
       /\ st2[new].file = g /\ st2[new].lib = lib /\ st2[new].rest = needs[g]
  <2>1. st2[new].file = g /\ st2[new].lib = lib /\ st2[new].rest = needs[g]
    BY <1>4, <1>5
  <2>2. DOMAIN st2 = 1..new /\ DOMAIN st = 1..n
    BY <1>1, <1>5
  <2>3. /\ \A k \in 1..new : k \in 1..n \/ k = new
        /\ \A k \in 1..n : k < new /\ k \in 1..new
        /\ new > 1 /\ new \in 1..new
    BY <1>1
  <2> HIDE DEF new
  <2> QED BY <2>1, <2>2, <2>3, Zenon
<1>6b. /\ \A k \in DOMAIN st : k \in DOMAIN st2 /\ st2[k].file = st[k].file
       /\ \A k \in 0..n : new > k
  <2>1. \A k \in 0..n : new > k
    BY <1>1
  <2>2. DOMAIN st = 1..n
    BY <1>1
  <2>3. \A k \in DOMAIN st : k \in DOMAIN st2 /\ st2[k].file = st[k].file
    BY <1>6, <1>6a, <2>2, Zenon
  <2> QED BY <2>1, <2>3
<1> HIDE DEF new
<1>7. \A k, x : Above(st, k, x) => Above(st2, k, x)
  BY <1>6b DEF Above
<1>8. \A k \in 0..n : Above(st2, k, g)
  BY <1>6a, <1>6b DEF Above
<1>9. WalkTypeOK(st2, se, r)
  <2>1. se \in Seq(EntrySet) /\ st2[1].file = r
    <3>1. 1 \in 1..n
      BY <1>1
    <3> QED BY <1>6, <3>1, Zenon DEF WalkOK, WalkTypeOK
  <2>2. ASSUME NEW k \in DOMAIN st2, k > 1
        PROVE  st2[k].lib \in DOMAIN FileOf /\ FileOf[st2[k].lib] = st2[k].file
    <3>1. CASE k = new
      BY <1>2, <1>6a, <3>1, Zenon
    <3>2. CASE k \in 1..n
      <4>1. st2[k].lib = st[k].lib /\ st2[k].file = st[k].file /\ k \in DOMAIN st
        BY <1>6, <1>6a, <3>2, Zenon
      <4>2. st[k].lib \in DOMAIN FileOf /\ FileOf[st[k].lib] = st[k].file
        BY <2>2, <4>1, Zenon DEF WalkOK, WalkTypeOK
      <4> QED BY <4>1, <4>2, Zenon
    <3> QED BY <1>6a, <3>1, <3>2, Zenon
  <2> QED BY <1>5, <2>1, <2>2 DEF WalkTypeOK
<1>10. SeenSettled(st2, se, sn2)
  <2> SUFFICES ASSUME NEW x \in sn2
               PROVE  /\ x \in DOMAIN FileOf => SettledFile(st2, se, FileOf[x])
                      /\ x \in Files => SettledFile(st2, se, x)
    BY DEF SeenSettled
  <2>1. CASE x \in sn
    BY <1>7, <2>1 DEF WalkOK, SeenSettled, SettledFile
  <2>2. SettledFile(st2, se, g)
    BY <1>1, <1>8 DEF SettledFile
  <2>3. CASE x = lib
    BY <1>2, <2>2, <2>3, LoaderAssumption
  <2>4. CASE x = g
    BY <1>3, <2>2, <2>4, LoaderAssumption
  <2> QED BY <2>1, <2>3, <2>4
<1>11. \A k \in 1..n : k > 1 => st[k].file # g
  BY <1>1 DEF WalkOK, EnteredOnce
<1>12. ~InSet(se, g)
  BY DEF WalkOK, EnteredOnce, InSet
<1>13. EnteredOnce(st2, se, sn2)
  <2>1. \A k \in DOMAIN st2 : k > 1 =>
          st2[k].file \in sn2 /\ ~Barred(st2[k].file) /\ ~InSet(se, st2[k].file)
    BY <1>6, <1>6a, <1>12 DEF WalkOK, EnteredOnce
  <2>2. ASSUME NEW k \in DOMAIN st2, NEW m \in DOMAIN st2
        PROVE  1 < k /\ k < m => st2[k].file # st2[m].file
    <3> HAVE 1 < k /\ k < m
    <3>1. k \in 1..n
      BY <1>1, <1>5
    <3>2. st2[k].file = st[k].file /\ st[k].file # g /\ k \in DOMAIN st
      BY <1>6, <1>6a, <1>11, <3>1
    <3>3. CASE m = new
      BY <1>6a, <3>2, <3>3
    <3>4. CASE m \in 1..n
      <4>1. m \in DOMAIN st /\ st2[m].file = st[m].file
        BY <1>6, <1>6a, <3>4
      <4> QED BY <3>2, <4>1 DEF WalkOK, EnteredOnce
    <3> QED BY <1>6a, <3>3, <3>4
  <2>3. /\ \A i \in DOMAIN se : se[i].file \in sn2 /\ ~Barred(se[i].file)
        /\ \A i, j \in DOMAIN se : se[i].file = se[j].file => i = j
    BY DEF WalkOK, EnteredOnce
  <2>4. \A k, m \in DOMAIN st2 : 1 < k /\ k < m => st2[k].file # st2[m].file
    BY <2>2, Zenon
  <2> HIDE DEF sn2
  <2> QED BY <2>1, <2>3, <2>4, Zenon DEF EnteredOnce
<1>14. ASSUME NEW k \in 1..n PROVE g \in LeadsTo(st[k].file)
  <2>1. st[n].file \in Files /\ st[k].file \in Files
    BY <1>1 DEF FrameSet
  <2>2. g \in Direct(st[n].file)
    <3>1. FrameDone(st, se, n) /\ n \in DOMAIN st
      BY <1>1 DEF WalkOK, FramesDone
    <3> QED BY <1>2, <3>1 DEF FrameDone, Barred
  <2>3. CASE k = n
    BY <2>1, <2>2, <2>3, LeadsOn
  <2>4. CASE k # n
    <3>1. st[n].file \in LeadsTo(st[k].file)
      BY <1>1, <2>4 DEF WalkOK, StackLeads
    <3> QED BY <2>1, <2>2, <3>1, LeadsOn
  <2> QED BY <2>3, <2>4
<1>15. StackLeads(st2, se, r)
  <2> SUFFICES ASSUME NEW k \in DOMAIN st2, NEW m \in DOMAIN st2, k < m
               PROVE  st2[m].file \in LeadsTo(st2[k].file)
    BY DEF WalkOK, StackLeads
  <2>1. k \in 1..n
    BY <1>1, <1>5
  <2> QED BY <1>6, <1>6a, <1>14, <2>1 DEF WalkOK, StackLeads
<1>16. FramesDone(st2, se)
  <2> SUFFICES ASSUME NEW k \in 1..n + 1 PROVE FrameDone(st2, se, k)
    BY <1>5 DEF FramesDone
  <2>1. CASE k = n + 1
    <3>1. StillNeeded(needs[g]) \subseteq Direct(g) \cup {NoFile} /\ Direct(g) \subseteq StillNeeded(needs[g])
      BY DEF StillNeeded, Direct, DirectIn
    <3> QED BY <1>6a, <2>1, <3>1 DEF FrameDone, new
  <2>2. CASE k \in 1..n
    <3>1. FrameDone(st, se, k)
      BY <1>1, <2>2 DEF WalkOK, FramesDone
    <3>2. StillNeeded(st2[k].rest) \subseteq StillNeeded(st[k].rest)
          /\ StillNeeded(st[k].rest) \subseteq StillNeeded(st2[k].rest) \cup {g}
      BY <1>1, <1>2, <1>5, <2>2
    <3>3. Above(st2, k, g) /\ st2[k].file = st[k].file
      <4>1. k \in 0..n
        BY <1>1, <2>2
      <4> QED BY <1>6, <1>8, <2>2, <4>1, Zenon
    <3>4. ASSUME k > 1, NEW h \in Direct(st[k].file)
          PROVE  \/ h \in StillNeeded(st2[k].rest) \/ Barred(h) \/ InSet(se, h)
                 \/ st[k].file \in LeadsTo(h) \/ Above(st2, k, h)
      BY <1>7, <3>1, <3>2, <3>3, <3>4 DEF FrameDone
    <3>5. StillNeeded(st2[k].rest) \subseteq Direct(st[k].file) \cup {NoFile}
      BY <3>1, <3>2 DEF FrameDone
    <3> QED BY <3>3, <3>4, <3>5 DEF FrameDone
  <2> QED BY <1>1, <2>1, <2>2
<1> QED BY <1>9, <1>10, <1>13, <1>15, <1>16 DEF WalkOK

\* A file is left: each of its needs is barred, was left, or leads back to it.
LEMMA LeavesFile ==
    ASSUME NeedsOK, NEW st, NEW se, NEW sn, NEW r \in Files, WalkOK(st, se, sn, r),
           NEW n, n = Len(st), n > 1, st[n].rest = <<>>,
           NEW se2, se2 = Append(se, [lib |-> st[n].lib, file |-> st[n].file])
    PROVE  WalkOK(Front(st), se2, sn \cup {st[n].lib, st[n].file}, r)
<1> DEFINE f == st[n].file
           lib == st[n].lib
           st2 == Front(st)
           sn2 == sn \cup {lib, f}
<1>1. /\ n \in Nat \ {0} /\ DOMAIN st = 1..n /\ st \in Seq(FrameSet)
      /\ \A k \in 1..n : st[k] \in FrameSet
  BY EmptySeq, LenProperties DEF WalkOK, WalkTypeOK
<1>2. /\ st2 \in Seq(FrameSet) /\ Len(st2) = n - 1 /\ DOMAIN st2 = 1..n - 1
      /\ \A k \in 1..n - 1 : st2[k] = st[k]
  BY <1>1 DEF Front
<1>3. f \in Files /\ lib \in DOMAIN FileOf /\ FileOf[lib] = f /\ [lib |-> lib, file |-> f] \in EntrySet
  <2>1. n \in 1..n /\ st[n] \in FrameSet
    BY <1>1
  <2>2. f \in Files
    BY <2>1 DEF FrameSet
  <2>3. lib \in DOMAIN FileOf /\ FileOf[lib] = f
    BY <1>1, <2>1 DEF WalkOK, WalkTypeOK
  <2> QED BY <2>2, <2>3 DEF EntrySet
<1>4. /\ se \in Seq(EntrySet) /\ Len(se) \in Nat /\ DOMAIN se = 1..Len(se)
  BY LenProperties DEF WalkOK, WalkTypeOK
<1>5. /\ se2 \in Seq(EntrySet) /\ DOMAIN se2 = 1..Len(se) + 1
      /\ \A i \in 1..Len(se) : se2[i] = se[i]
      /\ se2[Len(se) + 1].file = f
  BY <1>3, <1>4, AppendProperties, LenProperties
<1> HIDE DEF st2
<1>6. \A x : InSet(se2, x) <=> InSet(se, x) \/ x = f
  BY <1>4, <1>5 DEF InSet
<1>7. \A k \in 0..n - 1 : \A x : Above(st, k, x) => Above(st2, k, x) \/ x = f
  BY <1>1, <1>2 DEF Above
<1>7a. \A k \in DOMAIN st2 : k \in DOMAIN st /\ st2[k] = st[k]
  BY <1>1, <1>2
<1>8. WalkTypeOK(st2, se2, r)
  <2>1. st2 # <<>> /\ st2[1].file = r
    BY <1>1, <1>2 DEF WalkOK, WalkTypeOK
  <2>2. \A k \in DOMAIN st2 : k > 1 => st2[k].lib \in DOMAIN FileOf /\ FileOf[st2[k].lib] = st2[k].file
    BY <1>1, <1>2, <1>7a DEF WalkOK, WalkTypeOK
  <2> QED BY <1>2, <1>5, <2>1, <2>2 DEF WalkTypeOK
<1>9. SeenSettled(st2, se2, sn2)
  <2> SUFFICES ASSUME NEW x \in sn2
               PROVE  /\ x \in DOMAIN FileOf => SettledFile(st2, se2, FileOf[x])
                      /\ x \in Files => SettledFile(st2, se2, x)
    BY DEF SeenSettled
  <2>1. \A y : SettledFile(st, se, y) => SettledFile(st2, se2, y)
    BY <1>1, <1>6, <1>7 DEF SettledFile
  <2>2. SettledFile(st2, se2, f)
    BY <1>6 DEF SettledFile
  <2>3. CASE x \in sn
    BY <2>1, <2>3 DEF WalkOK, SeenSettled
  <2>4. CASE x = lib
    BY <1>3, <2>2, <2>4, LoaderAssumption
  <2>5. CASE x = f
    BY <1>3, <2>2, <2>5, LoaderAssumption
  <2> QED BY <2>3, <2>4, <2>5
<1>10. f \in sn /\ ~Barred(f) /\ ~InSet(se, f)
  BY <1>1 DEF WalkOK, EnteredOnce
<1>11. EnteredOnce(st2, se2, sn2)
  <2>1. \A i \in DOMAIN se2 : se2[i].file \in sn2 /\ ~Barred(se2[i].file)
    BY <1>4, <1>5, <1>10 DEF WalkOK, EnteredOnce
  <2>2. \A i, j \in DOMAIN se2 : se2[i].file = se2[j].file => i = j
    BY <1>4, <1>5, <1>10 DEF WalkOK, EnteredOnce, InSet
  <2>3. \A k \in DOMAIN st2 : k > 1 => st2[k].file \in sn2 /\ ~Barred(st2[k].file) /\ ~InSet(se2, st2[k].file)
    BY <1>1, <1>2, <1>6 DEF WalkOK, EnteredOnce
  <2>4. \A k, m \in DOMAIN st2 : 1 < k /\ k < m => st2[k].file # st2[m].file
    BY <1>7a DEF WalkOK, EnteredOnce
  <2> QED BY <2>1, <2>2, <2>3, <2>4 DEF EnteredOnce
<1>12. StackLeads(st2, se2, r)
  <2>1. f \in LeadsTo(r)
    BY <1>1 DEF WalkOK, StackLeads, WalkTypeOK
  <2>2. \A k, m \in DOMAIN st2 : k < m => st2[m].file \in LeadsTo(st2[k].file)
    BY <1>7a DEF WalkOK, StackLeads
  <2>3. \A i \in DOMAIN se2 : se2[i].file \in LeadsTo(r)
    BY <1>4, <1>5, <2>1 DEF WalkOK, StackLeads
  <2> QED BY <2>2, <2>3 DEF StackLeads
<1>13. FramesDone(st2, se2)
  <2> SUFFICES ASSUME NEW k \in 1..n - 1 PROVE FrameDone(st2, se2, k)
    BY <1>2 DEF FramesDone
  <2>1. FrameDone(st, se, k) /\ st2[k] = st[k]
    BY <1>2, <1>7a DEF WalkOK, FramesDone
  <2>2. \A x : Above(st, k, x) => Above(st2, k, x) \/ x = f
    BY <1>1, <1>7
  <2> QED BY <1>6, <2>1, <2>2 DEF FrameDone
<1>14. SetDone(se2)
  <2> SUFFICES ASSUME NEW i \in DOMAIN se2, NEW g \in Direct(se2[i].file)
               PROVE  \/ Barred(g) \/ se2[i].file \in LeadsTo(g)
                      \/ \E j \in DOMAIN se2 : j < i /\ se2[j].file = g
    BY DEF SetDone
  <2>1. CASE i \in 1..Len(se)
    <3>1. \/ Barred(g) \/ se[i].file \in LeadsTo(g)
          \/ \E j \in DOMAIN se : j < i /\ se[j].file = g
      BY <1>4, <1>5, <2>1 DEF WalkOK, SetDone
    <3> QED BY <1>4, <1>5, <2>1, <3>1
  <2>2. CASE i = Len(se) + 1
    <3>1. FrameDone(st, se, n) /\ StillNeeded(st[n].rest) = {} /\ ~Above(st, n, g)
      BY <1>1 DEF WalkOK, FramesDone, StillNeeded, Above
    <3>2. Barred(g) \/ InSet(se, g) \/ f \in LeadsTo(g)
      BY <1>1, <1>5, <2>2, <3>1 DEF FrameDone
    <3> QED BY <1>4, <1>5, <2>2, <3>2 DEF InSet
  <2> QED BY <1>4, <1>5, <2>1, <2>2
<1> QED BY <1>8, <1>9, <1>11, <1>12, <1>13, <1>14 DEF WalkOK, st2

(***************************************************************************)
(* After the walk the files wait in three lines: those with their          *)
(* module_start entered, those mapped, those still to be mapped.           *)
(***************************************************************************)
Before(f, g) == g \in Direct(f) => f \in LeadsTo(g)
Line(x) == \A i, j \in DOMAIN x : i < j => Before(x[i], x[j])
Ahead(x, y) == \A i \in DOMAIN x : \A j \in DOMAIN y : Before(x[i], y[j])
Led(x, r) == \A i \in DOMAIN x : x[i] \in LeadsTo(r)
InLine(x, y, z, r) ==
    /\ Line(x) /\ Line(y) /\ Line(z) /\ Ahead(x, y) /\ Ahead(x, z) /\ Ahead(y, z)
    /\ Led(x, r) /\ Led(y, r) /\ Led(z, r)

FilesOf(ids) == [i \in DOMAIN ids |-> modules[ids[i]].file]
EntryFiles(se) == [i \in DOMAIN se |-> se[i].file]

\* The head of the line y goes to the end of the line x.
HeadMoved(x, n, y, m, x2, y2) ==
    /\ DOMAIN x = 1..n /\ DOMAIN y = 1..m /\ DOMAIN x2 = 1..n + 1 /\ DOMAIN y2 = 1..m - 1
    /\ \A i \in 1..n : x2[i] = x[i]
    /\ x2[n + 1] = y[1]
    /\ \A i \in 1..m - 1 : y2[i] = y[i + 1]
MovedUp(x, y, x2, y2) == \E n \in Nat : \E m \in Nat \ {0} : HeadMoved(x, n, y, m, x2, y2)

\* What was walked is in line: a need that is barred was not entered, and one
\* that was left before was not left again.
LEMMA WalkedInLine ==
    ASSUME NEW st, NEW se, NEW sn, NEW r, WalkOK(st, se, sn, r)
    PROVE  Line(EntryFiles(se)) /\ Led(EntryFiles(se), r)
<1>1. DOMAIN EntryFiles(se) = DOMAIN se /\ \A i \in DOMAIN se : EntryFiles(se)[i] = se[i].file
  BY DEF EntryFiles
<1>2. se \in Seq(EntrySet) /\ DOMAIN se \subseteq Nat
  BY LenProperties DEF WalkOK, WalkTypeOK
<1>3. ASSUME NEW i \in DOMAIN se, NEW j \in DOMAIN se, i < j, se[j].file \in Direct(se[i].file)
      PROVE  se[i].file \in LeadsTo(se[j].file)
  <2>1. ~Barred(se[j].file)
    BY DEF WalkOK, EnteredOnce
  <2>2. \A k \in DOMAIN se : se[k].file = se[j].file => ~(k < i)
    BY <1>2, <1>3 DEF WalkOK, EnteredOnce
  <2> QED BY <1>3, <2>1, <2>2 DEF WalkOK, SetDone
<1>4. Led(EntryFiles(se), r)
  BY <1>1 DEF WalkOK, StackLeads, Led
<1> QED BY <1>1, <1>3, <1>4 DEF Line, Before

\* The lines stay in order when the head of one moves up.
LEMMA MovesUp ==
    ASSUME NEW x, NEW y, NEW x2, NEW y2, MovedUp(x, y, x2, y2), NEW r,
           Line(x), Line(y), Ahead(x, y), Led(x, r), Led(y, r)
    PROVE  /\ Line(x2) /\ Line(y2) /\ Ahead(x2, y2) /\ Led(x2, r) /\ Led(y2, r)
           /\ \A z : Ahead(x, z) /\ Ahead(y, z) => Ahead(x2, z) /\ Ahead(y2, z)
           /\ \A z : Ahead(z, x) /\ Ahead(z, y) => Ahead(z, x2) /\ Ahead(z, y2)
<1>1. PICK n \in Nat, m \in Nat \ {0} : HeadMoved(x, n, y, m, x2, y2)
  BY DEF MovedUp
<1>2. /\ DOMAIN x = 1..n /\ DOMAIN y = 1..m /\ DOMAIN x2 = 1..n + 1 /\ DOMAIN y2 = 1..m - 1
      /\ \A i \in 1..n : x2[i] = x[i]
      /\ x2[n + 1] = y[1]
      /\ \A i \in 1..m - 1 : y2[i] = y[i + 1]
  BY <1>1 DEF HeadMoved
<1>3. \A i \in DOMAIN x2 : (i \in DOMAIN x /\ x2[i] = x[i]) \/ (i = n + 1 /\ x2[i] = y[1])
  BY <1>2
<1>4. \A i \in DOMAIN y2 : i + 1 \in DOMAIN y /\ 1 < i + 1 /\ y2[i] = y[i + 1]
  BY <1>2
<1>5. 1 \in DOMAIN y
  BY <1>2
<1>6. Line(x2)
  <2> SUFFICES ASSUME NEW i \in DOMAIN x2, NEW j \in DOMAIN x2, i < j PROVE Before(x2[i], x2[j])
    BY DEF Line
  <2>1. i \in DOMAIN x /\ x2[i] = x[i]
    BY <1>2
  <2> QED BY <1>3, <1>5, <2>1 DEF Line, Ahead
<1>7. Line(y2)
  <2> SUFFICES ASSUME NEW i \in DOMAIN y2, NEW j \in DOMAIN y2, i < j PROVE Before(y2[i], y2[j])
    BY DEF Line
  <2>1. i + 1 < j + 1
    BY <1>2
  <2> QED BY <1>4, <2>1 DEF Line
<1>8. Ahead(x2, y2)
  <2> SUFFICES ASSUME NEW i \in DOMAIN x2, NEW j \in DOMAIN y2 PROVE Before(x2[i], y2[j])
    BY DEF Ahead
  <2>1. CASE i \in DOMAIN x /\ x2[i] = x[i]
    BY <1>4, <2>1 DEF Ahead
  <2>2. CASE x2[i] = y[1]
    BY <1>4, <1>5, <2>2 DEF Line
  <2> QED BY <1>3, <2>1, <2>2
<1>9. Led(x2, r) /\ Led(y2, r)
  BY <1>3, <1>4, <1>5 DEF Led
<1>10. ASSUME NEW z, Ahead(x, z), Ahead(y, z) PROVE Ahead(x2, z) /\ Ahead(y2, z)
  BY <1>3, <1>4, <1>5, <1>10 DEF Ahead
<1>11. ASSUME NEW z, Ahead(z, x), Ahead(z, y) PROVE Ahead(z, x2) /\ Ahead(z, y2)
  BY <1>3, <1>4, <1>5, <1>11 DEF Ahead
<1> QED BY <1>6, <1>7, <1>8, <1>9, <1>10, <1>11

\* ... or drops out.
LEMMA DropsOut ==
    ASSUME NEW y, NEW y2, NEW m \in Nat \ {0}, DOMAIN y = 1..m, DOMAIN y2 = 1..m - 1,
           \A i \in 1..m - 1 : y2[i] = y[i + 1], NEW r, Line(y), Led(y, r)
    PROVE  Line(y2) /\ Led(y2, r) /\ \A z : Ahead(z, y) => Ahead(z, y2)
<1>1. \A i \in DOMAIN y2 : i + 1 \in DOMAIN y /\ y2[i] = y[i + 1]
  OBVIOUS
<1>2. Line(y2)
  <2> SUFFICES ASSUME NEW i \in DOMAIN y2, NEW j \in DOMAIN y2, i < j PROVE Before(y2[i], y2[j])
    BY DEF Line
  <2>1. i + 1 < j + 1
    OBVIOUS
  <2> QED BY <1>1, <2>1 DEF Line
<1>3. Led(y2, r)
  BY <1>1 DEF Led
<1>4. ASSUME NEW z, Ahead(z, y) PROVE Ahead(z, y2)
  BY <1>1, <1>4 DEF Ahead
<1> QED BY <1>2, <1>3, <1>4

\* The needs are an input: what they make true stays true.
LEMMA NeedsStay ==
    ASSUME UNCHANGED needs
    PROVE  /\ \A f : Direct(f)' = Direct(f) /\ LeadsTo(f)' = LeadsTo(f)
           /\ \A f, g : Before(f, g)' <=> Before(f, g)
<1>1. \A f : Direct(f)' = Direct(f)
  BY DEF Direct, DirectIn
<1>2. \A f : LeadsTo(f)' = LeadsTo(f)
  BY DEF LeadsTo
<1> QED BY <1>1, <1>2 DEF Before

\* WalkOK is about the needs and the files mapped before, and both stay.
LEMMA WalkCarries ==
    ASSUME UNCHANGED <<needs, loaded_module_paths>>, NEW st, NEW se, NEW sn, NEW r, WalkOK(st, se, sn, r)
    PROVE  WalkOK(st, se, sn, r)'
<1>1. \A f : Direct(f)' = Direct(f) /\ LeadsTo(f)' = LeadsTo(f)
  BY NeedsStay
<1>2. \A g : Barred(g)' <=> Barred(g)
  BY DEF Barred
<1>3. WalkTypeOK(st, se, r)'
  BY DEF WalkOK, WalkTypeOK, FrameSet, EntrySet
<1>4. SeenSettled(st, se, sn)'
  BY <1>2 DEF WalkOK, SeenSettled, SettledFile, InSet, Above
<1>5. EnteredOnce(st, se, sn)'
  BY <1>2 DEF WalkOK, EnteredOnce, InSet
<1>6. StackLeads(st, se, r)'
  BY <1>1 DEF WalkOK, StackLeads
<1>7. FramesDone(st, se)'
  BY <1>1, <1>2 DEF WalkOK, FramesDone, FrameDone, InSet, Above, StillNeeded
<1>8. SetDone(se)'
  BY <1>1, <1>2 DEF WalkOK, SetDone
<1> QED BY <1>3, <1>4, <1>5, <1>6, <1>7, <1>8 DEF WalkOK

Seen == load.loaded \cup load.loading

\* The invariant: what the walk keeps while it runs, three lines in order once
\* it is over, nothing entered between two loads, and in order what each thread
\* was left to start.
WalkInOrder ==
    load.phase = "walk" =>
        /\ WalkOK(load.stack, load.set, Seen, load.file)
        /\ module_inits = <<>> /\ load.mapped = <<>>

LinesInOrder ==
    load.phase # "walk" =>
        InLine(FilesOf(module_inits), FilesOf(load.mapped), EntryFiles(load.set), load.file)

OrderTypeOK ==
    /\ NeedsOK
    /\ load.phase = "none" => module_inits = <<>>
    /\ load.phase \in {"walk", "map", "relocate", "target"} => load.file \in Files
    /\ load.set \in Seq(EntrySet) /\ module_inits \in Seq(DOMAIN modules)
    /\ to_start \in [LoadThreads -> Seq(DOMAIN modules)]

StartsInOrder == \A t \in LoadThreads : Line(FilesOf(to_start[t]))

OrderInv == OrderTypeOK /\ WalkInOrder /\ LinesInOrder /\ StartsInOrder

\* A name the walk passes over leads to a file that is settled.
LEMMA SkippedIsSettled ==
    ASSUME NEW st, NEW se, NEW r, WalkOK(st, se, Seen, r), NEW lib \in DOMAIN FileOf, Skips(lib)
    PROVE  SettledFile(st, se, FileOf[lib])
<1>1. FileOf[lib] \in Files \cup {NoFile}
  BY LoaderAssumption
<1> QED BY <1>1 DEF Skips, Seen, WalkOK, SeenSettled, SettledFile, Barred

\* The steps of the walk.
LEMMA walk_skip_Order ==
    ASSUME LoaderInv, OrderInv, walk_skip
    PROVE  WalkOK(load'.stack, load'.set, Seen', load'.file)
<1> DEFINE st == load.stack
           n == Len(st)
           lib == Head(st[n].rest)
<1>1. WalkOK(st, load.set, Seen, load.file) /\ NeedsOK /\ load.file \in Files
  BY DEF OrderInv, OrderTypeOK, WalkInOrder, walk_skip, Walking
<1>2. st \in Seq(FrameSet) /\ st # <<>> /\ Walked.rest # <<>>
  BY <1>1 DEF WalkOK, WalkTypeOK, walk_skip, Walking
<1>3. /\ Walked = st[n] /\ n \in DOMAIN st
      /\ Popped \in Seq(FrameSet) /\ Len(Popped) = n
      /\ \A k \in DOMAIN st : k # n => Popped[k] = st[k]
      /\ Popped[n] = [st[n] EXCEPT !.rest = Tail(@)]
  BY <1>2, PoppedStack
<1>4. st[n] \in FrameSet /\ st[n].rest # <<>> /\ lib \in DOMAIN FileOf
  <2>1. st[n] \in FrameSet /\ st[n].rest # <<>>
    BY <1>2, <1>3
  <2> QED BY <2>1, PoppedFrame
<1>5. /\ Skips(lib)
      /\ load'.stack = Popped /\ load'.set = load.set /\ load'.file = load.file
      /\ load'.loading = load.loading
      /\ load'.loaded = IF lib \in load.loading THEN load.loaded ELSE load.loaded \cup {lib}
  BY <1>3 DEF walk_skip, LoaderInv, LoaderTypeOK, LoadFields
<1>6. SettledFile(st, load.set, FileOf[lib])
  BY <1>1, <1>4, <1>5, SkippedIsSettled
<1>7. Seen \subseteq Seen' /\ Seen' \subseteq Seen \cup {lib} \cup (Files \cap {FileOf[lib]})
  BY <1>5 DEF Seen
<1> HIDE DEF st, n, lib
<1>8. WalkOK(Popped, load.set, Seen', load.file)
  BY <1>1, <1>3, <1>4, <1>6, <1>7, PassedOver DEF n, lib
<1> QED BY <1>5, <1>8

LEMMA walk_enter_Order ==
    ASSUME LoaderInv, OrderInv, walk_enter
    PROVE  WalkOK(load'.stack, load'.set, Seen', load'.file)
<1> DEFINE st == load.stack
           n == Len(st)
           lib == Head(st[n].rest)
<1>1. WalkOK(st, load.set, Seen, load.file) /\ NeedsOK /\ load.file \in Files
  BY DEF OrderInv, OrderTypeOK, WalkInOrder, walk_enter, Walking
<1>2. st \in Seq(FrameSet) /\ st # <<>> /\ Walked.rest # <<>>
  BY <1>1 DEF WalkOK, WalkTypeOK, walk_enter, Walking
<1>3. /\ Walked = st[n] /\ n \in DOMAIN st
      /\ Popped \in Seq(FrameSet) /\ Len(Popped) = n
      /\ \A k \in DOMAIN st : k # n => Popped[k] = st[k]
      /\ Popped[n] = [st[n] EXCEPT !.rest = Tail(@)]
  BY <1>2, PoppedStack
<1>4. st[n] \in FrameSet /\ st[n].rest # <<>> /\ lib \in DOMAIN FileOf
  <2>1. st[n] \in FrameSet /\ st[n].rest # <<>>
    BY <1>2, <1>3
  <2> QED BY <2>1, PoppedFrame
<1>5. /\ ~Skips(lib)
      /\ load' = IF FileOf[lib] \in BrokenFiles
                 THEN [load EXCEPT !.stack = Popped, !.loaded = @ \cup {lib, FileOf[lib]}]
                 ELSE [load EXCEPT !.stack = Append(Popped, Frame(lib, FileOf[lib])),
                                   !.loading = @ \cup {lib, FileOf[lib]}]
  BY <1>3 DEF walk_enter
<1>6. load'.set = load.set /\ load'.file = load.file /\ Seen' = Seen \cup {lib, FileOf[lib]}
  BY <1>5 DEF Seen, LoaderInv, LoaderTypeOK, LoadFields
<1>7. FileOf[lib] \in Files /\ FileOf[lib] \notin Seen /\ FileOf[lib] \notin DOMAIN loaded_module_paths
      /\ FileOf[lib] # NoFile
  BY <1>4, <1>5, LoaderAssumption DEF Skips, Seen
<1>8. CASE FileOf[lib] \in BrokenFiles
  <2>1. load'.stack = Popped
    BY <1>5, <1>8 DEF LoaderInv, LoaderTypeOK, LoadFields
  <2>2. SettledFile(st, load.set, FileOf[lib])
    BY <1>8 DEF SettledFile, Barred
  <2>3. Seen \subseteq Seen' /\ Seen' \subseteq Seen \cup {lib} \cup (Files \cap {FileOf[lib]})
    BY <1>6, <1>7
  <2> HIDE DEF st, n, lib
  <2>4. WalkOK(Popped, load.set, Seen', load.file)
    BY <1>1, <1>3, <1>4, <2>2, <2>3, PassedOver DEF n, lib
  <2> QED BY <1>6, <2>1, <2>4
<1>9. CASE FileOf[lib] \notin BrokenFiles
  <2>1. load'.stack = Append(Popped, Frame(lib, FileOf[lib]))
    BY <1>5, <1>9 DEF LoaderInv, LoaderTypeOK, LoadFields
  <2>2. ~Barred(FileOf[lib])
    BY <1>7, <1>9 DEF Barred
  <2> HIDE DEF st, n, lib
  <2>3. WalkOK(load'.stack, load.set, Seen \cup {lib, FileOf[lib]}, load.file)
    BY <1>1, <1>3, <1>4, <1>7, <2>1, <2>2, EntersFile DEF n, lib
  <2> QED BY <1>6, <2>3
<1> QED BY <1>8, <1>9

LEMMA walk_leave_Order ==
    ASSUME LoaderInv, OrderInv, walk_leave
    PROVE  WalkOK(load'.stack, load'.set, Seen', load'.file)
<1> DEFINE st == load.stack
           n == Len(st)
<1>1. WalkOK(st, load.set, Seen, load.file) /\ NeedsOK /\ load.file \in Files
  BY DEF OrderInv, OrderTypeOK, WalkInOrder, walk_leave
<1>2. Walked = st[n] /\ st[n].rest = <<>> /\ n > 1
  BY DEF walk_leave, Walked, Last
<1>3. /\ load'.stack = Front(st) /\ load'.file = load.file
      /\ load'.set = Append(load.set, [lib |-> st[n].lib, file |-> st[n].file])
      /\ load'.loading = load.loading \ {st[n].lib, st[n].file}
      /\ load'.loaded = load.loaded \cup {st[n].lib, st[n].file}
  BY <1>2 DEF walk_leave, LoaderInv, LoaderTypeOK, LoadFields
<1>4. Seen' = Seen \cup {st[n].lib, st[n].file}
  BY <1>3 DEF Seen
<1> HIDE DEF st, n
<1>5. WalkOK(Front(st), load'.set, Seen \cup {st[n].lib, st[n].file}, load.file)
  BY <1>1, <1>2, <1>3, LeavesFile DEF n
<1> QED BY <1>3, <1>4, <1>5

\* A load begins with its target's frame alone: nothing is entered, and the
\* only name seen, if any, is one that leads to the target or nowhere.
LEMMA WalkBegins ==
    ASSUME NeedsOK, NEW r \in Files, NEW name,
           name \in {"eboot.bin"} \cup {StemOf[p] : p \in DOMAIN StemOf},
           NEW sn, sn \subseteq {name},
           \A x \in sn : /\ x \in DOMAIN FileOf => FileOf[x] \in {r, NoFile}
                         /\ x \in Files => x = r
    PROVE  WalkOK(<<Frame(name, r)>>, <<>>, sn, r)
<1> DEFINE st == <<Frame(name, r)>>
<1>1. Frame(name, r) = [lib |-> name, file |-> r, rest |-> needs[r]] /\ Frame(name, r) \in FrameSet
  BY DEF Frame, FrameSet, NeedsOK
<1>2. st \in Seq(FrameSet) /\ DOMAIN st = {1} /\ st[1] = Frame(name, r) /\ st # <<>>
      /\ <<>> \in Seq(EntrySet)
  BY <1>1
<1>2a. \A k \in DOMAIN st : k = 1
  BY <1>2
<1>3. st[1].file = r /\ st[1].rest = needs[r]
  BY <1>1, <1>2
<1> HIDE DEF st
<1>4. WalkTypeOK(st, <<>>, r)
  BY <1>2, <1>2a, <1>3 DEF WalkTypeOK
<1>5. SeenSettled(st, <<>>, sn)
  <2>1. SettledFile(st, <<>>, r) /\ SettledFile(st, <<>>, NoFile)
    BY <1>2, <1>3 DEF SettledFile, Above, Barred
  <2> QED BY <2>1 DEF SeenSettled
<1>6. EnteredOnce(st, <<>>, sn) /\ StackLeads(st, <<>>, r) /\ SetDone(<<>>)
  <2>1. DOMAIN <<>> = {}
    OBVIOUS
  <2> QED BY <1>2a, <2>1 DEF EnteredOnce, StackLeads, SetDone
<1>7. FramesDone(st, <<>>)
  <2>1. StillNeeded(needs[r]) \subseteq Direct(r) \cup {NoFile}
    BY DEF StillNeeded, Direct, DirectIn
  <2> QED BY <1>2a, <1>3, <2>1 DEF FramesDone, FrameDone
<1> QED BY <1>4, <1>5, <1>6, <1>7 DEF WalkOK, st

\* The steps of the walk keep the invariant.
LEMMA Walking_Order ==
    ASSUME LoaderInv, OrderInv, walk_skip \/ walk_enter \/ walk_leave
    PROVE  OrderInv'
<1>1. /\ UNCHANGED <<needs, modules, loaded_module_paths, module_inits, to_start>>
      /\ load.phase = "walk" /\ load'.phase = "walk" /\ load'.mapped = load.mapped /\ load'.file = load.file
  BY DEF walk_skip, walk_enter, walk_leave, Walking, LoaderRest, LoaderInv, LoaderTypeOK, LoadFields
<1>2. WalkOK(load'.stack, load'.set, Seen', load'.file)
  BY walk_skip_Order, walk_enter_Order, walk_leave_Order
<1>3. load'.set \in Seq(EntrySet)
  BY <1>2 DEF WalkOK, WalkTypeOK
<1>4. WalkOK(load.stack, load.set, Seen, load.file)'
  <2>1. \A st, se, sn, r : WalkOK(st, se, sn, r) => WalkOK(st, se, sn, r)'
    BY <1>1, WalkCarries
  <2> QED BY <1>2, <2>1
<1>5. WalkInOrder' /\ LinesInOrder'
  BY <1>1, <1>4 DEF OrderInv, WalkInOrder, LinesInOrder
<1>6. OrderTypeOK'
  BY <1>1, <1>3 DEF OrderInv, OrderTypeOK, NeedsOK, EntrySet
<1>7. StartsInOrder'
  BY <1>1, NeedsStay DEF OrderInv, StartsInOrder, Line, FilesOf
<1> QED BY <1>5, <1>6, <1>7 DEF OrderInv

\* The files of known modules stay when modules are added.
LEMMA FilesStay ==
    ASSUME DOMAIN modules \subseteq DOMAIN modules',
           \A id \in DOMAIN modules : modules'[id].file = modules[id].file,
           NEW ids \in Seq(DOMAIN modules)
    PROVE  FilesOf(ids)' = FilesOf(ids) /\ ids \in Seq(DOMAIN modules')
<1>1. \A i \in DOMAIN ids : ids[i] \in DOMAIN modules
  OBVIOUS
<1>2. ids \in Seq(DOMAIN modules')
  BY SeqMonotonic
<1> QED BY <1>1, <1>2 DEF FilesOf

\* ... and with them the order of what the threads were left.
LEMMA StartsStay ==
    ASSUME OrderInv, UNCHANGED <<needs, to_start>>, DOMAIN modules \subseteq DOMAIN modules',
           \A id \in DOMAIN modules : modules'[id].file = modules[id].file
    PROVE  StartsInOrder' /\ to_start' \in [LoadThreads -> Seq(DOMAIN modules')]
<1>1. ASSUME NEW t \in LoadThreads
      PROVE  Line(FilesOf(to_start[t]))' /\ to_start[t] \in Seq(DOMAIN modules')
  <2>1. to_start[t] \in Seq(DOMAIN modules) /\ Line(FilesOf(to_start[t]))
    BY DEF OrderInv, OrderTypeOK, StartsInOrder
  <2>2. FilesOf(to_start[t])' = FilesOf(to_start[t]) /\ to_start[t] \in Seq(DOMAIN modules')
    <3>1. \A ids \in Seq(DOMAIN modules) : FilesOf(ids)' = FilesOf(ids) /\ ids \in Seq(DOMAIN modules')
      BY FilesStay
    <3> QED BY <2>1, <3>1 DEF FilesOf
  <2> QED BY <2>1, <2>2, NeedsStay DEF Line
<1>2. to_start' \in [LoadThreads -> Seq(DOMAIN modules')]
  BY <1>1 DEF OrderInv, OrderTypeOK
<1> QED BY <1>1, <1>2 DEF StartsInOrder

\* The walk ends: what it left is in line, and nothing waits ahead of it.
LEMMA walk_end_Order ==
    ASSUME LoaderInv, OrderInv, walk_end
    PROVE  OrderInv'
<1>1. /\ UNCHANGED <<needs, modules, loaded_module_paths, module_inits, to_start>>
      /\ load.phase = "walk" /\ load'.phase = "map" /\ load'.mapped = load.mapped
      /\ load'.file = load.file /\ load'.set = load.set
  BY DEF walk_end, LoaderRest, LoaderInv, LoaderTypeOK, LoadFields
<1>2. Line(EntryFiles(load.set)) /\ Led(EntryFiles(load.set), load.file)
  BY <1>1, WalkedInLine DEF OrderInv, WalkInOrder
<1>3. FilesOf(<<>>) = <<>> /\ module_inits = <<>> /\ load.mapped = <<>>
  BY <1>1 DEF FilesOf, OrderInv, WalkInOrder
<1>4. InLine(<<>>, <<>>, EntryFiles(load.set), load.file)
  BY <1>2 DEF InLine, Line, Ahead, Led
<1>5. InLine(<<>>, <<>>, EntryFiles(load.set), load.file)'
  BY <1>1, <1>4, NeedsStay DEF InLine, Line, Ahead, Led, EntryFiles
<1>6. LinesInOrder' /\ WalkInOrder'
  BY <1>1, <1>3, <1>5 DEF LinesInOrder, WalkInOrder, FilesOf
<1>7. OrderTypeOK'
  BY <1>1 DEF OrderInv, OrderTypeOK, NeedsOK, EntrySet
<1>8. StartsInOrder'
  BY <1>1, StartsStay
<1> QED BY <1>6, <1>7, <1>8 DEF OrderInv

\* The steps that leave the lines as they are.
LEMMA map_end_Order ==
    ASSUME LoaderInv, OrderInv, map_end
    PROVE  OrderInv'
<1>1. /\ UNCHANGED <<needs, modules, module_inits, to_start>>
      /\ load.phase = "map" /\ load'.phase = "relocate" /\ load'.mapped = load.mapped
      /\ load'.file = load.file /\ load'.set = load.set
  BY DEF map_end, LoaderRest, LoaderInv, LoaderTypeOK, LoadFields
<1>2. LinesInOrder' /\ WalkInOrder'
  <2>1. InLine(FilesOf(module_inits), FilesOf(load.mapped), EntryFiles(load.set), load.file)
    BY <1>1 DEF OrderInv, LinesInOrder
  <2>2. /\ FilesOf(module_inits)' = FilesOf(module_inits) /\ FilesOf(load.mapped)' = FilesOf(load.mapped)
        /\ EntryFiles(load.set)' = EntryFiles(load.set)
    BY <1>1 DEF FilesOf, EntryFiles
  <2>3. InLine(FilesOf(module_inits), FilesOf(load.mapped), EntryFiles(load.set), load.file)'
    BY <1>1, <2>1, <2>2, NeedsStay DEF InLine, Line, Ahead, Led
  <2> QED BY <1>1, <2>3 DEF LinesInOrder, WalkInOrder
<1>3. OrderTypeOK'
  BY <1>1 DEF OrderInv, OrderTypeOK, NeedsOK, EntrySet
<1>4. StartsInOrder'
  BY <1>1, StartsStay
<1> QED BY <1>2, <1>3, <1>4 DEF OrderInv

LEMMA target_map_Order ==
    ASSUME LoaderInv, OrderInv, target_map
    PROVE  OrderInv'
<1>1. /\ UNCHANGED <<needs, module_inits, to_start>>
      /\ load.phase = "relocate" /\ load'.phase = "target" /\ load'.mapped = load.mapped
      /\ load'.file = load.file /\ load'.set = load.set
      /\ modules' = [Registered(load.name, load.file) EXCEPT ![next_id].load = loads + 1]
  BY DEF target_map, LoaderInv, LoaderTypeOK, LoadFields
<1>2. DOMAIN modules \subseteq DOMAIN modules' /\ \A id \in DOMAIN modules : modules'[id].file = modules[id].file
  <2>1. next_id \notin DOMAIN modules
    BY DEF LoaderInv, LoaderTypeOK
  <2> QED BY <1>1, <2>1 DEF Registered
<1>3. module_inits \in Seq(DOMAIN modules) /\ load.mapped \in Seq(DOMAIN modules)
  BY DEF OrderInv, OrderTypeOK, LoaderInv, LoaderTypeOK
<1>4. /\ FilesOf(module_inits)' = FilesOf(module_inits) /\ module_inits \in Seq(DOMAIN modules')
      /\ FilesOf(load.mapped)' = FilesOf(load.mapped)
  <2>1. \A ids \in Seq(DOMAIN modules) : FilesOf(ids)' = FilesOf(ids) /\ ids \in Seq(DOMAIN modules')
    BY <1>2, FilesStay
  <2> QED BY <1>1, <1>3, <2>1 DEF FilesOf
<1>5. LinesInOrder' /\ WalkInOrder'
  <2>1. InLine(FilesOf(module_inits), FilesOf(load.mapped), EntryFiles(load.set), load.file)
    BY <1>1 DEF OrderInv, LinesInOrder
  <2>2. EntryFiles(load.set)' = EntryFiles(load.set)
    BY <1>1 DEF EntryFiles
  <2>3. InLine(FilesOf(module_inits), FilesOf(load.mapped), EntryFiles(load.set), load.file)'
    BY <1>1, <1>4, <2>1, <2>2, NeedsStay DEF InLine, Line, Ahead, Led
  <2> QED BY <1>1, <2>3 DEF LinesInOrder, WalkInOrder
<1>6. OrderTypeOK'
  BY <1>1, <1>2, <1>4, StartsStay DEF OrderInv, OrderTypeOK, NeedsOK, EntrySet
<1>7. StartsInOrder'
  BY <1>1, <1>2, StartsStay
<1> QED BY <1>5, <1>6, <1>7 DEF OrderInv

\* A mapped module leaves the set: its file goes from the third line to the
\* second; one that does not fit drops out.
LEMMA map_next_Order ==
    ASSUME LoaderInv, OrderInv, map_next
    PROVE  OrderInv'
<1> DEFINE m == Head(load.set)
           x == FilesOf(module_inits)
           y == FilesOf(load.mapped)
           z == EntryFiles(load.set)
           r == load.file
<1>1. /\ load.phase = "map" /\ load.set # <<>> /\ UNCHANGED <<needs, module_inits, to_start>>
      /\ load'.phase = "map" /\ load'.file = load.file /\ load'.set = Tail(load.set)
  BY DEF map_next, LoaderInv, LoaderTypeOK, LoadFields
<1>2. InLine(x, y, z, r)
  BY <1>1 DEF OrderInv, LinesInOrder
<1>3. /\ load.set \in Seq(EntrySet) /\ Tail(load.set) \in Seq(EntrySet)
      /\ Len(load.set) \in Nat \ {0} /\ m = load.set[1]
      /\ DOMAIN load.set = 1..Len(load.set) /\ DOMAIN Tail(load.set) = 1..Len(load.set) - 1
      /\ \A i \in 1..Len(load.set) - 1 : Tail(load.set)[i] = load.set[i + 1]
  <2>1. load.set \in Seq(EntrySet) /\ load.set # <<>>
    BY <1>1 DEF OrderInv, OrderTypeOK
  <2>2. Tail(load.set) \in Seq(EntrySet) /\ Len(Tail(load.set)) = Len(load.set) - 1
        /\ \A i \in 1..Len(Tail(load.set)) : Tail(load.set)[i] = load.set[i + 1]
        /\ Len(load.set) \in Nat \ {0}
    BY <2>1, HeadTailProperties, EmptySeq, LenProperties
  <2> QED BY <2>1, <2>2
<1>4. /\ DOMAIN z = 1..Len(load.set) /\ z[1] = m.file
      /\ DOMAIN EntryFiles(Tail(load.set)) = 1..Len(load.set) - 1
      /\ \A i \in 1..Len(load.set) - 1 : EntryFiles(Tail(load.set))[i] = z[i + 1]
  BY <1>3 DEF EntryFiles
<1>5. EntryFiles(load.set)' = EntryFiles(Tail(load.set))
  BY <1>1 DEF EntryFiles
<1>6. module_inits \in Seq(DOMAIN modules) /\ load.mapped \in Seq(DOMAIN modules)
  BY DEF OrderInv, OrderTypeOK, LoaderInv, LoaderTypeOK
<1>7. CASE m.file \in Unmappable
  <2>1. UNCHANGED modules /\ load'.mapped = load.mapped
    BY <1>7 DEF map_next, LoaderInv, LoaderTypeOK, LoadFields
  <2>2. FilesOf(module_inits)' = x /\ FilesOf(load.mapped)' = y
    BY <1>1, <2>1 DEF FilesOf
  <2> HIDE DEF m, x, y, z, r
  <2>3. InLine(x, y, EntryFiles(Tail(load.set)), r)
    BY <1>2, <1>3, <1>4, DropsOut DEF InLine
  <2>4. InLine(FilesOf(module_inits), FilesOf(load.mapped), EntryFiles(load.set), load.file)'
    BY <1>1, <1>5, <2>2, <2>3, NeedsStay DEF InLine, Line, Ahead, Led, r
  <2>5. LinesInOrder' /\ WalkInOrder'
    BY <1>1, <2>4 DEF LinesInOrder, WalkInOrder
  <2>6. OrderTypeOK'
    BY <1>1, <1>3, <2>1 DEF OrderInv, OrderTypeOK, NeedsOK, EntrySet
  <2>7. StartsInOrder'
    BY <1>1, <2>1, StartsStay
  <2> QED BY <2>5, <2>6, <2>7 DEF OrderInv
<1>8. CASE m.file \notin Unmappable
  <2>1. modules' = Registered(m.lib, m.file) /\ load'.mapped = Append(load.mapped, next_id)
    BY <1>8 DEF map_next, LoaderInv, LoaderTypeOK, LoadFields
  <2>2. /\ DOMAIN modules' = DOMAIN modules \cup {next_id}
        /\ \A id \in DOMAIN modules : modules'[id] = modules[id]
        /\ modules'[next_id].file = m.file
    <3>1. next_id \notin DOMAIN modules
      BY DEF LoaderInv, LoaderTypeOK
    <3> QED BY <2>1, <3>1 DEF Registered
  <2>3. FilesOf(module_inits)' = x /\ module_inits \in Seq(DOMAIN modules')
    <3>1. \A ids \in Seq(DOMAIN modules) : FilesOf(ids)' = FilesOf(ids) /\ ids \in Seq(DOMAIN modules')
      BY <2>2, FilesStay
    <3> QED BY <1>1, <1>6, <3>1 DEF FilesOf
  <2>4. /\ DOMAIN y = 1..Len(load.mapped) /\ DOMAIN FilesOf(load.mapped)' = 1..Len(load.mapped) + 1
        /\ \A i \in 1..Len(load.mapped) : FilesOf(load.mapped)'[i] = y[i]
        /\ FilesOf(load.mapped)'[Len(load.mapped) + 1] = m.file
        /\ Len(load.mapped) \in Nat
    <3>1. /\ Len(load.mapped) \in Nat /\ DOMAIN load.mapped = 1..Len(load.mapped)
          /\ \A i \in 1..Len(load.mapped) : load.mapped[i] \in DOMAIN modules
      BY <1>6, LenProperties
    <3>2. /\ DOMAIN load'.mapped = 1..Len(load.mapped) + 1
          /\ \A i \in 1..Len(load.mapped) : load'.mapped[i] = load.mapped[i]
          /\ load'.mapped[Len(load.mapped) + 1] = next_id
      <4>1. load.mapped \in Seq(Int) /\ next_id \in Int
        BY <1>6, SeqMonotonic DEF LoaderInv, LoaderTypeOK
      <4> QED BY <2>1, <4>1, AppendProperties, LenProperties
    <3> QED BY <2>2, <3>1, <3>2 DEF FilesOf
  <2> DEFINE y2 == FilesOf(load.mapped)'
             z2 == EntryFiles(Tail(load.set))
  <2> HIDE DEF x, y, z, r, y2, z2
  <2>5. MovedUp(y, z, y2, z2)
    <3> DEFINE n == Len(load.mapped)
               k == Len(load.set)
    <3>1. n \in Nat /\ k \in Nat \ {0}
      BY <1>3, <2>4
    <3>2. /\ DOMAIN y = 1..n /\ DOMAIN y2 = 1..n + 1 /\ DOMAIN z = 1..k /\ DOMAIN z2 = 1..k - 1
          /\ \A i \in 1..n : y2[i] = y[i]
          /\ y2[n + 1] = z[1]
          /\ \A i \in 1..k - 1 : z2[i] = z[i + 1]
      BY <1>4, <2>4 DEF y2, z2
    <3> HIDE DEF n, k
    <3>3. HeadMoved(y, n, z, k, y2, z2)
      BY <3>2, Zenon DEF HeadMoved
    <3> QED BY <3>1, <3>3, Zenon DEF MovedUp
  <2>6. InLine(x, y2, z2, r)
    BY <1>2, <2>5, MovesUp DEF InLine
  <2>7. InLine(FilesOf(module_inits), FilesOf(load.mapped), EntryFiles(load.set), load.file)'
    BY <1>1, <1>5, <2>3, <2>6, NeedsStay DEF InLine, Line, Ahead, Led, r, y2, z2
  <2>8. LinesInOrder' /\ WalkInOrder'
    BY <1>1, <2>7 DEF LinesInOrder, WalkInOrder
  <2>9. OrderTypeOK'
    BY <1>1, <1>3, <2>2, <2>3, StartsStay DEF OrderInv, OrderTypeOK, NeedsOK, EntrySet
  <2>10. StartsInOrder'
    BY <1>1, <2>2, StartsStay
  <2> QED BY <2>8, <2>9, <2>10 DEF OrderInv
<1> QED BY <1>7, <1>8

\* A relocated module enters its module_start: from the second line to the first.
LEMMA relocate_next_Order ==
    ASSUME LoaderInv, OrderInv, relocate_next
    PROVE  OrderInv'
<1> DEFINE id == Head(load.mapped)
           x == FilesOf(module_inits)
           y == FilesOf(load.mapped)
           z == EntryFiles(load.set)
           r == load.file
           x2 == FilesOf(module_inits)'
           y2 == FilesOf(load.mapped)'
<1>1. /\ load.phase = "relocate" /\ load.mapped # <<>> /\ UNCHANGED <<needs, modules, to_start>>
      /\ module_inits' = Append(module_inits, id)
      /\ load'.phase = "relocate" /\ load'.file = load.file /\ load'.set = load.set
      /\ load'.mapped = Tail(load.mapped)
  BY DEF relocate_next, LoaderInv, LoaderTypeOK, LoadFields
<1>2. InLine(x, y, z, r)
  BY <1>1 DEF OrderInv, LinesInOrder
<1>3. module_inits \in Seq(DOMAIN modules) /\ load.mapped \in Seq(DOMAIN modules)
  BY DEF OrderInv, OrderTypeOK, LoaderInv, LoaderTypeOK
<1>4. /\ id \in DOMAIN modules /\ id = load.mapped[1]
      /\ Len(load.mapped) \in Nat \ {0} /\ DOMAIN load.mapped = 1..Len(load.mapped)
      /\ DOMAIN Tail(load.mapped) = 1..Len(load.mapped) - 1
      /\ \A i \in 1..Len(load.mapped) - 1 : Tail(load.mapped)[i] = load.mapped[i + 1]
  <2>1. /\ id \in DOMAIN modules /\ Tail(load.mapped) \in Seq(DOMAIN modules)
        /\ Len(Tail(load.mapped)) = Len(load.mapped) - 1
        /\ \A i \in 1..Len(Tail(load.mapped)) : Tail(load.mapped)[i] = load.mapped[i + 1]
        /\ Len(load.mapped) \in Nat \ {0}
    BY <1>1, <1>3, HeadTailProperties, EmptySeq, LenProperties
  <2> QED BY <1>3, <2>1
<1>5. /\ Len(module_inits) \in Nat /\ DOMAIN module_inits = 1..Len(module_inits)
      /\ module_inits' \in Seq(DOMAIN modules)
      /\ DOMAIN module_inits' = 1..Len(module_inits) + 1
      /\ \A i \in 1..Len(module_inits) : module_inits'[i] = module_inits[i]
      /\ module_inits'[Len(module_inits) + 1] = id
  BY <1>1, <1>3, <1>4, AppendProperties, LenProperties
<1>6. MovedUp(x, y, x2, y2)
  <2>1. /\ DOMAIN x = 1..Len(module_inits) /\ DOMAIN x2 = 1..Len(module_inits) + 1
        /\ \A i \in 1..Len(module_inits) : x2[i] = x[i]
        /\ x2[Len(module_inits) + 1] = modules[id].file
    BY <1>1, <1>5 DEF FilesOf
  <2>2. /\ DOMAIN y = 1..Len(load.mapped) /\ DOMAIN y2 = 1..Len(load.mapped) - 1
        /\ \A i \in 1..Len(load.mapped) - 1 : y2[i] = y[i + 1]
        /\ y[1] = modules[id].file
    BY <1>1, <1>4 DEF FilesOf
  <2> HIDE DEF x, y, x2, y2, id
  <2> DEFINE n == Len(module_inits)
             k == Len(load.mapped)
  <2>3. n \in Nat /\ k \in Nat \ {0} /\ x2[n + 1] = y[1]
    BY <1>4, <1>5, <2>1, <2>2
  <2>4. HeadMoved(x, n, y, k, x2, y2)
    <3> HIDE DEF n, k
    <3> QED BY <2>1, <2>2, <2>3, Zenon DEF HeadMoved, n, k
  <2> HIDE DEF n, k
  <2> QED BY <2>3, <2>4, Zenon DEF MovedUp
<1>7. EntryFiles(load.set)' = z
  BY <1>1 DEF EntryFiles
<1> HIDE DEF x, y, z, r, x2, y2
<1>8. InLine(x2, y2, z, r)
  BY <1>2, <1>6, MovesUp DEF InLine
<1>9. InLine(FilesOf(module_inits), FilesOf(load.mapped), EntryFiles(load.set), load.file)'
  BY <1>1, <1>7, <1>8, NeedsStay DEF InLine, Line, Ahead, Led, r, x2, y2
<1>10. LinesInOrder' /\ WalkInOrder'
  BY <1>1, <1>9 DEF LinesInOrder, WalkInOrder
<1>11. OrderTypeOK'
  BY <1>1, <1>5 DEF OrderInv, OrderTypeOK, NeedsOK, EntrySet
<1>12. StartsInOrder'
  BY <1>1, StartsStay
<1> QED BY <1>10, <1>11, <1>12 DEF OrderInv

\* The load ends: its thread is left the first line, and at run time the
\* target behind it, which leads to every file of the line.
LEMMA target_relocate_Order ==
    ASSUME LoaderInv, OrderInv, target_relocate
    PROVE  OrderInv'
<1>1. /\ load.phase = "target" /\ load' = NoLoad /\ module_inits' = <<>>
      /\ UNCHANGED <<needs, modules>>
      /\ to_start' = [to_start EXCEPT ![load.by] = Starts]
  BY DEF target_relocate
<1>2. InLine(FilesOf(module_inits), FilesOf(load.mapped), EntryFiles(load.set), load.file)
  BY <1>1 DEF OrderInv, LinesInOrder
<1>3. /\ module_inits \in Seq(DOMAIN modules)
      /\ next_id - 1 \in DOMAIN modules /\ modules[next_id - 1].file = load.file
  BY <1>1 DEF OrderInv, OrderTypeOK, LoaderInv, RelocatedBefore
<1>4. Starts \in Seq(DOMAIN modules) /\ Line(FilesOf(Starts))
  <2>1. CASE Boot
    BY <1>2, <1>3, <2>1 DEF Starts, InLine
  <2>2. CASE ~Boot
    <3> DEFINE n == Len(module_inits)
               s == module_inits \o <<next_id - 1>>
    <3>1. n \in Nat /\ DOMAIN module_inits = 1..n
      BY <1>3, LenProperties
    <3>2. /\ s \in Seq(DOMAIN modules) /\ DOMAIN s = 1..n + 1 /\ s[n + 1] = next_id - 1
          /\ \A i \in 1..n : s[i] = module_inits[i]
      BY <1>3, <3>1
    <3>3. Starts = s
      BY <2>2 DEF Starts
    <3>4. /\ DOMAIN FilesOf(s) = 1..n + 1 /\ FilesOf(s)[n + 1] = load.file
          /\ DOMAIN FilesOf(module_inits) = 1..n
          /\ \A i \in 1..n : FilesOf(s)[i] = FilesOf(module_inits)[i]
      BY <1>3, <3>1, <3>2 DEF FilesOf
    <3> HIDE DEF s, n
    <3>5. ASSUME NEW i \in 1..n + 1, NEW j \in 1..n + 1, i < j
          PROVE  Before(FilesOf(s)[i], FilesOf(s)[j])
      <4>1. i \in 1..n
        BY <3>1, <3>5
      <4>2. CASE j \in 1..n
        BY <1>2, <3>4, <3>5, <4>1, <4>2 DEF InLine, Line
      <4>3. CASE j = n + 1
        BY <1>2, <3>4, <4>1, <4>3 DEF InLine, Led, Before
      <4> QED BY <3>1, <4>2, <4>3
    <3> QED BY <3>2, <3>3, <3>4, <3>5 DEF Line
  <2> QED BY <2>1, <2>2
<1>5. ASSUME NEW t \in LoadThreads
      PROVE  to_start'[t] \in Seq(DOMAIN modules) /\ Line(FilesOf(to_start'[t]))
  <2>1. to_start'[t] = to_start[t] \/ to_start'[t] = Starts
    BY <1>1 DEF OrderInv, OrderTypeOK
  <2> HIDE DEF Starts
  <2> QED BY <1>4, <2>1 DEF OrderInv, OrderTypeOK, StartsInOrder
<1>6. StartsInOrder'
  <2> SUFFICES ASSUME NEW u \in LoadThreads PROVE Line(FilesOf(to_start[u]))'
    BY DEF StartsInOrder
  <2>1. FilesOf(to_start[u])' = FilesOf(to_start'[u])
    BY <1>1 DEF FilesOf
  <2>2. Line(FilesOf(to_start'[u]))
    BY <1>5
  <2> QED BY <1>1, <2>1, <2>2, NeedsStay DEF Line
<1>7. to_start' \in [LoadThreads -> Seq(DOMAIN modules)]
  BY <1>1, <1>5 DEF OrderInv, OrderTypeOK
<1>8. load'.phase = "none" /\ load'.set = <<>> /\ load'.mapped = <<>>
  BY <1>1 DEF NoLoad
<1>9. OrderTypeOK'
  BY <1>1, <1>7, <1>8 DEF OrderInv, OrderTypeOK, NeedsOK
<1>10. WalkInOrder' /\ LinesInOrder'
  BY <1>1, <1>8 DEF WalkInOrder, LinesInOrder, InLine, Line, Ahead, Led, FilesOf, EntryFiles
<1> QED BY <1>6, <1>9, <1>10 DEF OrderInv

LEMMA target_fails_Order ==
    ASSUME LoaderInv, OrderInv, target_fails
    PROVE  OrderInv'
<1>1. /\ module_inits' = <<>> /\ UNCHANGED <<needs, modules, to_start>>
      /\ (load' = NoLoad \/ load' = [NoLoad EXCEPT !.phase = "dead"])
  BY DEF target_fails
<1>2. load'.phase \in {"none", "dead"} /\ load'.set = <<>> /\ load'.mapped = <<>>
  <2>1. CASE load' = NoLoad
    BY <2>1 DEF NoLoad
  <2>2. CASE load' = [NoLoad EXCEPT !.phase = "dead"]
    BY <2>2 DEF NoLoad
  <2> QED BY <1>1, <2>1, <2>2
<1>3. OrderTypeOK'
  BY <1>1, <1>2 DEF OrderInv, OrderTypeOK, NeedsOK
<1>4. WalkInOrder' /\ LinesInOrder'
  BY <1>1, <1>2 DEF WalkInOrder, LinesInOrder, InLine, Line, Ahead, Led, FilesOf, EntryFiles
<1>5. StartsInOrder'
  BY <1>1, StartsStay
<1> QED BY <1>3, <1>4, <1>5 DEF OrderInv

\* A call begins a walk.
LEMMA load_start_module_Order ==
    ASSUME NamesTell, LoaderInv, OrderInv, NEW t \in LoadThreads, NEW p \in DOMAIN StemOf, load_start_module(t, p)
    PROVE  OrderInv'
<1> DEFINE r == HostOf[p]
           name == StemOf[p]
<1>1. /\ UNCHANGED <<needs, modules, loaded_module_paths, module_inits, to_start>>
      /\ load.phase = "none" /\ HostOf[p] # NoFile
      /\ load' = [NoLoad EXCEPT !.phase = "walk", !.by = t, !.path = p, !.name = StemOf[p], !.file = HostOf[p],
                                !.stack = <<Frame(StemOf[p], HostOf[p])>>, !.loaded = {StemOf[p]}]
  BY DEF load_start_module, CanCall
<1>2. /\ load'.phase = "walk" /\ load'.set = <<>> /\ load'.mapped = <<>> /\ load'.file = r
      /\ load'.stack = <<Frame(name, r)>> /\ Seen' = {name}
  BY <1>1 DEF NoLoad, Seen
<1>3. r \in Files
  BY <1>1, LoaderAssumption
<1>4. WalkOK(<<Frame(name, r)>>, <<>>, {name}, r)
  <2>1. NeedsOK /\ name \in {"eboot.bin"} \cup {StemOf[q] : q \in DOMAIN StemOf}
    BY DEF OrderInv, OrderTypeOK
  <2>2. \A x \in {name} : (x \in DOMAIN FileOf => FileOf[x] \in {r, NoFile}) /\ (x \in Files => x = r)
    BY DEF NamesTell
  <2> HIDE DEF name, r
  <2> QED BY <1>3, <2>1, <2>2, WalkBegins
<1>5. WalkOK(load.stack, load.set, Seen, load.file)'
  <2>1. WalkOK(load'.stack, load'.set, Seen', load'.file)
    BY <1>2, <1>4
  <2>2. \A st, se, sn, f : WalkOK(st, se, sn, f) => WalkOK(st, se, sn, f)'
    BY <1>1, WalkCarries
  <2> QED BY <2>1, <2>2
<1>6. module_inits' = <<>>
  BY <1>1 DEF OrderInv, OrderTypeOK
<1>7. WalkInOrder' /\ LinesInOrder'
  BY <1>2, <1>5, <1>6 DEF WalkInOrder, LinesInOrder
<1>8. OrderTypeOK'
  <2>1. <<>> \in Seq(EntrySet) /\ <<>> \in Seq(DOMAIN modules)
    OBVIOUS
  <2>2. load'.phase # "none" /\ load'.file \in Files
    BY <1>2, <1>3
  <2> QED BY <1>1, <1>2, <1>6, <2>1, <2>2 DEF OrderInv, OrderTypeOK, NeedsOK, EntrySet
<1>9. StartsInOrder'
  BY <1>1, StartsStay
<1> QED BY <1>7, <1>8, <1>9 DEF OrderInv

\* A thread runs the first of its line.
LEMMA run_module_start_Order ==
    ASSUME LoaderInv, OrderInv, NEW t \in LoadThreads, run_module_start(t)
    PROVE  OrderInv'
<1>1. /\ UNCHANGED <<needs, modules, loaded_module_paths, module_inits, load>>
      /\ to_start[t] # <<>> /\ to_start' = [to_start EXCEPT ![t] = Tail(@)]
  BY DEF run_module_start
<1>2. /\ to_start[t] \in Seq(DOMAIN modules) /\ Tail(to_start[t]) \in Seq(DOMAIN modules)
      /\ Len(to_start[t]) \in Nat \ {0} /\ DOMAIN to_start[t] = 1..Len(to_start[t])
      /\ DOMAIN Tail(to_start[t]) = 1..Len(to_start[t]) - 1
      /\ \A i \in 1..Len(to_start[t]) - 1 : Tail(to_start[t])[i] = to_start[t][i + 1]
  <2>1. to_start[t] \in Seq(DOMAIN modules)
    BY DEF OrderInv, OrderTypeOK
  <2>2. /\ Tail(to_start[t]) \in Seq(DOMAIN modules)
        /\ Len(Tail(to_start[t])) = Len(to_start[t]) - 1
        /\ \A i \in 1..Len(Tail(to_start[t])) : Tail(to_start[t])[i] = to_start[t][i + 1]
        /\ Len(to_start[t]) \in Nat \ {0}
    BY <1>1, <2>1, HeadTailProperties, EmptySeq, LenProperties
  <2> QED BY <2>1, <2>2
<1>3. Line(FilesOf(Tail(to_start[t])))
  <2>1. /\ DOMAIN FilesOf(Tail(to_start[t])) = 1..Len(to_start[t]) - 1
        /\ \A i \in 1..Len(to_start[t]) - 1 :
             /\ i + 1 \in DOMAIN FilesOf(to_start[t])
             /\ FilesOf(Tail(to_start[t]))[i] = FilesOf(to_start[t])[i + 1]
    BY <1>2 DEF FilesOf
  <2>2. Line(FilesOf(to_start[t]))
    BY DEF OrderInv, StartsInOrder
  <2> SUFFICES ASSUME NEW i \in 1..Len(to_start[t]) - 1, NEW j \in 1..Len(to_start[t]) - 1, i < j
               PROVE  Before(FilesOf(Tail(to_start[t]))[i], FilesOf(Tail(to_start[t]))[j])
    BY <2>1 DEF Line
  <2>3. i + 1 < j + 1
    BY <1>2
  <2> QED BY <2>1, <2>2, <2>3 DEF Line
<1>4. ASSUME NEW u \in LoadThreads
      PROVE  to_start'[u] \in Seq(DOMAIN modules) /\ Line(FilesOf(to_start'[u]))
  <2>1. to_start'[u] = to_start[u] \/ to_start'[u] = Tail(to_start[t])
    BY <1>1 DEF OrderInv, OrderTypeOK
  <2> QED BY <1>2, <1>3, <2>1 DEF OrderInv, OrderTypeOK, StartsInOrder
<1>5. StartsInOrder'
  <2> SUFFICES ASSUME NEW u \in LoadThreads PROVE Line(FilesOf(to_start[u]))'
    BY DEF StartsInOrder
  <2>1. FilesOf(to_start[u])' = FilesOf(to_start'[u])
    BY <1>1 DEF FilesOf
  <2>2. Line(FilesOf(to_start'[u]))
    BY <1>4
  <2> QED BY <1>1, <2>1, <2>2, NeedsStay DEF Line
<1>6. OrderTypeOK'
  BY <1>1, <1>4 DEF OrderInv, OrderTypeOK, NeedsOK, EntrySet
<1>7. LinesInOrder'
  BY <1>1, NeedsStay DEF OrderInv, LinesInOrder, InLine, Line, Ahead, Led, FilesOf, EntryFiles
<1>8. WalkInOrder'
  <2>1. \A st, se, sn, r : WalkOK(st, se, sn, r) => WalkOK(st, se, sn, r)'
    BY <1>1, WalkCarries
  <2> QED BY <1>1, <2>1 DEF OrderInv, WalkInOrder, Seen
<1> QED BY <1>5, <1>6, <1>7, <1>8 DEF OrderInv

\* Nothing the order depends on changes.
LEMMA Stutter_Order ==
    ASSUME OrderInv, UNCHANGED <<needs, modules, loaded_module_paths, module_inits, load, to_start>>
    PROVE  OrderInv'
<1>1. OrderTypeOK'
  BY DEF OrderInv, OrderTypeOK, NeedsOK, EntrySet
<1>2. LinesInOrder' /\ StartsInOrder'
  BY NeedsStay DEF OrderInv, LinesInOrder, StartsInOrder, InLine, Line, Ahead, Led, FilesOf, EntryFiles
<1>3. WalkInOrder'
  <2>1. \A st, se, sn, r : WalkOK(st, se, sn, r) => WalkOK(st, se, sn, r)'
    BY WalkCarries
  <2> QED BY <2>1 DEF OrderInv, WalkInOrder, Seen
<1> QED BY <1>1, <1>2, <1>3 DEF OrderInv

\* The module_starts a load leaves run leaves first, for any graph of needs,
\* cycles and diamonds, files that do not parse or fit and any number of loads,
\* where the title's names and paths agree (process.rs:collect_module_graph,
\* load_start_module).
THEOREM LeavesStartFirst ==
    ASSUME NamesTell
    PROVE  LoaderSpec => []DepsStartFirst
<1>1. LoaderInit => OrderInv
  <2> SUFFICES ASSUME LoaderInit PROVE OrderInv
    OBVIOUS
  <2>1. /\ load = load_executable /\ module_inits = <<>> /\ needs \in NeedsGraphs
        /\ to_start = [t \in LoadThreads |-> <<>>]
    BY DEF LoaderInit
  <2>2. NeedsOK
    BY <2>1, LoaderAssumption DEF NeedsOK
  <2>3. /\ load.phase = "walk" /\ load.set = <<>> /\ load.mapped = <<>> /\ load.file = Eboot
        /\ load.stack = <<Frame("eboot.bin", Eboot)>> /\ Seen = {}
    BY <2>1 DEF load_executable, NoLoad, Seen
  <2>4. WalkOK(<<Frame("eboot.bin", Eboot)>>, <<>>, {}, Eboot)
    BY <2>2, WalkBegins, LoaderAssumption
  <2>5. OrderTypeOK
    BY <2>1, <2>2, <2>3, LoaderAssumption DEF OrderTypeOK
  <2>6. StartsInOrder
    BY <2>1 DEF StartsInOrder, Line, FilesOf
  <2> QED BY <2>1, <2>3, <2>4, <2>5, <2>6 DEF OrderInv, WalkInOrder, LinesInOrder
<1>2. LoaderInv /\ OrderInv /\ [LoaderNext]_loaderVars => OrderInv'
  <2> SUFFICES ASSUME LoaderInv, OrderInv, [LoaderNext]_loaderVars PROVE OrderInv'
    OBVIOUS
  <2>1. CASE UNCHANGED loaderVars
    BY <2>1, Stutter_Order DEF loaderVars
  <2>2. CASE \E t \in LoadThreads : \E p \in DOMAIN StemOf : load_start_cached(t, p)
    BY <2>2, Stutter_Order DEF load_start_cached
  <2>3. CASE \E t \in LoadThreads : \E p \in DOMAIN StemOf : load_start_module(t, p)
    BY <2>3, load_start_module_Order
  <2>4. CASE \E t \in LoadThreads : run_module_start(t)
    BY <2>4, run_module_start_Order
  <2> QED BY <2>1, <2>2, <2>3, <2>4, Walking_Order, walk_end_Order, map_next_Order, map_end_Order,
             relocate_next_Order, target_map_Order, target_relocate_Order, target_fails_Order
          DEF LoaderNext
<1>3. OrderInv => DepsStartFirst
  <2> SUFFICES ASSUME OrderInv, NEW t \in LoadThreads, NEW i \in DOMAIN to_start[t], NEW j \in DOMAIN to_start[t],
                      i < j, modules[to_start[t][j]].file \in Direct(modules[to_start[t][i]].file)
               PROVE  modules[to_start[t][i]].file \in LeadsTo(modules[to_start[t][j]].file)
    BY DEF DepsStartFirst
  <2> QED BY DEF OrderInv, StartsInOrder, Line, FilesOf, Before
<1> QED BY <1>1, <1>2, <1>3, LoaderInvariance, PTL DEF LoaderSpec
=============================================================================
