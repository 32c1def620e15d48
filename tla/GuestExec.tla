------------------------------ MODULE GuestExec ------------------------------
(***************************************************************************)
(* How a host thread runs guest code: run_guest_call and call_guest of     *)
(* crates/cpu/src/exec.rs, the drive loop both of them enter, the sequence *)
(* of calls a guest thread makes in its life (crates/kernel/src/thread.rs) *)
(* and the two handlers that call back into the guest, scePthreadOnce and  *)
(* sceKernelLoadStartModule.                                               *)
(*                                                                         *)
(* A nested call has no stack of its own: it is carved out of the caller's *)
(* below the guest's stack pointer of the last syscall, past the red zone. *)
(* A thread's stack is a row of cells numbered upwards; each level of the  *)
(* drive loop keeps the set of cells it has written and still counts on.   *)
(* Registers, profiling, tracing and the text of fault reports are left    *)
(* out.                                                                    *)
(***************************************************************************)
EXTENDS Integers, Sequences, FiniteSets

CONSTANTS
    GuestThreads,   \* host threads that run guest code
    Lives,          \* Lives[t]: the guest calls thread t makes, in order
    StackCells,     \* cells of a guest stack
    RedZone,        \* cells below the stack pointer the guest may use
    Alignment,      \* of the stack pointer at a call
    ModuleStarts,   \* how many module_starts one sceKernelLoadStartModule runs
    SyscallBudget,  \* SyscallBudget[t]: syscalls a thread makes in one call (a bound for TLC)
    MaxLevels       \* nested drive loops (a bound for TLC)

ASSUME GuestExecAssumption ==
    /\ RedZone \in Nat /\ Alignment \in Nat \ {0} /\ StackCells \in Nat
    /\ ModuleStarts \in Nat /\ SyscallBudget \in [GuestThreads -> Nat] /\ MaxLevels \in Nat

VARIABLES
    calls,      \* calls[t]: the guest calls thread t still has to make
    levels,     \* levels[t]: its drive loops, the innermost last
    ctx,        \* ctx[t]: EXEC_CTX, cur_rsp and exit_requested
    once,       \* the guest's once control: 0, 1 (running) or 2 (done)
    spent,      \* spent[t]: syscalls of the current call
    asked,      \* asked[t]: the level that asked for the thread's exit in
                \* this call, 0 for none
    result      \* result[t]: what the thread's main call came to

execCtxVars == <<calls, levels, ctx, once, spent, asked, result>>

None == "none"
NoCtx == [cur_rsp |-> 0, exit_requested |-> FALSE]
AlignDown(a) == a - (a % Alignment)

\* Where a guest thread's calls start: below the top, past one red zone.
StartRsp == AlignDown(AlignDown(StackCells + 1) - 1 - RedZone)

Depth(t) == Len(levels[t])
Top(t) == levels[t][Depth(t)]
\* The innermost level of t is in guest code, or in the handler h.
InGuest(t) == Depth(t) > 0 /\ Top(t).at = "guest"
InHandler(t, h) == Depth(t) > 0 /\ Top(t).at = h

WithTop(t, lv) == [levels EXCEPT ![t][Depth(t)] = lv]
ResumeTop(t) == WithTop(t, [Top(t) EXCEPT !.at = "guest"])

\* A level of the drive loop: its return address is the gadget, pushed first.
Level(rsp) == [rsp |-> rsp - 1, base |-> rsp - 1, own |-> {rsp - 1}, at |-> "guest", left |-> 0]

(***************************************************************************)
(* drive: push the gadget's address below rsp and run on a fresh vcpu.     *)
(***************************************************************************)
Drive(t, rsp) ==
    /\ rsp > 1
    /\ levels' = [levels EXCEPT ![t] = Append(@, Level(rsp))]

\* A nested call that forgets the red zone.
NestedRspNoGap(t) == AlignDown(ctx[t].cur_rsp)

\* The stack pointer of a nested call: below the guest's, past the red zone.
NestedRsp(t) == AlignDown(ctx[t].cur_rsp - RedZone)

(***************************************************************************)
(* A guest thread's life: its module inits (the main thread's), its entry  *)
(* point, its destructors, each a run_guest_call of its own with a fresh   *)
(* context.                                                                *)
(***************************************************************************)
run_guest_call(t) ==
    /\ levels[t] = <<>> /\ calls[t] # <<>>
    /\ ctx' = [ctx EXCEPT ![t] = [cur_rsp |-> StartRsp, exit_requested |-> FALSE]]
    /\ spent' = [spent EXCEPT ![t] = 0]
    /\ asked' = [asked EXCEPT ![t] = 0]
    /\ Drive(t, StartRsp)
    /\ UNCHANGED <<calls, once, result>>

\* The outermost drive loop ends: the outer context (none) is restored, and
\* the main call's outcome is the thread's.
Finished(t, how) ==
    /\ calls' = [calls EXCEPT ![t] = Tail(@)]
    /\ levels' = [levels EXCEPT ![t] = <<>>]
    /\ ctx' = [ctx EXCEPT ![t] = NoCtx]
    /\ result' = IF Head(calls[t]) = "entry" THEN [result EXCEPT ![t] = how] ELSE result

(***************************************************************************)
(* Guest code: push, pop, write in the red zone.                           *)
(***************************************************************************)
GuestWrites(t, a, rsp) ==
    /\ levels' = WithTop(t, [Top(t) EXCEPT !.rsp = rsp, !.own = @ \cup {a}])
    /\ UNCHANGED <<calls, ctx, once, spent, asked, result>>

guest_push(t) ==
    /\ InGuest(t) /\ Top(t).rsp > 1 + RedZone
    /\ GuestWrites(t, Top(t).rsp - 1, Top(t).rsp - 1)

guest_red_zone(t) ==
    /\ InGuest(t) /\ Top(t).rsp > RedZone /\ RedZone > 0
    /\ GuestWrites(t, Top(t).rsp - RedZone, Top(t).rsp)

guest_pop(t) ==
    /\ InGuest(t) /\ Top(t).rsp < Top(t).base
    /\ levels' = WithTop(t, [Top(t) EXCEPT !.rsp = @ + 1, !.own = {a \in @ : a > Top(t).rsp}])
    /\ UNCHANGED <<calls, ctx, once, spent, asked, result>>

(***************************************************************************)
(* The syscall exit: the loop notes the guest's stack pointer and calls    *)
(* the handler.  When the handler is done the request to exit, if there is *)
(* one, is taken and this loop ends; otherwise the guest goes on.          *)
(***************************************************************************)
Syscall(t, h) ==
    /\ InGuest(t) /\ spent[t] < SyscallBudget[t]
    /\ spent' = [spent EXCEPT ![t] = @ + 1]
    /\ ctx' = [ctx EXCEPT ![t].cur_rsp = Top(t).rsp]
    /\ levels' = WithTop(t, [Top(t) EXCEPT !.at = h, !.left = IF h = "modules" THEN ModuleStarts ELSE 0])
    /\ UNCHANGED <<calls, once, result>>

syscall(t) ==
    /\ \E h \in {"return", "once", "modules"} : Syscall(t, h)
    /\ UNCHANGED asked

\* pthread_exit: request_thread_exit, and back to the loop.
syscall_exit(t) ==
    /\ Syscall(t, "exit")
    /\ UNCHANGED asked

request_thread_exit(t) ==
    /\ InHandler(t, "exit")
    /\ ctx' = [ctx EXCEPT ![t].exit_requested = TRUE]
    /\ asked' = [asked EXCEPT ![t] = IF @ = 0 THEN Depth(t) ELSE @]
    /\ levels' = WithTop(t, [Top(t) EXCEPT !.at = "return"])
    /\ UNCHANGED <<calls, once, spent, result>>

\* The handler returned and nobody asked for an exit.
handler_return(t) ==
    /\ InHandler(t, "return") /\ ~ctx[t].exit_requested
    /\ levels' = ResumeTop(t)
    /\ UNCHANGED <<calls, ctx, once, spent, asked, result>>

(***************************************************************************)
(* A nested loop ends.  call_guest gives its caller, the handler one level *)
(* up, the result; an exit request it took is made again.                  *)
(***************************************************************************)
NestedReturn(t) ==
    /\ Depth(t) > 1
    /\ levels' = [levels EXCEPT ![t] = SubSeq(@, 1, Depth(t) - 1)]
    /\ UNCHANGED <<calls, result>>

\* The request, taken by the inner loop, is not made again.
RearmForgotten(t) == ctx' = [ctx EXCEPT ![t].exit_requested = FALSE]

\* call_guest on GuestExit::ThreadExit.
Rearm(t) == ctx' = [ctx EXCEPT ![t].exit_requested = TRUE]

drive_thread_exit(t) ==
    /\ InHandler(t, "return") /\ ctx[t].exit_requested
    /\ \/ NestedReturn(t) /\ Rearm(t)
       \/ Depth(t) = 1 /\ Finished(t, "exit")
    /\ UNCHANGED <<once, spent, asked>>

\* ret to the gadget, whose HLT ends the loop.
drive_returned(t) ==
    /\ InGuest(t) /\ Top(t).rsp = Top(t).base
    /\ \/ NestedReturn(t) /\ UNCHANGED ctx
       \/ Depth(t) = 1 /\ Finished(t, "returned")
    /\ UNCHANGED <<once, spent, asked>>

\* Any other exit of the vcpu: fatal to this level only.
drive_fatal(t) ==
    /\ InGuest(t)
    /\ \/ NestedReturn(t) /\ UNCHANGED ctx
       \/ Depth(t) = 1 /\ Finished(t, "fatal")
    /\ UNCHANGED <<once, spent, asked>>

(***************************************************************************)
(* scePthreadOnce: the first caller runs the routine as a nested call and  *)
(* publishes 2, whatever became of it; the others spin.                    *)
(***************************************************************************)
call_guest(t, h) ==
    /\ Depth(t) < MaxLevels
    /\ NestedRsp(t) > 1
    /\ LET waiting == [Top(t) EXCEPT !.at = h, !.left = IF @ > 0 THEN @ - 1 ELSE 0]
       IN levels' = [levels EXCEPT ![t] = Append([@ EXCEPT ![Depth(t)] = waiting], Level(NestedRsp(t)))]
    /\ UNCHANGED <<calls, ctx, spent, asked, result>>

once_first(t) ==
    /\ InHandler(t, "once") /\ once = 0
    /\ once' = 1
    /\ call_guest(t, "once_done")

once_publish(t) ==
    /\ InHandler(t, "once_done")
    /\ once' = 2
    /\ levels' = WithTop(t, [Top(t) EXCEPT !.at = "return"])
    /\ UNCHANGED <<calls, ctx, spent, asked, result>>

once_done(t) ==
    /\ InHandler(t, "once") /\ once = 2
    /\ levels' = WithTop(t, [Top(t) EXCEPT !.at = "return"])
    /\ UNCHANGED <<calls, ctx, once, spent, asked, result>>

(***************************************************************************)
(* sceKernelLoadStartModule: every module_start of the load, one nested    *)
(* call after the other.                                                   *)
(***************************************************************************)
module_start(t) ==
    /\ InHandler(t, "modules") /\ Top(t).left > 0
    /\ call_guest(t, "modules")
    /\ UNCHANGED <<once>>

modules_done(t) ==
    /\ InHandler(t, "modules") /\ Top(t).left = 0
    /\ levels' = WithTop(t, [Top(t) EXCEPT !.at = "return"])
    /\ UNCHANGED <<calls, ctx, once, spent, asked, result>>

ExecInit ==
    /\ calls = Lives
    /\ levels = [t \in GuestThreads |-> <<>>]
    /\ ctx = [t \in GuestThreads |-> NoCtx]
    /\ once = 0
    /\ spent = [t \in GuestThreads |-> 0]
    /\ asked = [t \in GuestThreads |-> 0]
    /\ result = [t \in GuestThreads |-> None]

GuestStep(t) == guest_push(t) \/ guest_red_zone(t) \/ guest_pop(t)

ExecNext ==
    \E t \in GuestThreads :
        \/ run_guest_call(t) \/ GuestStep(t)
        \/ syscall(t) \/ syscall_exit(t) \/ request_thread_exit(t) \/ handler_return(t)
        \/ drive_thread_exit(t) \/ drive_returned(t) \/ drive_fatal(t)
        \/ once_first(t) \/ once_publish(t) \/ once_done(t)
        \/ module_start(t) \/ modules_done(t)

ExecSpec == ExecInit /\ [][ExecNext]_execCtxVars

-----------------------------------------------------------------------------
(***************************************************************************)
(* Properties.                                                             *)
(***************************************************************************)

\* Whatever a nested call does, the guest code it interrupted finds its stack
\* and its red zone as it left them: no cell a level still counts on has been
\* written by another, through every nesting, return, fault and exit.
FramesSurvive ==
    \A t \in GuestThreads : \A j, k \in 1..Depth(t) :
        j # k => levels[t][j].own \cap levels[t][k].own = {}

\* Once a guest thread has asked to exit, the guest code of the level that
\* asked, and of every level it was called from, runs no more, however deeply
\* the request was made: the thread's call ends as an exit.
ExitUnwinds ==
    [][ \A t \in GuestThreads :
          asked[t] > 0 =>
            /\ \A k \in 1..asked[t] :
                 Depth(t) >= k /\ Len(levels'[t]) >= k /\ levels[t][k].at # "guest"
                   => levels'[t][k].at # "guest"
            /\ result'[t] # result[t] => result'[t] = "exit" ]_execCtxVars

=============================================================================
