------------------------------ MODULE Handles ------------------------------
(***************************************************************************)
(* The table of opaque object handles in crates/core/src/kernel.rs, used   *)
(* for pads, mice, event queues and audio objects.  A handle is a number:  *)
(* its kind's tag in the high bits, an id that is never used again in the  *)
(* low ones.  The guest may hand back any number at all.                   *)
(***************************************************************************)
EXTENDS Integers

CONSTANTS Tags,       \* the tags of HandleKind (1..7)
          Span,       \* 1 << HANDLE_TAG_SHIFT (2^24)
          Junk        \* numbers outside the tags the guest may pass

ASSUME SpanAssumption == Span \in Nat \ {0}
ASSUME TagsAssumption == Tags \subseteq Nat \ {0}
ASSUME JunkAssumption == Junk \subseteq Int

HANDLE_ID_MASK == Span - 1
NoKind == 0

\* Mutated form: the last id of a kind reads as the next kind.
handle_kind_rounds(h) ==
    IF h > 0 /\ (h + 1) \div Span \in Tags THEN (h + 1) \div Span ELSE NoKind

\* The tag bits; None for a number that is not positive or has no such tag.
handle_kind(h) ==
    IF h > 0 /\ h \div Span \in Tags THEN h \div Span ELSE NoKind

\* What a guest may pass.
Numbers == {t * Span + i : t \in Tags, i \in 0..Span} \cup Junk

VARIABLES next_id,   \* HandleTableState.next_id
          live,      \* HandleTableState.live
          issued     \* <<handle, kind>> ever handed out, in the callers' eyes

handleVars == <<next_id, live, issued>>

HandlesInit ==
    /\ next_id = [t \in Tags |-> 1]
    /\ live = {}
    /\ issued = {}

Alloc(kind, mask) ==
    /\ next_id[kind] <= mask
    /\ LET h == kind * Span + next_id[kind]
       IN  /\ live' = live \cup {h}
           /\ issued' = issued \cup {<<h, kind>>}
    /\ next_id' = [next_id EXCEPT ![kind] = @ + 1]

\* An exhausted kind gives no handle.
handle_alloc(kind) == Alloc(kind, HANDLE_ID_MASK)

\* Mutated form: the last id freed is handed out again.
handle_free_reuses(h, kind) ==
    /\ kind # NoKind => handle_kind(h) = kind
    /\ h \in live /\ live' = live \ {h}
    /\ next_id' = [t \in Tags |-> IF h = t * Span + next_id[t] - 1 THEN next_id[t] - 1
                                                                  ELSE next_id[t]]
    /\ UNCHANGED issued

\* A handle of another kind, and one that is not live, are left alone.
handle_free(h, kind) ==
    /\ kind # NoKind => handle_kind(h) = kind
    /\ live' = live \ {h}
    /\ UNCHANGED <<next_id, issued>>

\* What a read or submit handler asks of the handle it is given.
handle_resolve(h, kind) == (kind # NoKind => handle_kind(h) = kind) /\ h \in live

HandlesNext ==
    \/ \E k \in Tags : handle_alloc(k)
    \/ \E h \in Numbers, k \in Tags \cup {NoKind} : handle_free(h, k)

HandlesSpec == HandlesInit /\ [][HandlesNext]_handleVars

----------------------------------------------------------------------------
(* Properties *)

\* Every variable keeps to its type.
HandlesTypeOK ==
    /\ next_id \in [Tags -> 1..Span]
    /\ live \subseteq Numbers
    /\ issued \subseteq Numbers \X Tags

\* A number means one object for ever: handed out once, by one kind, and the
\* tag in it tells which, up to the last id of the kind.
TagTellsKind ==
    \A p \in issued : handle_kind(p[1]) = p[2]

\* A handle that resolves was handed out for the kind it resolves as.
ResolvedWasIssued ==
    \A h \in live, k \in Tags : handle_resolve(h, k) => <<h, k>> \in issued

\* A freed handle never becomes live again: a stale handle kept by the guest
\* can never come to mean an object made later.
FreedStaysDead ==
    [][\A p \in issued : p[1] \notin live => p[1] \notin live']_handleVars
=============================================================================
