------------------------------ MODULE Offline ------------------------------
(***************************************************************************)
(* The network, account, dialog, capture and media services of             *)
(* crates/libs/src (libscenp, libsceoffline, libscecapture,                *)
(* libsceavplayer, libsceuserservice and the PlayGo calls of               *)
(* libkernel/systemservice), which answer as a console that is signed out, *)
(* has no link and all of its title installed.  None of them contacts      *)
(* anything; what matters is what a title that uses them is led to do, and *)
(* above all whether the loops it runs over them end.                      *)
(*                                                                         *)
(* A title's session with a library is a sequence of calls: set up, create *)
(* an object, ask for something (a send, an open, a start), poll for its   *)
(* end, fetch what came of it, tear down.  A title may stop at a refusal   *)
(* or go on as if there had been none.  With PlayGo it may also enumerate  *)
(* the chunks of its install, and any thread may pump the user service.    *)
(* Titles pass pointers into their own memory: the answers to a bad one    *)
(* are left out, and so are the values written through a good one.         *)
(***************************************************************************)
EXTENDS Integers, FiniteSets, Sequences

CONSTANTS
    Titles,             \* threads of the title, one session each at a time
    EVENT_QUEUE_CAP,    \* events the user service holds
    PLAYGO_CHUNK_COUNT, \* chunks the title is said to have
    ID_SPAN,            \* chunk ids there are: the guest's counter wraps
    MaxBatch,           \* ids a title asks for in one call, at most
    SessionBound,       \* bound: sessions of a thread
    RoundBound          \* bound: rounds of a loop

ASSUME OfflineAssumption ==
    /\ EVENT_QUEUE_CAP \in Nat \ {0} /\ MaxBatch \in Nat
    /\ PLAYGO_CHUNK_COUNT \in Nat /\ ID_SPAN \in Nat /\ PLAYGO_CHUNK_COUNT < ID_SPAN
    /\ SessionBound \in Nat /\ RoundBound \in Nat /\ PLAYGO_CHUNK_COUNT < RoundBound

(***************************************************************************)
(* A library: what its calls of each phase may answer.  "zero", "id" (a    *)
(* positive id or handle), "refused" (negative) and "finished" (a status)  *)
(* settle the matter; "again" (in progress, more to read) would send it    *)
(* round once more.  {}: the library has no such call.                     *)
(***************************************************************************)
Service(init, create, ask, poll, fetch, close) ==
    [init |-> init, create |-> create, ask |-> ask, poll |-> poll, fetch |-> fetch, close |-> close]

\* libSceNpManager: callbacks and restrictions are taken, the identity is not given.
NpManager == Service({"zero"}, {"id"}, {"zero", "refused"}, {"zero"}, {"refused"}, {"zero"})
NpTss == Service({}, {"id"}, {"refused"}, {}, {}, {})
\* libSceNpWebApi: objects, filters and callbacks are local, the send refuses.
WebApi == Service({"id"}, {"id"}, {"refused"}, {}, {"refused"}, {"zero"})
\* libSceNpScore, NpTus, NpLookup and NpWordFilter: requests that are polled for.
NpPolled == Service({}, {"id"}, {"refused"}, {"refused"}, {}, {"zero"})
\* libSceNpAuth and NpSnsFacebook: requests that answer in the call.
NpRequest == Service({}, {"id"}, {"refused"}, {}, {}, {"zero"})
NpBandwidthTest == Service({}, {}, {"refused"}, {"refused"}, {}, {"zero"})
NpInGameMessage == Service({"zero"}, {"id"}, {"refused"}, {}, {}, {"zero"})
\* libSceNpMatching2 and VoiceQoS: contexts, callbacks and endpoints are local.
NpContext == Service({"zero"}, {"id"}, {"refused"}, {}, {"refused"}, {"zero"})
\* The system dialogs: Open refuses, UpdateStatus is FINISHED, GetResult refuses.
Dialog == Service({"zero"}, {}, {"refused"}, {"finished"}, {"refused"}, {"zero"})

\* libSceSsl and libSceNetCtl: GetState (DISCONNECTED) and CheckCallback are the
\* polls; GetInfo refuses, GetResult does not.
NetCtl == Service({"zero", "id"}, {"zero"}, {}, {"zero"}, {"zero", "refused"}, {"zero"})
\* libSceHttp: the send refuses; ReadData reads 0 bytes, GetLastErrno answers.
Http == Service({"id"}, {"zero", "id"}, {"refused"}, {}, {"zero", "refused"}, {"zero"})

ContentExport == Service({"zero"}, {}, {"refused"}, {}, {}, {"zero"})
VideoRecording == Service({"zero"}, {"refused"}, {"refused"}, {"refused"}, {}, {"zero"})
SharePlay == Service({"zero"}, {}, {"zero"}, {}, {}, {"zero"})
LiveStreaming == Service({"zero"}, {}, {"zero"}, {"refused"}, {"refused"}, {"zero"})
Remoteplay == Service({"zero"}, {}, {}, {"refused"}, {}, {"zero"})
\* libSceAvPlayer: no source can be added, IsActive is 0, no frame comes.
AvPlayer == Service({"id"}, {"zero"}, {"zero", "refused"}, {"zero"}, {"zero", "refused"}, {"zero"})

\* libScePlayGo: all is installed, nothing is left to do (see get_locus).
PlayGo == Service({"zero"}, {"zero"}, {"zero"}, {"zero"}, {}, {"zero"})

Services ==
    {NpManager, NpTss, WebApi, NpPolled, NpRequest, NpBandwidthTest, NpInGameMessage,
     NpContext, Dialog, NetCtl, Http, ContentExport, VideoRecording, SharePlay, LiveStreaming,
     Remoteplay, AvPlayer, PlayGo}

----------------------------------------------------------------------------
USER_ID == 1

VARIABLES
    session,    \* what each thread is doing: its library, step, rounds, next chunk
    sessions,   \* sessions begun by each thread
    login_ring, \* EventRing: events, active users, seeded
    logins,     \* login events delivered to each thread
    told        \* threads told NO_EVENT

serviceVars == <<session, sessions>>
userVars == <<login_ring, logins, told>>
offlineVars == <<serviceVars, userVars>>

\* rounds: the times the loop the thread is in has gone round again.
NoSession == [svc |-> NpManager, at |-> "off", rounds |-> 0, next |-> 0]

OfflineInit ==
    /\ session = [t \in Titles |-> NoSession]
    /\ sessions = [t \in Titles |-> 0]
    /\ login_ring = [events |-> <<>>, active |-> {}, seeded |-> FALSE]
    /\ logins = [t \in Titles |-> 0] /\ told = {}

----------------------------------------------------------------------------
(* A session *)

\* Where a title goes from a step: on, at a refusal it may give up instead, and
\* "again" keeps it where it is.  A phase the library does not have is passed over.
After(answers, here, on) ==
    (IF answers = {"again"} THEN {} ELSE {on})
      \cup (IF "refused" \in answers THEN {"closing"} ELSE {})
      \cup (IF "again" \in answers THEN {here} ELSE {})

Begin(t, svc) ==
    /\ session[t].at = "off" /\ sessions[t] < SessionBound
    /\ session' = [session EXCEPT ![t] = [NoSession EXCEPT !.svc = svc, !.at = "set_up"]]
    /\ sessions' = [sessions EXCEPT ![t] = @ + 1]

\* The calls of a phase.
Phase(t, answers, here, on) ==
    /\ session[t].at = here /\ session[t].rounds < RoundBound
    /\ \E at \in After(answers, here, on) :
          session' = [session EXCEPT ![t].at = at, ![t].rounds = IF at = here THEN @ + 1 ELSE @]
    /\ UNCHANGED sessions

Prepare(t) == Phase(t, session[t].svc.init \cup session[t].svc.create, "set_up", "ready")
Ask(t) == Phase(t, session[t].svc.ask, "ready", "asked")
Poll(t) == Phase(t, session[t].svc.poll, "asked", "settled")
Fetch(t) == Phase(t, session[t].svc.fetch, "settled", "closing")

Close(t) ==
    /\ session[t].at = "closing"
    /\ session' = [session EXCEPT ![t].at = "off"]
    /\ UNCHANGED sessions

----------------------------------------------------------------------------
(* PlayGo *)

\* Mutated form: every id is answered for.
any_locus(ids) == "zero"

\* The whole request is rejected for one id past the end of the table.
get_locus(ids) == IF \E id \in ids : id >= PLAYGO_CHUNK_COUNT THEN "bad_chunk_id" ELSE "zero"

\* The title's loop over its chunks, some ids at a time, which it leaves on
\* BAD_CHUNK_ID and nothing else.
Enumerate(t, count) ==
    LET c == session[t]
        ids == {(c.next + i) % ID_SPAN : i \in 0..count - 1}
    IN  /\ c.at = "ready" /\ c.svc = PlayGo
        /\ IF get_locus(ids) = "bad_chunk_id" THEN session' = [session EXCEPT ![t].at = "asked"]
           ELSE /\ c.rounds < RoundBound
                /\ session' = [session EXCEPT ![t].rounds = @ + 1, ![t].next = (@ + count) % ID_SPAN]
        /\ UNCHANGED sessions

----------------------------------------------------------------------------
(* The user service *)

login(r, user) ==
    IF user \in r.active \/ Len(r.events) >= EVENT_QUEUE_CAP THEN r
    ELSE [r EXCEPT !.active = @ \cup {user}, !.events = Append(@, user)]

seed_initial(r) == IF r.seeded THEN r ELSE login([r EXCEPT !.seeded = TRUE], USER_ID)

sce_user_service_initialize ==
    /\ login_ring' = seed_initial(login_ring)
    /\ UNCHANGED <<logins, told>>

sce_user_service_get_event(t) ==
    LET r == seed_initial(login_ring)
    IN  IF r.events = <<>>
        THEN login_ring' = r /\ told' = told \cup {t} /\ UNCHANGED logins
        ELSE /\ login_ring' = [r EXCEPT !.events = Tail(@)]
             /\ logins' = [logins EXCEPT ![t] = @ + 1] /\ UNCHANGED told

OfflineNext ==
    \/ /\ \E t \in Titles :
            \/ \E svc \in Services : Begin(t, svc)
            \/ Prepare(t)
            \/ Ask(t)
            \/ \E count \in 1..MaxBatch : Enumerate(t, count)
            \/ Poll(t)
            \/ Fetch(t)
            \/ Close(t)
       /\ UNCHANGED userVars
    \/ /\ sce_user_service_initialize \/ \E t \in Titles : sce_user_service_get_event(t)
       /\ UNCHANGED serviceVars

OfflineSpec == OfflineInit /\ [][OfflineNext]_offlineVars

----------------------------------------------------------------------------
(* Properties *)

\* The loops a title runs over the services end, whatever it asks and whether
\* or not it heeds refusals: no poll and no read sends it round again, and the
\* enumeration of its chunks, which only BAD_CHUNK_ID ends, goes round at most
\* once for each of them ("answering success for every id makes that loop
\* unbounded").  The pump of the user service ends too: the login titles block
\* on is handed out once, to one thread, however often the service is set up;
\* and no thread is told NO_EVENT before it was.
LoopsEnd ==
    /\ \A t \in Titles : session[t].rounds <= IF session[t].svc = PlayGo THEN PLAYGO_CHUNK_COUNT ELSE 0
    /\ \A t \in Titles : logins[t] <= 1
    /\ \A t, u \in Titles : logins[t] = 1 /\ logins[u] = 1 => t = u
    /\ told # {} => \E t \in Titles : logins[t] = 1
=============================================================================
