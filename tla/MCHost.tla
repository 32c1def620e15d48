------------------------------- MODULE MCHost -------------------------------
(***************************************************************************)
(* TLC's instance of the parts of the emulator around the kernel that      *)
(* share no state with each other: guest execution, the clock, audio, the  *)
(* loader and its images, files and the offline services.  A behaviour     *)
(* moves one part and leaves the others where they began: every state of   *)
(* each is reached, without their product.                                 *)
(***************************************************************************)
EXTENDS GuestExec, Clock, AudioOut, MCLoader, Image, FileSystem, Offline

----------------------------------------------------------------------------
(* Guest execution: the main thread runs its initialisers, then its entry   *)

MCLives == (1 :> <<"init", "entry">>) @@ (2 :> <<"entry">>)
MCBudget == (1 :> 2) @@ (2 :> 0)

----------------------------------------------------------------------------
(* Images: segments in and out of order, overlapping, with bss, and none;   *)
(* containers whose blocks are in any order, short or encrypted.            *)

Ph(ty, off, fs, va, ms) == [type |-> ty, off |-> off, filesz |-> fs, vaddr |-> va, memsz |-> ms]
MCSymbols ==
    <<[nid |-> "a", defined |-> TRUE, value |-> 1], [nid |-> "b", defined |-> FALSE, value |-> 0]>>
MCElfs ==
    {[phdrs |-> p, symbols |-> MCSymbols] :
        p \in {<<Ph("load", 2, 2, 0, 2), Ph("load", 4, 1, 2, 4), Ph("dynamic", 4, 1, 2, 1)>>,
               <<Ph("load", 2, 2, 3, 6), Ph("relro", 4, 2, 0, 2)>>,
               <<Ph("load", 1, 3, 0, 5)>>, <<>>}}
Seg(b, id, c, u) == [blocked |-> b, id |-> id, csize |-> c, usize |-> u]
MCSegs ==
    {Seg(TRUE, 1, 3, 3), Seg(TRUE, 2, 2, 2), Seg(TRUE, 1, 1, 1), Seg(TRUE, 2, 1, 2),
     Seg(FALSE, 1, 1, 1), Seg(TRUE, 3, 1, 1)}
MCPackings ==
    {[segs |-> <<>>, fault |-> "plain"]}
      \cup [segs : UNION {[1..n -> MCSegs] : n \in 0..2}, fault : {"none", "short"}]
      \cup [segs : UNION {[1..n -> MCSegs] : n \in 0..1}, fault : {"encrypted"}]

----------------------------------------------------------------------------
(* Files: a game directory over a title directory whose names differ in     *)
(* case.                                                                    *)

FileA == <<"a", 0>>
FileACase == <<"a", 1>>
DirD == <<"d", 0>>
DirDCase == <<"d", 1>>
GameRoot == <<<<"game", 0>>>>
TitleRoot == <<<<"title", 0>>>>
MCNames == {FileA, FileACase, DirD, DirDCase, EBOOT, SAVEDATA}
MCDirs == {DirD, DirDCase}
MCTree ==
    (GameRoot :> 0) @@ (TitleRoot :> 0) @@ (TitleRoot \o <<EBOOT>> :> 1)
      @@ (TitleRoot \o <<DirD>> :> 0) @@ (TitleRoot \o <<DirD, FileACase>> :> 2)
MCMounts ==
    <<[prefix |-> <<APP0, DirDCase>>, root |-> TitleRoot], [prefix |-> <<APP0>>, root |-> GameRoot],
      [prefix |-> <<APP0>>, root |-> TitleRoot]>>
MCPaths ==
    {<<APP0, DirD>>, <<Dot, DirD, FileACase>>, <<APP0, DirDCase, DotDot, FileA>>}

\* Calls of any kind in one behaviour ("files"), beside longer ones of the
\* save-data and temporary-data calls alone ("saves", up to CallBound).
PathCalls == 2

----------------------------------------------------------------------------
VARIABLE part

mcVars == <<part, execCtxVars, clockVars, audioVars, loaderVars, imageVars, fsVars, offlineVars>>

\* A part that does not move begins in one of its initial states.
Still(p, first) == part = p \/ first

MCInit ==
    /\ part \in {"exec", "clock", "audio", "loader", "image", "files", "saves", "services", "users"}
    /\ Still("clock", clock_mode = "realtime")
    /\ Still("loader", needs = CHOOSE n \in NeedsGraphs : TRUE)
    /\ Still("image", elf = CHOOSE e \in Elfs : TRUE) /\ Still("image", pack = CHOOSE p \in Packings : TRUE)
    /\ ExecInit /\ ClockInit /\ AudioInit /\ LoaderInit /\ ImageInit /\ FsInit /\ OfflineInit

MCNext ==
    \/ part = "exec" /\ ExecNext
       /\ UNCHANGED <<part, clockVars, audioVars, loaderVars, imageVars, fsVars, offlineVars>>
    \/ part = "clock" /\ ClockNext
       /\ UNCHANGED <<part, execCtxVars, audioVars, loaderVars, imageVars, fsVars, offlineVars>>
    \/ part = "audio" /\ AudioNext
       /\ UNCHANGED <<part, execCtxVars, clockVars, loaderVars, imageVars, fsVars, offlineVars>>
    \/ part = "loader" /\ LoaderNext
       /\ UNCHANGED <<part, execCtxVars, clockVars, audioVars, imageVars, fsVars, offlineVars>>
    \/ part = "image" /\ ImageNext
       /\ UNCHANGED <<part, execCtxVars, clockVars, audioVars, loaderVars, fsVars, offlineVars>>
    \/ part = "files" /\ FsNext /\ fsCalls' <= PathCalls
       /\ UNCHANGED <<part, execCtxVars, clockVars, audioVars, loaderVars, imageVars, offlineVars>>
    \/ part = "saves" /\ (SaveDataCall \/ TempDataCall \/ \E t \in FsThreads : savedata_record(t))
       /\ UNCHANGED <<part, execCtxVars, clockVars, audioVars, loaderVars, imageVars, offlineVars>>
    \/ part = "services" /\ OfflineNext /\ UNCHANGED userVars
       /\ UNCHANGED <<part, execCtxVars, clockVars, audioVars, loaderVars, imageVars, fsVars>>
    \/ part = "users" /\ OfflineNext /\ UNCHANGED serviceVars
       /\ UNCHANGED <<part, execCtxVars, clockVars, audioVars, loaderVars, imageVars, fsVars>>

MCSpec == MCInit /\ [][MCNext]_mcVars
=============================================================================
