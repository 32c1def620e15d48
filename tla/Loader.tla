------------------------------- MODULE Loader -------------------------------
(***************************************************************************)
(* Loading modules: the linker and module manager of crates/loader and the *)
(* boot and runtime loads of crates/kernel/src/process.rs.  A load walks   *)
(* the graph of needed modules, maps every module found, then relocates    *)
(* them, then maps and relocates its target, and leaves the module_starts  *)
(* for the calling thread to run.                                          *)
(*                                                                         *)
(* A library name leads to a file (by its own name or an alias), a file to *)
(* what its image needs, exports and imports; the bytes of an image and    *)
(* the addresses in it are left out, and a slot of its GOT holds the       *)
(* module it was bound to.                                                 *)
(***************************************************************************)
EXTENDS Integers, Sequences, FiniteSets, SequencesExt

CONSTANTS
    LoadThreads,  \* guest threads that load at run time
    MainThread,   \* the one the executable runs on
    Files,        \* the .prx files of the title, the executable among them
    Eboot,        \* the executable
    FileOf,       \* library name to its file, or NoFile
    StemOf,       \* guest path to the library name in it
    HostOf,       \* guest path to the file it leads to, or NoFile
    NeedsGraphs,  \* what each file may need: file to a list of library names
    Exports,      \* file to the symbols it exports
    Imports,      \* file to the symbols its relocations name, in order
    BrokenFiles,  \* files whose image does not parse
    Unmappable,   \* files whose segments cannot be mapped
    HleSymbols,   \* symbols the HLE libraries export
    NoFile, Missing,
    MaxStubs,     \* stubs the Lazy_Stubs region holds
    MaxLoads      \* run-time loads (a bound for TLC)

\* A slot without a module holds no module's id; names lead to files of the
\* title; a name that is also a file's is that file's own.
ASSUME LoaderAssumption ==
    /\ Missing \notin Nat /\ NoFile \notin Files /\ Eboot \in Files /\ MainThread \in LoadThreads
    /\ FileOf \in [DOMAIN FileOf -> Files \cup {NoFile}]
    /\ HostOf \in [DOMAIN StemOf -> Files \cup {NoFile}]
    /\ NeedsGraphs \subseteq [Files -> Seq(DOMAIN FileOf)]
    /\ \A lib \in DOMAIN FileOf : lib \in Files => FileOf[lib] = lib

\* The name in a guest path leads, as a library, to the file the path leads to
\* or to none: what the title's layout has to grant for the order of starts,
\* since a load passes its own name over wherever it is needed.
NamesTell ==
    \A p \in DOMAIN StemOf :
        /\ StemOf[p] \in DOMAIN FileOf => FileOf[StemOf[p]] \in {HostOf[p], NoFile}
        /\ StemOf[p] \in Files => StemOf[p] = HostOf[p]

HLE == 0          \* the module of the HLE libraries

VARIABLES
    needs,               \* file to the library names it needs, in order (an input)
    modules,             \* ModuleManager::modules: id to [name, file, load]
    next_id,
    loaded_by_path,      \* Process::loaded_by_path: guest path to id
    loaded_module_paths, \* Process::loaded_module_paths: file to id
    module_inits,        \* Process::module_inits: ids in the order to start
    stubs,               \* stubs_cursor
    got,                 \* id to what its slots are bound to, while relocated
    load,                \* the load under way (under the lock of loaded_by_path)
    to_start,            \* to_start[t]: the module_starts thread t has to run
    loads                \* counts the sets and the targets loaded

loaderVars == <<needs, modules, next_id, loaded_by_path, loaded_module_paths, module_inits, stubs, got, load, to_start, loads>>

NoLoad == [phase |-> "none", by |-> MainThread, path |-> "", name |-> "", file |-> NoFile,
           stack |-> <<>>, set |-> <<>>, loaded |-> {}, loading |-> {}, mapped |-> <<>>]

SymbolsOf(id) == IF id = HLE THEN HleSymbols ELSE Exports[modules[id].file]
Named(name) == {id \in DOMAIN modules : modules[id].name = name}

(***************************************************************************)
(* The walk: collect_module_graph, one library of the top frame at a time. *)
(***************************************************************************)
Frame(lib, file) == [lib |-> lib, file |-> file, rest |-> needs[file]]
Walked == Last(load.stack)
Popped == Append(Front(load.stack), [Walked EXCEPT !.rest = Tail(@)])

Walking == load.phase = "walk" /\ Walked.rest # <<>>
LoaderRest == UNCHANGED <<needs, modules, next_id, loaded_by_path, loaded_module_paths, module_inits, stubs, got, to_start, loads>>

\* Seen before, by name or by file, mapped by an earlier load, or without a file.
Skips(lib) ==
    \/ lib \in load.loaded \cup load.loading
    \/ FileOf[lib] = NoFile
    \/ FileOf[lib] \in load.loaded \cup load.loading \cup DOMAIN loaded_module_paths

walk_skip ==
    /\ Walking
    /\ LET lib == Head(Walked.rest) IN
       /\ Skips(lib) = TRUE
       /\ load' = [load EXCEPT !.stack = Popped, !.loaded = IF lib \in load.loading THEN @ ELSE @ \cup {lib}]
    /\ LoaderRest

walk_enter ==
    /\ Walking
    /\ LET lib == Head(Walked.rest) IN
       /\ ~Skips(lib)
       /\ load' = IF FileOf[lib] \in BrokenFiles
                  THEN [load EXCEPT !.stack = Popped, !.loaded = @ \cup {lib, FileOf[lib]}]
                  ELSE [load EXCEPT !.stack = Append(Popped, Frame(lib, FileOf[lib])),
                                    !.loading = @ \cup {lib, FileOf[lib]}]
    /\ LoaderRest

\* A mutant: the set is built from the front.
walk_leave_front ==
    /\ load.phase = "walk" /\ Walked.rest = <<>> /\ Len(load.stack) > 1
    /\ load' = [load EXCEPT !.stack = Front(@), !.set = <<[lib |-> Walked.lib, file |-> Walked.file]>> \o @,
                            !.loading = @ \ {Walked.lib, Walked.file}, !.loaded = @ \cup {Walked.lib, Walked.file}]
    /\ LoaderRest

\* A library goes to the set after everything it needs.
walk_leave ==
    /\ load.phase = "walk" /\ Walked.rest = <<>> /\ Len(load.stack) > 1
    /\ load' = [load EXCEPT !.stack = Front(@), !.set = Append(@, [lib |-> Walked.lib, file |-> Walked.file]),
                            !.loading = @ \ {Walked.lib, Walked.file}, !.loaded = @ \cup {Walked.lib, Walked.file}]
    /\ LoaderRest

walk_end ==
    /\ load.phase = "walk" /\ Walked.rest = <<>> /\ Len(load.stack) = 1
    /\ load' = [load EXCEPT !.phase = "map"]
    /\ LoaderRest

(***************************************************************************)
(* Mapping and relocation.                                                 *)
(***************************************************************************)
Registered(name, file) ==
    [id \in DOMAIN modules \cup {next_id} |->
        IF id = next_id THEN [name |-> name, file |-> file, load |-> loads] ELSE modules[id]]

\* The n-th stub of this image fits its region.
alloc_missing_stub(n) == stubs + n <= MaxStubs

\* The slots of an image in order, each to a module that exports its symbol
\* (any: the modules are in a hash map) or to a stub of its own; when the stubs
\* run out the rest stay as they are in the file.
Bind(id, file, known) ==
    \E bound \in [DOMAIN Imports[file] -> known \cup {Missing}] :
        LET Exporters(i) == {x \in known : Imports[file][i] \in SymbolsOf(x)}
            Misses(i) == Cardinality({j \in 1..i : bound[j] = Missing})
            done == {i \in DOMAIN bound : alloc_missing_stub(Misses(i))}
        IN  /\ \A i \in DOMAIN bound : bound[i] \in IF Exporters(i) = {} THEN {Missing} ELSE Exporters(i)
            /\ got' = [x \in DOMAIN got \cup {id} |-> IF x = id THEN [i \in done |-> bound[i]] ELSE got[x]]
            /\ stubs' = stubs + Cardinality({i \in done : bound[i] = Missing})

\* A mutant: relocated when only the modules before it were mapped.
relocate_image_eager(id, file) == Bind(id, file, {x \in DOMAIN modules : x <= id})

relocate_image(id, file) == Bind(id, file, DOMAIN modules)

Relocated(file) == Cardinality(DOMAIN got'[next_id - 1]) = Len(Imports[file])

\* load_module_set: every module of the set is mapped ...
map_next ==
    /\ load.phase = "map" /\ load.set # <<>>
    /\ LET m == Head(load.set) IN
       IF m.file \in Unmappable
       THEN load' = [load EXCEPT !.set = Tail(@)] /\ next_id' = next_id + 1
            /\ UNCHANGED <<modules, loaded_module_paths>>
       ELSE /\ modules' = Registered(m.lib, m.file) /\ next_id' = next_id + 1
            /\ loaded_module_paths' = [f \in DOMAIN loaded_module_paths \cup {m.file} |->
                                          IF f = m.file THEN next_id ELSE loaded_module_paths[f]]
            /\ load' = [load EXCEPT !.set = Tail(@), !.mapped = Append(@, next_id)]
    /\ UNCHANGED <<needs, loaded_by_path, module_inits, stubs, got, to_start, loads>>

map_end ==
    /\ load.phase = "map" /\ load.set = <<>>
    /\ load' = [load EXCEPT !.phase = "relocate"]
    /\ LoaderRest

\* ... and then relocated and entered among the module_starts, whether its
\* relocation failed or not.
relocate_next ==
    /\ load.phase = "relocate" /\ load.mapped # <<>>
    /\ LET id == Head(load.mapped) IN
       /\ relocate_image(id, modules[id].file)
       /\ module_inits' = Append(module_inits, id)
       /\ load' = [load EXCEPT !.mapped = Tail(@)]
    /\ UNCHANGED <<needs, modules, next_id, loaded_by_path, loaded_module_paths, to_start, loads>>

target_map ==
    /\ load.phase = "relocate" /\ load.mapped = <<>> /\ load.file \notin Unmappable
    /\ modules' = [Registered(load.name, load.file) EXCEPT ![next_id].load = loads + 1]
    /\ next_id' = next_id + 1 /\ loads' = loads + 1
    /\ load' = [load EXCEPT !.phase = "target"]
    /\ UNCHANGED <<needs, loaded_by_path, loaded_module_paths, module_inits, stubs, got, to_start>>

\* What is left for the thread: at boot all of module_inits, at run time
\* what this load added to it, taken off again, and the target's own.
Boot == load.path = ""
Starts == IF Boot THEN module_inits ELSE module_inits \o <<next_id - 1>>

target_relocate ==
    /\ load.phase = "target" /\ relocate_image(next_id - 1, load.file) /\ Relocated(load.file)
    /\ module_inits' = <<>>
    /\ to_start' = [to_start EXCEPT ![load.by] = Starts]
    /\ loaded_by_path' = IF Boot THEN loaded_by_path
                         ELSE [p \in DOMAIN loaded_by_path \cup {load.path} |->
                                  IF p = load.path THEN next_id - 1 ELSE loaded_by_path[p]]
    /\ load' = NoLoad /\ UNCHANGED <<needs, modules, next_id, loaded_module_paths, loads>>

\* The target cannot be mapped or relocated: the errno goes back, what was
\* loaded for it stays, and its module_starts are dropped.
target_fails ==
    /\ \/ /\ load.phase = "relocate" /\ load.mapped = <<>> /\ load.file \in Unmappable
          /\ next_id' = next_id + 1 /\ UNCHANGED <<stubs, got>>
       \/ /\ load.phase = "target" /\ relocate_image(next_id - 1, load.file) /\ ~Relocated(load.file)
          /\ UNCHANGED next_id
    /\ module_inits' = <<>>
    /\ load' = IF Boot THEN [NoLoad EXCEPT !.phase = "dead"] ELSE NoLoad
    /\ UNCHANGED <<needs, modules, loaded_by_path, loaded_module_paths, to_start, loads>>

(***************************************************************************)
(* The calls.                                                              *)
(***************************************************************************)
\* The boot load, with no path of its own: the executable's modules, then it.
load_executable ==
    [NoLoad EXCEPT !.phase = "walk", !.name = "eboot.bin", !.file = Eboot,
                   !.stack = <<Frame("eboot.bin", Eboot)>>]

LoaderInit ==
    /\ needs \in NeedsGraphs
    /\ modules = [id \in {HLE} |-> [name |-> "hle", file |-> NoFile, load |-> 0]] /\ next_id = 1
    /\ loaded_by_path = <<>> /\ loaded_module_paths = <<>>
    /\ module_inits = <<>> /\ stubs = 0 /\ got = <<>>
    /\ load = load_executable
    /\ to_start = [t \in LoadThreads |-> <<>>] /\ loads = 1

\* sceKernelLoadStartModule: a thread runs what an earlier call left it first.
CanCall(t) == load.phase = "none" /\ to_start[t] = <<>>

\* By guest path, by bare name, by host file: loaded already.
load_start_cached(t, p) ==
    /\ CanCall(t) /\ p \notin DOMAIN loaded_by_path
    /\ \E id \in IF Named(StemOf[p]) # {} THEN Named(StemOf[p])
                 ELSE {loaded_module_paths[f] : f \in DOMAIN loaded_module_paths \cap {HostOf[p]}} :
          loaded_by_path' = [q \in DOMAIN loaded_by_path \cup {p} |-> IF q = p THEN id ELSE loaded_by_path[q]]
    /\ UNCHANGED <<needs, modules, next_id, loaded_module_paths, module_inits, stubs, got, load, to_start, loads>>

load_start_module(t, p) ==
    /\ CanCall(t) /\ p \notin DOMAIN loaded_by_path /\ Named(StemOf[p]) = {} /\ loads <= 2 * MaxLoads
    /\ HostOf[p] \notin DOMAIN loaded_module_paths \cup {NoFile} \cup BrokenFiles
    /\ load' = [NoLoad EXCEPT !.phase = "walk", !.by = t, !.path = p, !.name = StemOf[p], !.file = HostOf[p],
                              !.stack = <<Frame(StemOf[p], HostOf[p])>>, !.loaded = {StemOf[p]}]
    /\ loads' = loads + 1
    /\ UNCHANGED <<needs, modules, next_id, loaded_by_path, loaded_module_paths, module_inits, stubs, got, to_start>>

\* The thread runs the next module_start it was left.
run_module_start(t) ==
    /\ to_start[t] # <<>>
    /\ to_start' = [to_start EXCEPT ![t] = Tail(@)]
    /\ UNCHANGED <<needs, modules, next_id, loaded_by_path, loaded_module_paths, module_inits, stubs, got, load, loads>>

LoaderNext ==
    \/ walk_skip \/ walk_enter \/ walk_leave \/ walk_end
    \/ map_next \/ map_end \/ relocate_next \/ target_map \/ target_relocate \/ target_fails
    \/ \E t \in LoadThreads :
          run_module_start(t) \/ \E p \in DOMAIN StemOf : load_start_cached(t, p) \/ load_start_module(t, p)

LoaderSpec == LoaderInit /\ [][LoaderNext]_loaderVars

(***************************************************************************)
(* Properties.                                                             *)
(***************************************************************************)
\* Modules loaded together find each other's symbols however their needs are
\* ordered and in whatever cycles: a slot is left to a stub only when no module
\* mapped before it or in the same set exports its symbol
\* (process.rs:load_module_set, linker.rs:map_image).
ImportsBound ==
    \A id \in DOMAIN got : \A i \in DOMAIN got[id] :
        got[id][i] = Missing =>
            \A x \in DOMAIN modules : modules[x].load <= modules[id].load => Imports[modules[id].file][i] \notin SymbolsOf(x)

\* The files a file needs itself, and those it leads to: what is in every set
\* that has its needs and with a file the needs of that file.
DirectIn(graph, f) == {FileOf[graph[f][k]] : k \in DOMAIN graph[f]} \ {NoFile}
Closed(graph, S) == \A g \in S : DirectIn(graph, g) \subseteq S
LeadsIn ==
    [graph \in NeedsGraphs |-> [f \in Files |->
        {g \in Files : \A S \in SUBSET Files : DirectIn(graph, f) \subseteq S /\ Closed(graph, S) => g \in S}]]

Direct(f) == DirectIn(needs, f)
LeadsTo(f) == LeadsIn[needs][f]

\* The module_starts left to a thread run leaves first: a module starts after
\* every module it needs itself, unless that one leads back to it
\* (process.rs:collect_module_graph, load_start_module).
DepsStartFirst ==
    \A t \in LoadThreads : \A i, j \in DOMAIN to_start[t] :
        LET f == modules[to_start[t][i]].file
            g == modules[to_start[t][j]].file
        IN  i < j /\ g \in Direct(f) => f \in LeadsTo(g)

\* No file is mapped twice, at two bases with two copies of its globals: what
\* the comment on loaded_module_paths (process.rs:68) promises of boot and
\* run-time loads alike.
FileMappedOnce == \A x, y \in DOMAIN modules \ {HLE} : modules[x].file = modules[y].file => x = y
=============================================================================
