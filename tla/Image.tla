------------------------------- MODULE Image --------------------------------
(***************************************************************************)
(* From a file to mapped pages: crates/loader/src/container.rs rebuilds    *)
(* the ELF inside a SELF container, image.rs and dynamic.rs read its       *)
(* program headers and dynamic tables, manager.rs gives the module a base  *)
(* and linker.rs maps its segments page by page.                           *)
(*                                                                         *)
(* A file is a sequence of cells.  The cells of an ELF are numbered by     *)
(* their place in it, its first HDR hold the header and the program header *)
(* table; a container puts its own header before them and the segments'    *)
(* data after them.                                                        *)
(***************************************************************************)
EXTENDS Integers, Sequences, FiniteSets, FiniteSetsExt

CONSTANTS
    HDR,      \* cells of the ELF header with its program headers
    SCE,      \* cells of the container's header, and of one entry of its table
    PAGE,     \* cells of a page
    ALIGN,    \* what module sizes are rounded up to
    Elfs,     \* ELFs: the sequence of program headers, and the symbols
    Packings, \* containers: the sequence of their segments, and a fault
    MaxImages \* images loaded (a bound for TLC)

ASSUME ImageAssumption == ALIGN % PAGE = 0 /\ PAGE > 0 /\ HDR \in Nat \ {0} /\ SCE > 0
\* Program headers and container segments come in tables; offsets and sizes
\* in them are unsigned.
ASSUME FileAssumption ==
    /\ \A e \in Elfs : /\ Len(e.phdrs) \in Nat /\ DOMAIN e.phdrs = 1..Len(e.phdrs)
                       /\ \A i \in DOMAIN e.phdrs : {e.phdrs[i].off, e.phdrs[i].filesz} \subseteq Nat
    /\ \A p \in Packings : /\ Len(p.segs) \in Nat /\ DOMAIN p.segs = 1..Len(p.segs)
                           /\ \A i \in DOMAIN p.segs : p.segs[i].usize \in Nat

VARIABLES
    elf,          \* the ELF inside the file being loaded (what a packer packed)
    pack,         \* how it was packed
    stage,
    rebuilt,      \* the ELF open gives back, cell by cell
    copied,       \* segments of the container already copied
    image,        \* ParsedImage
    current_addr, \* ModuleAllocator::current_addr
    pages         \* [base, from, to] of each segment mapped, in cells

imageVars == <<elf, pack, stage, rebuilt, copied, image, current_addr, pages>>

Larger(a, b) == IF a < b THEN b ELSE a
Smaller(a, b) == IF a < b THEN a ELSE b
\* The cells of the ELF the packer had: up to the end of its program headers.
ElfSize(e) == Max({HDR} \cup {e.phdrs[i].off + e.phdrs[i].filesz : i \in DOMAIN e.phdrs})

(***************************************************************************)
(* The container, as a packer lays it out: header, table, the ELF's own    *)
(* header cells, then the data of each segment in turn.                    *)
(***************************************************************************)
ElfBase == SCE + SCE * Len(pack.segs)
Data(i) == IF pack.segs[i].blocked /\ pack.segs[i].id \in DOMAIN elf.phdrs THEN elf.phdrs[pack.segs[i].id].filesz ELSE 1
DataAt(i) == ElfBase + HDR + FoldSet(LAMBDA j, n : n + Data(j), 0, 1..i - 1)
RawSize == (IF pack.segs = <<>> THEN ElfBase + HDR ELSE DataAt(Len(pack.segs)) + Data(Len(pack.segs)))
               - (IF pack.fault = "short" THEN 1 ELSE 0)
\* What the cell of segment i at distance k holds: a cell of the ELF.
RawCell(i, k) == elf.phdrs[pack.segs[i].id].off + k

(***************************************************************************)
(* container::open.                                                        *)
(***************************************************************************)
Reject == /\ stage' = "rejected"
          /\ UNCHANGED <<elf, pack, rebuilt, copied, image, current_addr, pages>>

\* A plain ELF is taken as it is.
open_elf ==
    /\ stage = "file" /\ pack.fault = "plain"
    /\ rebuilt' = [c \in 1..ElfSize(elf) |-> c] /\ stage' = "elf"
    /\ UNCHANGED <<elf, pack, copied, image, current_addr, pages>>

\* No segments, a ciphertext for an inner header, a program header larger than
\* the whole file, or a file that ends inside the inner headers.
HeadersBad ==
    \/ pack.segs = <<>> \/ pack.fault = "encrypted" \/ RawSize < ElfBase + HDR
    \/ \E i \in DOMAIN elf.phdrs : elf.phdrs[i].filesz > RawSize

\* The output buffer: as large as the program headers say, with the ELF's
\* header cells in it.
extract_from_self ==
    /\ stage = "file" /\ pack.fault # "plain" /\ ~HeadersBad
    /\ rebuilt' = [c \in 1..ElfSize(elf) |-> IF c <= HDR THEN c ELSE 0]
    /\ copied' = 0 /\ stage' = "self"
    /\ UNCHANGED <<elf, pack, image, current_addr, pages>>

open_rejects == stage = "file" /\ pack.fault # "plain" /\ (HeadersBad = TRUE) /\ Reject

\* The next segment: skipped when it is not blocked, else copied to where its
\* program header has it.
CopyLen(s) == Smaller(s.usize, elf.phdrs[s.id].filesz)
SegmentBad(i) == LET s == pack.segs[i] IN
    s.blocked /\ (s.csize = s.usize /\ s.id \in DOMAIN elf.phdrs => CopyLen(s) > 0 /\ DataAt(i) + CopyLen(s) > RawSize)

\* A mutant: the data goes where the container has it, not the program header.
copy_segment_in_order ==
    /\ stage = "self" /\ copied < Len(pack.segs) /\ ~SegmentBad(copied + 1)
    /\ LET s == pack.segs[copied + 1]
           ph == elf.phdrs[copied + 1]
       IN  rebuilt' = IF ~s.blocked \/ copied + 1 \notin DOMAIN elf.phdrs THEN rebuilt
                      ELSE [c \in DOMAIN rebuilt |->
                               IF c \in ph.off + 1..ph.off + CopyLen(s) THEN RawCell(copied + 1, c - ph.off) ELSE rebuilt[c]]
    /\ copied' = copied + 1
    /\ UNCHANGED <<elf, pack, stage, image, current_addr, pages>>

copy_segment ==
    /\ stage = "self" /\ copied < Len(pack.segs) /\ ~SegmentBad(copied + 1)
    /\ LET s == pack.segs[copied + 1]
           ph == elf.phdrs[s.id]
       IN  rebuilt' = IF ~s.blocked THEN rebuilt
                      ELSE [c \in DOMAIN rebuilt |->
                               IF c \in ph.off + 1..ph.off + CopyLen(s) THEN RawCell(copied + 1, c - ph.off) ELSE rebuilt[c]]
    /\ copied' = copied + 1
    /\ UNCHANGED <<elf, pack, stage, image, current_addr, pages>>

copy_rejects == stage = "self" /\ copied < Len(pack.segs) /\ (SegmentBad(copied + 1) = TRUE) /\ Reject

copy_end ==
    /\ stage = "self" /\ copied = Len(pack.segs)
    /\ stage' = "elf"
    /\ UNCHANGED <<elf, pack, rebuilt, copied, image, current_addr, pages>>

(***************************************************************************)
(* ParsedImage::parse.                                                     *)
(***************************************************************************)
\* The loadable program headers, with what memsz adds as bss.
extract_segments(e) ==
    {[offset |-> e.phdrs[i].vaddr, data |-> e.phdrs[i].filesz, bss |-> Larger(0, e.phdrs[i].memsz - e.phdrs[i].filesz)] :
        i \in {j \in DOMAIN e.phdrs : e.phdrs[j].type \in {"load", "relro"}}}

SegmentEnd(s) == s.offset + s.data + s.bss
\* The end of the furthest segment, in whatever order they come.
memory_size(e) == Max({0} \cup {SegmentEnd(s) : s \in extract_segments(e)})

\* The symbol table: a symbol without a section is imported, one with a
\* section exported at its value; a relocation takes its symbol's name, and
\* its value if the symbol is defined here.
symbols(e) == {e.symbols[i] : i \in DOMAIN e.symbols}
dyn_imports(e) == {s.nid : s \in {x \in symbols(e) : ~x.defined}}
dyn_exports(e) == {[nid |-> s.nid, value |-> s.value] : s \in {x \in symbols(e) : x.defined}}

parse ==
    /\ stage = "elf"
    /\ image' = [size |-> memory_size(elf), segments |-> extract_segments(elf),
                 imports |-> dyn_imports(elf), exports |-> dyn_exports(elf)]
    /\ stage' = "parsed"
    /\ UNCHANGED <<elf, pack, rebuilt, copied, current_addr, pages>>

(***************************************************************************)
(* map_image: a base from the allocator, then the page span of each        *)
(* segment.                                                                *)
(***************************************************************************)
allocate(size) == ((size + ALIGN - 1) \div ALIGN) * ALIGN
segment_span(base, s) == [base |-> base, from |-> ((base + s.offset) \div PAGE) * PAGE,
                          to |-> ((base + SegmentEnd(s) + PAGE - 1) \div PAGE) * PAGE]

map_image ==
    /\ stage = "parsed"
    /\ current_addr' = current_addr + allocate(image.size)
    /\ pages' = pages \cup {segment_span(current_addr, s) : s \in image.segments}
    /\ stage' = "mapped"
    /\ UNCHANGED <<elf, pack, rebuilt, copied, image>>

NoImage == [size |-> 0, segments |-> {}, imports |-> {}, exports |-> {}]

next_image ==
    /\ stage \in {"mapped", "rejected"} /\ Cardinality({p.base : p \in pages}) < MaxImages
    /\ \E e \in Elfs, p \in Packings : elf' = e /\ pack' = p
    /\ stage' = "file" /\ rebuilt' = <<>> /\ copied' = 0 /\ image' = NoImage
    /\ UNCHANGED <<current_addr, pages>>

ImageInit ==
    /\ elf \in Elfs /\ pack \in Packings /\ stage = "file"
    /\ rebuilt = <<>> /\ copied = 0 /\ image = NoImage
    /\ current_addr = ALIGN /\ pages = {}

ImageNext ==
    \/ open_elf \/ extract_from_self \/ open_rejects \/ copy_segment \/ copy_rejects \/ copy_end
    \/ parse \/ map_image \/ next_image

ImageSpec == ImageInit /\ [][ImageNext]_imageVars

(***************************************************************************)
(* Properties.                                                             *)
(***************************************************************************)
\* The ELF taken out of a container is the one that was put in: whatever order
\* the container keeps its segments in and however program headers overlap,
\* every cell of a program header some segment carries in full holds what the
\* ELF has there (container.rs:extract_from_self).
Carried == {i \in DOMAIN elf.phdrs : \E j \in DOMAIN pack.segs :
                pack.segs[j].blocked /\ pack.segs[j].id = i /\ pack.segs[j].usize >= elf.phdrs[i].filesz}
RebuiltIsTheElf ==
    stage \in {"elf", "parsed"} =>
        /\ \A c \in 1..HDR : rebuilt[c] = c
        /\ pack.fault # "plain" => \A i \in Carried : \A c \in elf.phdrs[i].off + 1..elf.phdrs[i].off + elf.phdrs[i].filesz : rebuilt[c] = c

=============================================================================
