------------------------------ MODULE ElfLoad ------------------------------
(***************************************************************************)
(* The two ELF loaders: installer/source/elf.c, which puts the kdebugger   *)
(* into kernel memory, and kdebugger/source/elf.c with the last functions  *)
(* of its proc.c, which put a program into another process.  They are the  *)
(* same code but for three things: the installer checks the type and the   *)
(* size, zeroes what a segment has in memory beyond its file part, and     *)
(* writes where nothing can fail.                                          *)
(*                                                                         *)
(* Memory is counted in cells of one pointer.  A cell of the image holds   *)
(* 0, the cell o of the file as FileCell(o), a pointer that was relocated  *)
(* by addend a as Pointer(a), or Garbage, what the memory held before.     *)
(*                                                                         *)
(* An ELF is a record: magic, type; hasPhdr and the segments               *)
(* [paddr, off, filesz, memsz]; the sections [addr, off, size, alloc,      *)
(* type, rels], whose rels are the entries [offset, kind, addend] of a     *)
(* relocation table read as Elf64_Rela.                                    *)
(***************************************************************************)
EXTENDS Integers, Sequences

Garbage == -1
FileCell(o) == 1 + o
Pointer(a) == 100 + a

\* Does cell c lie in the size cells that start at a?
Within(c, a, size) == c >= a /\ c < a + size

-----------------------------------------------------------------------------
\* elf_mapped_size: the end of the last segment, or of the last section when
\* there is no program header.

EndOf(e, i) ==
    IF e.hasPhdr THEN e.segments[i].paddr + e.segments[i].memsz
                 ELSE e.sections[i].addr + e.sections[i].size
Parts(e) == IF e.hasPhdr THEN Len(e.segments) ELSE Len(e.sections)

MappedSize(e) ==
    LET s[i \in 0..Parts(e)] ==
            IF i = 0 THEN 0
            ELSE IF EndOf(e, i) > s[i - 1] THEN EndOf(e, i) ELSE s[i - 1]
    IN s[Parts(e)]

Cells(e) == 0..(MappedSize(e) - 1)
Blank(e, x) == [c \in Cells(e) |-> x]

-----------------------------------------------------------------------------
\* Each loader copies segment by segment, or section by section, into image m.

\* The section's cells of the file, whatever its type: SHT_NOBITS has none.
CopySection(s, m) ==
    IF s.alloc
    THEN [c \in DOMAIN m |->
            IF Within(c, s.addr, s.size) THEN FileCell(s.off + c - s.addr) ELSE m[c]]
    ELSE m

CopyFilePart(p, m) ==
    [c \in DOMAIN m |->
        IF Within(c, p.paddr, p.filesz) THEN FileCell(p.off + c - p.paddr) ELSE m[c]]

ZeroRest(p, m) ==
    [c \in DOMAIN m |->
        IF Within(c, p.paddr + p.filesz, p.memsz - p.filesz) THEN 0 ELSE m[c]]

\* proc_map_elf of the kdebugger.
KdMapElf(e, m0) ==
    LET m[i \in 0..Parts(e)] ==
            IF i = 0 THEN m0
            ELSE IF e.hasPhdr THEN CopyFilePart(e.segments[i], m[i - 1])
                 ELSE CopySection(e.sections[i], m[i - 1])
    IN m[Parts(e)]

\* map_elf of the installer.
InMapElf(e, m0) ==
    LET m[i \in 0..Parts(e)] ==
            IF i = 0 THEN m0
            ELSE IF e.hasPhdr
                 THEN ZeroRest(e.segments[i], CopyFilePart(e.segments[i], m[i - 1]))
                 ELSE CopySection(e.sections[i], m[i - 1])
    IN m[Parts(e)]

\* One table: only R_X86_64_RELATIVE is applied.
ApplyTable(rels, m0) ==
    LET m[j \in 0..Len(rels)] ==
            IF j = 0 THEN m0
            ELSE IF rels[j].kind = "RELATIVE"
                 THEN [m[j - 1] EXCEPT ![rels[j].offset] = Pointer(rels[j].addend)]
                 ELSE m[j - 1]
    IN m[Len(rels)]

\* proc_relocate_elf: the tables of type SHT_REL, read as Elf64_Rela.
KdRelocate(e, m0) ==
    LET m[i \in 0..Len(e.sections)] ==
            IF i = 0 THEN m0
            ELSE IF e.sections[i].type = "SHT_REL"
                 THEN ApplyTable(e.sections[i].rels, m[i - 1])
                 ELSE m[i - 1]
    IN m[Len(e.sections)]

\* relocate_elf of the installer, which is the same.
InRelocate(e, m0) == KdRelocate(e, m0)

-----------------------------------------------------------------------------
\* proc_load_elf, on the pages proc_allocate has given it, which are zero.
KdLoad(e) == KdRelocate(e, KdMapElf(e, Blank(e, 0)))

\* load_elf of the installer into msize cells of kernel memory.
InLoad(e, msize) ==
    IF \/ msize = 0 \/ ~ e.magic
       \/ e.type \notin {"ET_REL", "ET_DYN"}
    THEN [r |-> "LDR_INVALID_ELF", image |-> << >>]
    ELSE IF MappedSize(e) > msize
         THEN [r |-> "LDR_SIZE_ERROR", image |-> << >>]
         ELSE [r |-> "LDR_SUCCESS",
               image |-> InRelocate(e, InMapElf(e, Blank(e, Garbage)))]

-----------------------------------------------------------------------------
\* What an image should be, by the comments of elf.h: a segment's cells come from
\* the file and then are zero, SHT_NOBITS "occupies no space in the file", and
\* SHT_RELA tables have "explicit addends".

Relocated(e, tables, c) ==
    {r.addend : r \in {r \in UNION {{e.sections[i].rels[j] : j \in DOMAIN e.sections[i].rels} :
                             i \in {i \in DOMAIN e.sections : e.sections[i].type \in tables}} :
                         r.kind = "RELATIVE" /\ r.offset = c}}

\* Cell c when nothing is relocated, for parts that do not overlap; gap is what
\* lies between them.
PlainCell(e, c, gap) ==
    LET segs == {i \in DOMAIN e.segments :
                    Within(c, e.segments[i].paddr, e.segments[i].memsz)}
        sects == {i \in DOMAIN e.sections :
                    e.sections[i].alloc /\ Within(c, e.sections[i].addr, e.sections[i].size)}
        InFile(i) == c < e.segments[i].paddr + e.segments[i].filesz
        FromSegment(i) ==
            IF InFile(i) THEN FileCell(e.segments[i].off + c - e.segments[i].paddr) ELSE 0
        FromSection(i) ==
            IF e.sections[i].type = "SHT_NOBITS" THEN 0
            ELSE FileCell(e.sections[i].off + c - e.sections[i].addr)
    IN CASE e.hasPhdr /\ segs # {} -> FromSegment(CHOOSE i \in segs : TRUE)
         [] ~ e.hasPhdr /\ sects # {} -> FromSection(CHOOSE i \in sects : TRUE)
         [] OTHER -> gap

RightImage(e, m, tables, gap) ==
    \A c \in Cells(e) :
        IF Relocated(e, tables, c) # {}
        THEN \E a \in Relocated(e, tables, c) : m[c] = Pointer(a)
        ELSE m[c] = PlainCell(e, c, gap)
=============================================================================
