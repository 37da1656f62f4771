----------------------------- MODULE MCProcCmd -----------------------------
(***************************************************************************)
(* ProcCmd for TLC, and the ELF loaders on small files.  A menu is what    *)
(* one client asks for: the combinations that interact.                    *)
(***************************************************************************)
EXTENDS ProcCmd

HostsValue == {<<"libkernel_sys.sprx", 701>>, <<"libkernel.sprx", 701>>}

MenusValue ==
    {{"install", "elf"},
     {"install", "call", "freestub", "pause"},
     {"install", "call", "protect"},
     {"install", "map", "own"},
     {"elf", "pause", "protect"},
     {"elf", "alloc", "free"},
     {"install", "alloc", "free"},
     {"map", "alloc", "free", "own"}}

Segment(a, f, m) == [paddr |-> a, off |-> 10 + a, filesz |-> f, memsz |-> m]
SmallElf(segs, sects) ==
    [magic |-> TRUE, type |-> "ET_DYN", hasPhdr |-> segs # << >>,
     segments |-> segs, sections |-> sects]

\* A program whose image takes two pages.
ElfsValue == {SmallElf(<<Segment(0, 1, 2)>>, << >>)}

-----------------------------------------------------------------------------
\* Files with two segments of up to three cells, a gap or none between them, and
\* perhaps a relocation table of two entries; and files with two sections instead.
Sizes == {p \in (0..3) \X (0..3) : p[1] <= p[2]}
Tables(type, top) ==
    {[addr |-> 0, off |-> 30, size |-> 0, alloc |-> FALSE, type |-> type,
      rels |-> <<[offset |-> o, kind |-> k, addend |-> 7],
                 [offset |-> 0, kind |-> k, addend |-> 8]>>] :
        o \in 0..(top - 1), k \in {"RELATIVE", "JUMP_SLOT"}}

SegmentElfs ==
    {SmallElf(<<Segment(0, p[1], p[2]), Segment(p[2] + gap, q[1], q[2])>>, sects) :
        p \in Sizes, q \in Sizes, gap \in 0..1, sects \in {<< >>}}
WithTable(e, type) ==
    {[e EXCEPT !.sections = Append(@, t)] : t \in Tables(type, MappedSize(e))}

Section(a, s, kind) ==
    [addr |-> a, off |-> 20 + a, size |-> s, alloc |-> TRUE, type |-> kind, rels |-> << >>]
SectionElfs(kinds) ==
    {SmallElf(<< >>, <<Section(0, s, k), Section(s + gap, z, l)>>) :
        s \in 0..2, z \in 0..2, gap \in 0..1, k \in kinds, l \in kinds}

Tabled(types) ==
    UNION {WithTable(e, type) : e \in SegmentElfs \cup SectionElfs({"SHT_PROGBITS"}), type \in types}

\* Both loaders build the image a file describes when its tables are of type
\* SHT_REL, in zeroed pages and over whatever kmem_alloc gave.
ASSUME ImagesRight ==
    \A e \in SegmentElfs \cup SectionElfs({"SHT_PROGBITS"}) \cup Tabled({"SHT_REL"}) :
        /\ RightImage(e, KdLoad(e), {"SHT_REL"}, 0)
        /\ MappedSize(e) > 0 =>
               RightImage(e, InLoad(e, MappedSize(e)).image, {"SHT_REL"}, Garbage)

\* A table of the type that has explicit addends, SHT_RELA, is not applied.
ASSUME RelaIgnored ==
    \A e \in Tabled({"SHT_RELA"}) :
        /\ KdLoad(e) = KdMapElf(e, Blank(e, 0))
        /\ Relocated(e, {"SHT_RELA"}, 0) # {} => ~ RightImage(e, KdLoad(e), {"SHT_RELA"}, 0)

\* A file without a program header has its SHT_NOBITS sections filled with what
\* follows their offset in the file.
ASSUME NobitsCopied ==
    \A e \in SectionElfs({"SHT_PROGBITS", "SHT_NOBITS"}) :
        RightImage(e, KdLoad(e), {"SHT_REL"}, 0) <=>
            \A i \in DOMAIN e.sections : e.sections[i].type = "SHT_NOBITS" => e.sections[i].size = 0

\* The installer refuses what does not fit; the kdebugger has it allocated to fit.
ASSUME SizeRespected ==
    \A e \in SegmentElfs, m \in 0..7 :
        /\ InLoad(e, m).r = "LDR_SUCCESS" => DOMAIN InLoad(e, m).image \subseteq 0..(m - 1)
        /\ MappedSize(e) < Padded(MappedSize(e))
=============================================================================
