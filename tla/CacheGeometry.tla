---------------------------- MODULE CacheGeometry ----------------------------
(***************************************************************************)
(* The two texts made from the memory section of vivado_config.yaml: the   *)
(* macros of dev/rtl/core/cache_def.svh (tools/vivado_core/                *)
(* cache_header_gen.py) and the block memories that create_ip makes        *)
(* (tools/vivado_core/ip_gen.py).  The RTL is written with the former and  *)
(* connected to the latter.                                                *)
(***************************************************************************)
EXTENDS Integers

Clog2(n) == IF n <= 1 THEN 1 ELSE CHOOSE k \in 1..n : 2^k >= n /\ 2^(k - 1) < n

CacheConfig ==
    [num_sets : Nat, num_ways : Nat, tag_width : Nat, line_words : Nat,
     byte_enable : BOOLEAN, byte_size : Nat \ {0}, tag_bram_byte_enable : BOOLEAN,
     tag_bram_byte_size : Nat, tag_bram_xilinx_byte_size : Nat \ {0}]
TlbConfig ==
    [num_ways : Nat, num_sets : Nat,
     flag_byte_enable : BOOLEAN, flag_byte_size : Nat \ {0},
     data_byte_enable : BOOLEAN, data_byte_size : Nat \ {0}]
RomConfig == [data_width : Nat, depth : Nat, byte_enable : BOOLEAN, byte_size : Nat \ {0}]
MemoryConfig ==
    [rom : RomConfig, icache : CacheConfig, dcache : CacheConfig, tlb : TlbConfig,
     use_tag_bram : BOOLEAN, use_tlb_bram : BOOLEAN]

\* What load_config takes for a section that vivado_config.yaml leaves out.
DefaultCache ==
    [num_sets |-> 8, num_ways |-> 4, tag_width |-> 7, line_words |-> 8,
     byte_enable |-> TRUE, byte_size |-> 8, tag_bram_byte_enable |-> TRUE,
     tag_bram_byte_size |-> 36, tag_bram_xilinx_byte_size |-> 9]
DefaultTlb ==
    [num_ways |-> 4, num_sets |-> 4, flag_byte_enable |-> TRUE, flag_byte_size |-> 32,
     data_byte_enable |-> TRUE, data_byte_size |-> 32]
DefaultMemory ==
    [rom |-> [data_width |-> 32, depth |-> 8192, byte_enable |-> FALSE, byte_size |-> 8],
     icache |-> DefaultCache, dcache |-> DefaultCache, tlb |-> DefaultTlb,
     use_tag_bram |-> FALSE, use_tlb_bram |-> FALSE]

-----------------------------------------------------------------------------
(***************************************************************************)
(* The block memories.                                                     *)
(***************************************************************************)
Port(data, addr, wea) == [data |-> data, addr |-> addr, wea |-> wea]

Bram(width, depth, byte_enable, byte_size) ==
    Port(width, Clog2(depth), IF byte_enable THEN width \div byte_size ELSE 1)

BramNames(mem) ==
    {"ROM", "icached", "dcached"}
        \cup (IF mem.use_tag_bram THEN {"icachet", "dcachet"} ELSE {})
        \cup (IF mem.use_tlb_bram THEN {"tlb_flag", "tlb_data"} ELSE {})

RomBram(rom) == Bram(rom.data_width, rom.depth, rom.byte_enable, rom.byte_size)
CacheDataBram(c) == Bram(c.line_words * 32, c.num_sets * c.num_ways, c.byte_enable, c.byte_size)
CacheTagBram(c) == Bram(c.num_ways * c.tag_bram_byte_size, c.num_sets,
                        c.tag_bram_byte_enable, c.tag_bram_xilinx_byte_size)
TlbFlagBits == 1 + 1 + 9 + 20 + 1
TlbDataBits == 22 + 1 + 1 + 1 + 1 + 1 + 1 + 4
TlbFlagBram(t) == Bram(t.num_ways * TlbFlagBits, t.num_sets, t.flag_byte_enable, t.flag_byte_size)
TlbDataBram(t) == Bram(t.num_ways * TlbDataBits, t.num_sets, t.data_byte_enable, t.data_byte_size)

CreatedIp(mem) ==
    [n \in BramNames(mem) |->
        CASE n = "ROM"      -> RomBram(mem.rom)
          [] n = "icached"  -> CacheDataBram(mem.icache)
          [] n = "dcached"  -> CacheDataBram(mem.dcache)
          [] n = "icachet"  -> CacheTagBram(mem.icache)
          [] n = "dcachet"  -> CacheTagBram(mem.dcache)
          [] n = "tlb_flag" -> TlbFlagBram(mem.tlb)
          [] n = "tlb_data" -> TlbDataBram(mem.tlb)]

-----------------------------------------------------------------------------
(***************************************************************************)
(* The header: the widths the RTL gives the wires of each memory.          *)
(***************************************************************************)
RomDefines(rom) ==
    Port(rom.data_width, Clog2(rom.depth),
         IF rom.byte_enable THEN rom.data_width \div rom.byte_size ELSE 1)

AddrSlices(c) ==
    LET line == c.line_words * 32
    IN  Port(line, Clog2(c.num_sets * c.num_ways),
             IF c.byte_enable THEN line \div c.byte_size ELSE 1)

\* TAG_BRAM_WEA_WIDTH does not look at tag_bram_byte_enable.
TagBramDefines(c) ==
    LET packed == c.num_ways * c.tag_bram_byte_size
    IN  Port(packed, Clog2(c.num_sets), packed \div c.tag_bram_xilinx_byte_size)

\* Nor do the TLB's at theirs.
TlbDefines(t, bits, byte_size) ==
    Port(t.num_ways * bits, Clog2(t.num_sets), (t.num_ways * bits) \div byte_size)

CacheHeader(mem) ==
    [n \in BramNames(mem) |->
        CASE n = "ROM"      -> RomDefines(mem.rom)
          [] n = "icached"  -> AddrSlices(mem.icache)
          [] n = "dcached"  -> AddrSlices(mem.dcache)
          [] n = "icachet"  -> TagBramDefines(mem.icache)
          [] n = "dcachet"  -> TagBramDefines(mem.dcache)
          [] n = "tlb_flag" -> TlbDefines(mem.tlb, TlbFlagBits, mem.tlb.flag_byte_size)
          [] n = "tlb_data" -> TlbDefines(mem.tlb, TlbDataBits, mem.tlb.data_byte_size)]

\* The wires of the RTL have the widths of the ports they are connected to.
Fits(header, ip) == header = ip

\* The configurations for which that can hold: the memories whose macros take
\* byte enables for granted have them.
ByteEnabled(mem) ==
    /\ mem.use_tag_bram => mem.icache.tag_bram_byte_enable /\ mem.dcache.tag_bram_byte_enable
    /\ mem.use_tlb_bram => mem.tlb.flag_byte_enable /\ mem.tlb.data_byte_enable
=============================================================================
