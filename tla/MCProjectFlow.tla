---------------------------- MODULE MCProjectFlow ----------------------------
(***************************************************************************)
(* Memory sections for TLC: the one of vivado_config.yaml, and one with    *)
(* twice the sets in the data cache.                                       *)
(***************************************************************************)
EXTENDS ProjectFlow

MCCache == [DefaultCache EXCEPT !.tag_width = 19]
MCShipped ==
    [DefaultMemory EXCEPT
        !.rom.byte_enable = TRUE, !.icache = MCCache, !.dcache = MCCache,
        !.tlb.flag_byte_size = 8, !.tlb.data_byte_size = 8,
        !.use_tag_bram = TRUE, !.use_tlb_bram = TRUE]

MCMemory ==
    [g \in {"shipped", "sets"} |->
        CASE g = "shipped" -> MCShipped
          [] g = "sets"    -> [MCShipped EXCEPT !.dcache.num_sets = 16]]
MCGeometries == DOMAIN MCMemory
=============================================================================
