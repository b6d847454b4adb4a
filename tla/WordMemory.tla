----------------------------- MODULE WordMemory -----------------------------
(***************************************************************************)
(* What the data cache promises the core: a memory of words.  The load/    *)
(* store unit and the page-table walker each hold up a request; the memory *)
(* answers it with a pulse, and the answer is the access.  A load or a     *)
(* walk gets the word as it is at that instant, a store changes its word   *)
(* and no other at that instant, and the memory changes at no other time.  *)
(* Requests for devices pass through without touching the memory.          *)
(*                                                                         *)
(* The cache never shows in this specification: misses, write-backs,       *)
(* refills and flushes are steps that change nothing here.                 *)
(***************************************************************************)
CONSTANTS Address, Word

VARIABLES
    mem,          \* the word at each address
    req, walk,    \* the requests of the core and of the walker
    reqReady, walkReady, walkFault,   \* answer pulses
    data          \* the word that comes with an answer

memVars == <<mem, req, walk, reqReady, walkReady, walkFault, data>>

Init ==
    /\ mem \in [Address -> Word]
    /\ ~req.valid /\ ~walk.valid
    /\ ~reqReady /\ ~walkReady /\ ~walkFault

Quiet ==
    /\ ~reqReady' /\ ~walkReady' /\ ~walkFault'
    /\ mem' = mem

AnswerCore == req.valid /\ ~reqReady /\ reqReady' /\ ~walkReady' /\ ~walkFault'

Load ==
    /\ AnswerCore /\ ~req.mmio /\ ~req.write
    /\ data' = mem[req.addr]
    /\ mem' = mem

Store ==
    /\ AnswerCore /\ ~req.mmio /\ req.write
    /\ mem' = [mem EXCEPT ![req.addr] = req.data]

Device ==
    /\ AnswerCore /\ req.mmio
    /\ mem' = mem

Walk ==
    /\ walk.valid /\ ~walkReady /\ walkReady' /\ ~reqReady'
    /\ walkFault' = walk.mmio
    /\ ~walk.mmio => data' = mem[walk.addr]
    /\ mem' = mem

Next == Quiet \/ Load \/ Store \/ Device \/ Walk

Spec == Init /\ [][Next]_memVars
=============================================================================
