------------------------------ MODULE Addresses ------------------------------
(***************************************************************************)
(* Logical and physical addresses: mmu of the CPU splits an address into   *)
(* segment, page and offset, process_started of memoria sizes the page     *)
(* tables, and ram_access_* turns a frame and an offset into a position of *)
(* the RAM.  Addresses and sizes are non-negative ints, so the division of *)
(* C (and its floor) is \div; page_ammount is exact for sizes below 2^24,  *)
(* the integers a float holds.                                             *)
(***************************************************************************)
EXTENDS Integers, Sequences

CONSTANTS
  InputsTable,  \* ENTRADAS_POR_TABLA of memoria.config
  PageSize      \* TAM_PAGINA of memoria.config, in bytes

ASSUME AddressesAssumption ==
  /\ InputsTable \in Nat \ {0}
  /\ PageSize \in Nat \ {0}

IntSize == 4  \* sizeof(int): what a MOV moves

(* mmu *)
SegmentMaxSize == InputsTable * PageSize
SegmentNum(dl) == dl \div SegmentMaxSize
SegmentOffset(dl) == dl % SegmentMaxSize
PageNum(dl) == SegmentOffset(dl) \div PageSize
PageOffset(dl) == SegmentOffset(dl) % PageSize

(* process_started: ceil(segment_size / page_size)                         *)
PageAmount(size) == (size + PageSize - 1) \div PageSize

(* ram_access_read and ram_access_write                                    *)
OffsetRam(frame, offset) == frame * PageSize + offset
=============================================================================
