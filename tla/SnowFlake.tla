------------------------------ MODULE SnowFlake ------------------------------
(***************************************************************************)
(* The ids of snowflake.h, 64 bits wide:                                   *)
(*     timestamp << 22 | machine_id_ | sequence & 0xFFF                    *)
(* The time stamp fills the bits from 22 up, machine_id_ the bits 16 to 21 *)
(* and the sequence the bits 0 to 11.  They do not overlap, so an id is a  *)
(* record.  (The mask ~0x3F0000 on the time stamp clears only bits that    *)
(* the shift has left empty.)                                              *)
(***************************************************************************)
EXTENDS Integers

CONSTANTS
  SequenceRange,  \* values of sequence & 0xFFF: 4096
  TimeRange       \* values of the ten bits of a time stamp below bit 32: 1024

ASSUME RangeAssumption == SequenceRange \in Nat \ {0} /\ TimeRange \in Nat \ {0}

Machine == 0..63
Sequence == 0..(SequenceRange - 1)

Id(time, machine, sequence) == [time |-> time, machine |-> machine, sequence |-> sequence]
AnyId == [time : Nat, machine : Machine, sequence : Sequence]

\* The sequence is a uint16_t, which wraps at a multiple of 4096.
Successor(sequence) == IF sequence + 1 = SequenceRange THEN 0 ELSE sequence + 1

\* Mutant: the data center is shifted out of the mask.
WorkerOnly(datacenter, worker) == worker \div 64

\* machine_id_ >> 16.  (datacenter_id << 15) & 0x3E0000 keeps the bits 2 to 6 of datacenter_id,
\* (worker_id << 10) & 0x1F0000 the bits 6 and 7 of worker_id; bit 7 of the worker and bit 2
\* of the data center fall on the same bit.
MachineId(datacenter, worker) ==
  LET center == 2 * ((datacenter \div 4) % 32)
      thread == worker \div 64
      shared == IF center % 4 >= 2 /\ thread >= 2 THEN 2 ELSE 0
  IN  center + thread - shared

\* What uint32_t op_id of the server keeps of an id.
Low32(id) == [id EXCEPT !.time = @ % TimeRange]
==============================================================================
