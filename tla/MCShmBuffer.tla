---------------------------- MODULE MCShmBuffer ----------------------------
(* Instances of ShmBuffer for TLC, with the constants of config.hpp. *)
EXTENDS ShmBuffer

SlotBytes == 4194304 \* SHM_SMALL_MSG_SIZE, 1 << 22
\* EOS, and sizes around the multiples of Slot up to 2^24
ExactSizes == {0, 1, SlotBytes, SlotBytes + 1, 3 * SlotBytes - 1, 4 * SlotBytes}

=============================================================================
