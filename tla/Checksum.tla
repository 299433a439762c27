------------------------------- MODULE Checksum -------------------------------
(***************************************************************************)
(* CRC-16/CCITT-FALSE, the checksum of P2WP: p2wp_crc16 and crc_update of  *)
(* the Pico, and p2wp_crc16 of the cartridge.  FrameCodec takes it as a    *)
(* parameter.                                                              *)
(***************************************************************************)
EXTENDS Integers, SequencesExt, Bitwise

CrcBit(crc, bit) ==
  IF crc >= 32768 THEN ((2 * crc) % 65536) ^^ 4129 ELSE 2 * crc

CrcUpdate(crc, byte) ==
  FoldLeft(CrcBit, crc ^^ (256 * byte), [bit \in 1..8 |-> bit])

CrcCcitt(data) == FoldLeft(CrcUpdate, 65535, data)
=============================================================================
